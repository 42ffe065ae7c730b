SPECIFICATION Spec
CONSTANTS
  val = val
  c1 = c1
  u1 = u1
  u2 = u2
  u3 = u3
  Values = {val}
  Natives = {val}
  Classes = {val}
  InitClasses = {val}
  Methods = {val}
  Closures = {c1}
  Upvalues = {u1, u2, u3}
  StackMax = 4
  FramesMax = 3
  MaxCaptures = 3
  Repl = TRUE
  Nil = Nil
  Own = Own
  Unused = Unused
SYMMETRY Symmetry
VIEW View
INVARIANTS
  TypeOK
  WindowsNested
  OpenDescends
  OpenListComplete
CHECK_DEADLOCK FALSE
