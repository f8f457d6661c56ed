SPECIFICATION Spec
CONSTANTS
  Block <- Blocks
  Entry = 0
  Reg = 0
  Values <- Words
  Functions <- NarrowFunctions
INVARIANTS
  LoadsAgree
