SPECIFICATION Spec
CONSTANTS
  Block <- Blocks
  Entry = 0
  Reg = 0
  Values <- Words
  Functions <- SupportedFunctions
INVARIANTS
  SoundLoads
  SoundArguments
  SoundResults
  SoundRegister
  ArgumentsAreCached
