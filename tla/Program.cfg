SPECIFICATION FairProgSpec
CONSTANTS
  MaxAddr = 3
  Binaries <- Programs
  EntryBlock = EntryBlock
  IndirectBr = IndirectBr
  BrToFunc = BrToFunc
  NoTrace = NoTrace
  StackSize = 2
INVARIANTS
  ErrorsAreJustified
  OnlyLiftedCodeRuns
PROPERTIES
  KeepsThePromise
  FollowsGuest
  GoesOn
