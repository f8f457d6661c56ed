SPECIFICATION Spec
CONSTANTS
  MaxAddr = 6
  Files <- SmallFiles
  Unmapped = Unmapped
  Garbage = Garbage
  NoName = NoName
  PltName = PltName
  WrapMain = WrapMain
INVARIANTS
  LifterCanUseIt
  EveryInsnHasItsFunction
  EntryIsNamed
  EndsAreJustified
