SPECIFICATION Spec
CONSTANTS
  Func <- Functions
  Reg <- Functions
  CalleeMaps <- Maps
  OwnRegs <- OwnReg
  MaxStack = 10
INVARIANTS
  PassedIsWhatIsReached
  OnlyLoopsAreEndless
