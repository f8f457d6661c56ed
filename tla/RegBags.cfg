SPECIFICATION FairSpec
CONSTANTS
  Bag <- Bags
  Root = 0
  Reg <- Regs
  ArgRegs <- ArgOnly
  Width <- Widths
  BagGraphs <- ExitingBagGraphs
INVARIANTS
  PrecedingIsComplete
  NoBagIsForgotten
  LiveRegsAreDerived
PROPERTIES
  AnalysisEnds
