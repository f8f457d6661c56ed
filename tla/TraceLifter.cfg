SPECIFICATION FairSpec
CONSTANTS
  MaxAddr = 4
  Binaries <- Layouts
  EntryBlock = EntryBlock
  IndirectBr = IndirectBr
  BrToFunc = BrToFunc
  NoTrace = NoTrace
INVARIANTS
  DefinitionsHaveNoHoles
  BranchTableIsComplete
  ParentsAreBranches
  TracesDoNotOverrun
PROPERTIES
  NeverRelifted
  LiftingEnds
