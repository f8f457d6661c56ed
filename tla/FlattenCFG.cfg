SPECIFICATION FairSpec
CONSTANTS
  Block <- Blocks
  Entry = 0
  First = 1
  Reg <- Regs
  Width <- Widths
  NoBlock = NoBlock
  Graphs <- AllGraphs
  InsnLoads <- Loads
  InsnStores <- Stores
INVARIANTS
  ParentsAreExact
  QueuedBlocksLive
  NothingIsLeftToJoin
  BlockRegsAreExact
  FreshIsLatest
PROPERTIES
  FlatteningEnds
