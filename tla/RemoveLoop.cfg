SPECIFICATION FairSpec
CONSTANTS
  Bag <- Bags
  Root = 0
  Reg = {"r"}
  Width <- MCWidth
  Graphs <- AllGraphs
  BlockLoads <- Loads
  BlockStores <- Stores
INVARIANTS
  BagsAreLoops
  BagGraphIsAcyclic
  BagNumCounts
  OwnRegsAreTheBlocks
  PathLeadsBack
PROPERTIES
  SearchEnds
