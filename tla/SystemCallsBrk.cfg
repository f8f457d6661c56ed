SPECIFICATION Spec
CONSTANTS
  HeapStart = 4
  HeapLen = 4
  StackStart = 9
  StackLen = 2
  SectionTables <- Tables
  Lengths = {1, 2}
  MaxMaps = 3
  NoCall = NoCall
INVARIANTS
  BytesAreItsOwn
