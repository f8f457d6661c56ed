SPECIFICATION Spec
CONSTANTS
  HeapStart = 4
  HeapLen = 4
  StackStart = 9
  StackLen = 2
  SectionTables <- Tables
  Lengths = {1, 2}
  MaxMaps = 2
  NoCall = NoCall
INVARIANTS
  BytesAreItsOwnUntilBrk
  AnswersItself
