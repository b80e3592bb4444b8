SPECIFICATION Spec
CONSTANTS
  WordBits = 2
  PageWords = 4
  CLASS_COUNT = 3
  EndAddress = 22
  Maps <- AllMaps
INVARIANTS
  MemoryAccounted
  PagesExact
  BitsWithin
