CONSTANTS
  HeapStart = 10
  HeapSize = 13
  HeaderSize = 2
  Requests = {0, 1, 3, 4, 11}
SPECIFICATION Spec
INVARIANTS TypeOK WellLinked Coalesced OwnedIsAllocated HeadersIntact WholeWhenEmpty
PROPERTIES FirstFit HeapSpec
