CONSTANTS
  HeapStart = 2
  HeapSize = 23
  NodeSize = 4
  NodeAlign = 2
  Sizes <- SmallSizes
  Aligns <- SomeAligns
SPECIFICATION Spec
INVARIANTS NodesSafe LossBounded
PROPERTY IsHeap
