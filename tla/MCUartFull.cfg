CONSTANTS
  RxSlots = 4
  Byte <- Keys
  TimerId = 27
  MaxFifo = 2
  MaxTyped = 4
  MaxExpiries = 1
SPECIFICATION GFairSpec
PROPERTY IsQueue
CHECK_DEADLOCK FALSE
