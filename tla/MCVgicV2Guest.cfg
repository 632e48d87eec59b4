CONSTANTS
  RxSlots = 4
  Byte <- Keys
  TimerId = 27
  MaxFifo = 2
  MaxTyped = 4
  MaxExpiries = 2
SPECIFICATION GFairSpec
INVARIANTS ViMatchesPending TimerInFlight CharsInOrder
PROPERTIES QueueUnlessFull RxStrandedOnlyByUnmask TimerServed RxServedToEmpty FifoDrained
CHECK_DEADLOCK FALSE
