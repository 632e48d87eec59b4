CONSTANTS
  NumLr = 3
  Spi <- UartAndDisk
  MaxWrites = 0
  MaxRaises = 5
SPECIFICATION Spec
INVARIANT TimerEnds
CHECK_DEADLOCK FALSE
