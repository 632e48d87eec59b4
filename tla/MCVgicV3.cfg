CONSTANTS
  NumLr = 3
  Spi <- Uart
  MaxRaises = 3
  MaxWrites = 3
SPECIFICATION FairSpec
INVARIANTS RaisedKept TimerEnds HwEntryBacked
PROPERTY TimerServed
CHECK_DEADLOCK FALSE
