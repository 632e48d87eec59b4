CONSTANTS
  Machines <- MachinesMC
  Windows <- BothWindows
  CellBase = 16
  UartSize = 2
  RamSize = 16
  HostRamBase = 16
  Align = 4
  Initramfs = 8
  TextOffset = 2
  Sector = 2
  BootMemory = 2
SPECIFICATION FairSpec
INVARIANTS HandlerFindsVm SerialRight ImagesIntact GuestRamApart
PROPERTY Boots
CHECK_DEADLOCK FALSE
