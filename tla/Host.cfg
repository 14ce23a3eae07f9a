SPECIFICATION HostSpec
CONSTANTS
  Instance = {i1, i2}
  Faults = {"reject"}
  MaxHeld = 3
  MaxThreads = 2
  Name = {native, managed}
  DotNet = {managed}
  Addr = {a1, a2, a3, a4}
  NoAddr = NoAddr
SYMMETRY Symmetry
INVARIANTS
  TypeOK
  EveryOwnerIsCounted
  NoUseAfterFree
  LeakIsBounded
  HostTypeOK
  RegisteredIsAlive
  LoaderIsCounted
  OneLibraryPerObject
CHECK_DEADLOCK FALSE
