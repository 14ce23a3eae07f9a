SPECIFICATION Spec
CONSTANTS
  f = f
  g = g
  d = d
  df = df
  BLOCK = 2
  COUNT = 2
  Name = {f, g, d, df}
  Absent = Absent
  Above <- MCAbove
  Header <- MCHeader
  Archives <- MCArchives
INVARIANTS
  TypeOK
  DeliveredIsIntact
  FilesAreWhole
PROPERTIES
  ReaderEnds
  ImplementsDelivery
CHECK_DEADLOCK FALSE
