SPECIFICATION SerialSpec
CONSTANTS
  a1 = a1
  a2 = a2
  f1 = f1
  f2 = f2
  p1 = p1
  p2 = p2
  t1 = t1
  t2 = t2
  App = {a1, a2}
  Plugin = {p1, p2}
  File = {f1, f2}
  Version = {1, 2, 3}
  Call <- Serial
  TempOf <- MCTempOf
  META_FILE = META_FILE
  SUBDIR = SUBDIR
  Main = Main
  NoCall = NoCall
  NoApp = NoApp
  Absent = Absent
  Faults = {"extract"}
INVARIANT JobFinish
CHECK_DEADLOCK FALSE
