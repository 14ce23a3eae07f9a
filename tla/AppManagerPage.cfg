SPECIFICATION FairPageSpec
CONSTANTS
  a1 = a1
  f1 = f1
  f2 = f2
  p1 = p1
  p2 = p2
  p3 = p3
  t1 = t1
  g1 = g1
  g2 = g2
  key1 = key1
  key2 = key2
  v1 = v1
  v2 = v2
  v3 = v3
  App = {a1}
  Plugin = {p1, p2, p3}
  File = {f1}
  Version = {key1, key2, v1, v2, v3}
  Call <- MCCall
  TempOf <- MCTempOf
  META_FILE = META_FILE
  SUBDIR = SUBDIR
  Main = Main
  NoCall = NoCall
  NoApp = NoApp
  Page = {g1, g2}
  PageOf <- MCPageOf
  Request <- Mixed
  Released = {v1, v2}
  Latest = v2
  Package <- MCPackage
  Undefined = Undefined
  Empty = Empty
  Nobody = Nobody
  NoPlugin = NoPlugin
  Faults = {"extract"}
INVARIANTS
  PageTypeOK
  NoStrayInterval
  PollOutlivesJob
  FinishIsTrue
PROPERTIES
  PageTakesTurns
  PollEnds
CHECK_DEADLOCK FALSE
