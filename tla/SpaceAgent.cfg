SPECIFICATION FairSpec
CONSTANTS
  Page = {g1, g2}
  Poller = {g1}
  Space = {q1, q2, q3}
INVARIANTS
  TypeOK
  OnePerBrowser
PROPERTIES
  StatusIsReported
  StopIsShown
CHECK_DEADLOCK FALSE
