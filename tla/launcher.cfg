CONSTANTS
  MaxSignals = 2
SPECIFICATION FairSpec
CHECK_DEADLOCK FALSE
INVARIANTS
  ReturnCleansUp
  ProxyOutlivesClaude
PROPERTIES
  DrainAfterProxy
  SignalsReachClaude
  LaunchEnds
