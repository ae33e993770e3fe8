CONSTANTS
  s1 = s1
  MaxProcs = 3
  Sups = {s1}
  RestartLimit = 1
  MaxRestarts = 1
  MaxFaults = 2
  MaxAsks = 1
  MaxStops = 1
SPECIFICATION Spec
INVARIANT TypeOK
INVARIANT EverySpawnHasACause
INVARIANT LoneDaemonIsFound
PROPERTY SignalledDaemonsExit
PROPERTY ViewForgetsTheDead
PROPERTY ViewFindsTheLiving
