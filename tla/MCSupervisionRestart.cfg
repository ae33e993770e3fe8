CONSTANTS
  s1 = s1
  MaxProcs = 3
  Sups = {s1}
  RestartLimit = 1
  MaxRestarts = 1
  MaxFaults = 0
  MaxAsks = 1
  MaxStops = 0
SPECIFICATION Spec
PROPERTY RestartedDaemonsRun
