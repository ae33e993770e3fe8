CONSTANTS
  m1 = m1
  m2 = m2
  f1 = f1
  f2 = f2
  Mods <- MCMods
  Files <- MCFiles
  AtFirst <- MCAtFirst
  Hollow <- MCHollow
  Diff <- MCDiff
  Original = Original
  Empty = Empty
  Absent = Absent
  NoMod = NoMod
  MaxPerHour = 1
  MaxTests = 1
  MaxMishaps = 0
SPECIFICATION Spec
PROPERTY RollbackRemovesCode
