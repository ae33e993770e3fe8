CONSTANTS
  t1 = t1
  t2 = t2
  Topics = {t1, t2}
  Similar <- MCSimilar
  Overlapping <- MCSimilar
  Working <- MCWorking
  MaxConcurrent = 1
  DedupRows = 2
  MaxPerDay = 1
  LogRows = 1
  Day = 2
  MaxMissions = 2
  MaxNow = 2
  MaxMishaps = 1
SPECIFICATION Spec
INVARIANT TypeOK
INVARIANT LimitKept
INVARIANT RowsAgree
INVARIANT RunsAreRecorded
INVARIANT DailyLimitKept
PROPERTY MissionsEnd
