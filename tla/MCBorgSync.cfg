SPECIFICATION Spec
CONSTANTS
    b1 = b1
    b2 = b2
    s1 = s1
    i1 = i1
    Brains = {b1, b2}
    Slots = {s1}
    Items = {i1}
    Owner <- MCOwner
    MaxIntervals = 2
    MaxUpdates = 1
    MaxMishaps = 2
INVARIANT TypeOK
INVARIANT NoEcho
INVARIANT OnlyExposedIsShared
INVARIANT OneIntervalWhenEnabled
PROPERTY DisabledTakesNoPush
PROPERTY KnowledgeSpreads
