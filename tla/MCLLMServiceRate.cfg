CONSTANTS
  c1 = c1
  c2 = c2
  c3 = c3
  c4 = c4
  e1 = e1
  e2 = e2
  k1 = k1
  k2 = k2
  local = local
  cloud = cloud
  Calls <- MCCalls
  Engines = {e1, e2}
  Budgeted = {e1}
  Providers = {local, cloud}
  Paid = {cloud}
  Engine <- MCEngine
  Estimate <- MCEstimate
  Key <- MCKey
  Route <- MCRoute
  Costs = {1, 3}
  Limit <- MCLimit
  Span <- MCSpan
  CallsPerHour = 1
  TokensPer <- MCTokensPer
  UsageTtl = 2
  StaleAfter = 1
  AnswerTtl = 1
  MaxAnswers = 1
  NoUsage = NoUsage
  MaxNow = 3
  MaxMishaps = 0
SPECIFICATION Spec
INVARIANT PaidCallsWithinLimit
