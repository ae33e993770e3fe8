CONSTANTS
  w1 = w1
  s1 = s1
  s2 = s2
  execute_trade = execute_trade
  create_goal = create_goal
  ExecuteTrade = execute_trade
  Types = {execute_trade, create_goal}
  Handled = {execute_trade}
  Kinds <- MCKinds
  Walks = {w1}
  Route = route
  MaxPending = 1
  MaxActions = 2
  MaxMishaps = 1
  Symbols = {s1, s2}
  Sizes = {2}
  Gains <- MCGains
  Start = 4
  MaxPositions = 1
  Timer = timer
  Traders = {1, 2}
  None = none
  MaxOpens = 2
SPECIFICATION Spec
INVARIANT TypeOK
INVARIANT AtMostOnce
INVARIANT PositionsInBounds
INVARIANT BooksBalance
PROPERTY SureActionsAreExecuted
