SPECIFICATION MCSpec
CONSTANTS
  a = a
  b = b
  Ids = {a, b}
  MaxLogins = 2
  MaxTasks = 2
  MaxKeys = 3
  None = None
INVARIANTS AccountsAreCurrent EscReaches CodeShownIsLive
PROPERTIES CancelledLoginEnds
CHECK_DEADLOCK FALSE
