SPECIFICATION LaunchSpec
CONSTANTS
  Slugs = {s1}
  MaxLaunches = 2
  None = None
INVARIANT EveryLaunchTracked
CHECK_DEADLOCK FALSE
