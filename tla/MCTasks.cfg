SPECIFICATION MCSpec
CONSTANTS
  MaxJobs = 3
  MaxConcurrent = 2
  EventCap = 2
  MaxProgress = 1
  Forwarded <- MCForwarded
  Slugs = {s1, s2}
  MaxLaunches = 2
  None = None
INVARIANTS
  PermitsConserved
  CompletedIsLast
  TrackedUnlessOverlapped
PROPERTIES
  ImplementsJobPool CancelAllDrains StopKills BadgeClears
CHECK_DEADLOCK FALSE
