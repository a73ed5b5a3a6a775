SPECIFICATION FairSpec
CONSTANTS
  a = a
  b = b
  v1 = v1
  v2 = v2
  o1 = o1
  o2 = o2
  o3 = o3
  NoOp = NoOp
  Mods = {a, b}
  Versions = {v1, v2}
  Ops = {o1, o2, o3}
  Requests <- MCRequests
  Preinstalled <- MCPreinstalled
  Mishaps = {"io", "cancel", "crash"}
INVARIANTS
  UndisturbedAgree
PROPERTIES
  ImplementsItemLedger EveryOpEnds
CHECK_DEADLOCK FALSE
