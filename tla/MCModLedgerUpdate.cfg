SPECIFICATION Spec
CONSTANTS
  a = a
  b = b
  v1 = v1
  v2 = v2
  o1 = o1
  o2 = o2
  o3 = o3
  NoOp = NoOp
  Mods = {a, b}
  Versions = {v1, v2}
  Ops = {o1, o2}
  Requests <- MCUpdate
  Preinstalled <- MCPreinstalled
  Mishaps = {}
INVARIANT
  AllAgree
CHECK_DEADLOCK FALSE
