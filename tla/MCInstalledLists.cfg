SPECIFICATION Spec
CONSTANTS
  mods = mods
  packs = packs
  x = x
  y = y
  z = z
  Lists = {mods, packs}
  ModLists = {mods}
  Shaders = {}
  CycleTo <- MCCycleTo
  Items = {x, y, z}
  Own <- MCOwn
  Slots = {t1, t2}
  None = None
SYMMETRY MCSymmetry
INVARIANTS ListIsCurrent MarksAreCurrent
PROPERTY WantKept
CHECK_DEADLOCK FALSE
