SPECIFICATION MCResolveSpec
SYMMETRY MCResolveSymmetry
CONSTANTS
  a = a
  b = b
  Projects = {r, a, b}
  Root = r
  Chosen = chosen
  MaxOthers = 1
  MaxMishaps = 1
INVARIANT ConflictIsReal
CHECK_DEADLOCK FALSE
