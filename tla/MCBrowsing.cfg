CONSTANTS
  m1 = m1
  m2 = m2
  empty = empty
  text = text
  Slugs = {s1, s2}
  Projects = {m1, m2}
  Queries = {empty, text}
  Empty = empty
  Hits <- MCHits
  Slots = {j1, j2}
  MaxAsked = 2
  MaxLoad = 3
  None = None
  i1 = i1
  i2 = i2
  d1 = d1
  d2 = d2
  mod = mod
  server = server
  other = other
  Imports = {i1, i2}
  Modpacks <- MCModpacks
  Files = {mod, server, other}
  ForClient = {mod, other}
  InMods = {mod, server}
  Dirs = {d1, d2}
  Nil = Nil
SPECIFICATION MCSpec
SYMMETRY MCSymmetry
INVARIANTS VersionOfTheMod LockTracksInstalls WholeOrGone TokenKept
CHECK_DEADLOCK FALSE
