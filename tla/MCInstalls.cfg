SPECIFICATION MCSpec
SYMMETRY MCSymmetry
CONSTANTS
  i1 = i1
  i2 = i2
  fabric = fabric
  forge = forge
  l1 = l1
  l2 = l2
  Instances = {i1, i2}
  Versions = {fabric, forge}
  Subprocess = {forge}
  Libs = {l1, l2}
  LibsOf <- MCLibsOf
  Ops = {o1, o2, o3}
  Requests <- MCRequests
  Mishaps = {"error", "cancel", "crash"}
  None = None
  Nil = Nil
  Slugs = {s1, s2}
  Loaders = {quilt}
  Jobs = {j1, j2, j3}
  a = a
  b = b
  Projects = {r, a, b}
  Root = r
  Chosen = chosen
  MaxOthers = 1
  MaxMishaps = 1
  MaxGames = 2
INVARIANTS MissingOnlyByRemoval JsonAfterLibs OneInstall ProgressIsLive DependenciesPresent FailsForAReason NotWhilePlaying
CHECK_DEADLOCK FALSE
