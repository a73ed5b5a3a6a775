SPECIFICATION MCSpec
CONSTANTS
  o1 = o1
  o2 = o2
  o3 = o3
  Ops = {o1, o2, o3}
  Writers = {o1, o2, o3}
  PackOps = {o1, o2, o3}
  None = None
  NoFile = NoFile
  NoOp = NoOp
  a = a
  b = b
  Ids = {a, b}
  Present = {a}
  Requests <- MCRequests
  Mishaps = {"keyring", "cut", "crash"}
  s1 = s1
  s2 = s2
  Slugs = {s1, s2}
  Instances = {s1}
  Fields = {"name", "group"}
  ManifestRequests <- MCManifestRequests
  ManifestMishaps = {"cut", "crash"}
  p = p
  q = q
  loc = loc
  n1 = n1
  n2 = n2
  h1 = h1
  h2 = h2
  PackIds = {p, q, loc}
  Names = {n1, n2}
  Hashes = {h1, h2}
  PackRequests <- MCPackRequests
  Preinstalled <- MCPreinstalled
  Absent = Absent
  Torn = Torn
SYMMETRY MCSymmetry
INVARIANTS OneActive EntryAndTokenAgree NewestFound SerialUnlessClash RowsHaveTheirFile FilesHaveTheirRow
CHECK_DEADLOCK FALSE
