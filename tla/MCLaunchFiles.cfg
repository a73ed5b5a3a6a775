SPECIFICATION MCSpec
CONSTANTS
  None = None
  Nil = Nil
  OS = "linux"
  Arch = "x86_64"
  v1 = v1
  v2 = v2
  v3 = v3
  loader = loader
  j1 = j1
  j2 = j2
  l1 = l1
  l2 = l2
  Jobs = {j1, j2}
  Launches = {l1, l2}
  Meta <- MCMeta
  Manifest = {v1, v2, v3}
  Assets <- MCAssets
  Loader = loader
  Together <- MCTogether
  LibCap = 1
  AssetCap = 2
  MaxMishaps = 1
  Uses = {u1, u2}
  Asks <- MCAsks
  Majors = {17, 21}
  Offered = {21}
  Known = TRUE
  Files = {"java.exe", "java.dll"}
  Exe = "java.exe"
  Stem <- MCStem
  MaxJavaMishaps = 1
INVARIANTS TornOnlyByWriters InstalledHasItsFiles WholeUnlessOverlapped StartsWithItsJava
PROPERTIES LaunchFindsFiles EverythingEnds 
CHECK_DEADLOCK FALSE
