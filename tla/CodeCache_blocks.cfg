SPECIFICATION CodeSpec
CONSTANTS
  r1 = r1
  r2 = r2
  m1 = m1
  gs = gs
  b1 = b1
  b2 = b2
  Resources = {r1, r2}
  Modules = {m1, gs}
  GasSchedule = gs
  Blobs = {b1, b2}
  NoBlob = NoBlob
  s1 = s1
  s2 = s2
  Scripts = {s1, s2}
  Imports <- MCImports
INVARIANTS
  ReadsSeeBlockState
  DivergesOnlyByResurrection
  LoadedIsPublished
PROPERTIES
  WritesReachStorage
SYMMETRY MCSymmetry
