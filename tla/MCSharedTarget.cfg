SPECIFICATION MCSpec
CONSTANTS
  p1 = p1
  p2 = p2
  a = a
  b = b
  Proxies = {p1, p2}
  Layers = {s1, s2, s3, a, b}
  SessionLayers = {s1, s2, s3}
  Used <- MCShared
  Ids = {s1, s2, s3, a, b}
  NoLayer = NoLayer
  NoId = NoId
SYMMETRY MCSymmetry
PROPERTY SavesEdits
CHECK_DEADLOCK FALSE
