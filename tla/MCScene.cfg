SPECIFICATION MCSpec
CONSTANTS
  p1 = p1
  p2 = p2
  a = a
  Proxies = {p1, p2}
  Referenced = {p2}
  Layers = {s1, s2, a}
  SessionLayers = {s1, s2}
  Used <- MCUsed
  Ids = {s1, s2, a}
  NoLayer = NoLayer
  NoId = NoId
  Texts = {blank, edited}
  Blank = blank
  MaxDepth = 2
SYMMETRY MCSymmetry
CONSTRAINT MCBound
INVARIANTS SceneTypeOK ReadsSettle
PROPERTIES RoundTrip EditsSurviveReads
CHECK_DEADLOCK FALSE
