SPECIFICATION CommandSpec
CONSTANTS
  afterNew = afterNew
  update = update
  shape = shape
  t1 = t1
  t2 = t2
  NoData = NoData
  NoTag = NoTag
  NoOwner = NoOwner
  MayaNames <- MCMayaNames
  ClientTypes <- MCOneType
  Parents <- MCParents
  Names = {afterNew, update}
  Owners = {NoOwner, shape}
  Tags = {t1, t2}
  Datas = {NoData}
  Weights <- MCZeroOne
  FreedReads <- MCNoReads
  MaxRef = 5
  MaxEvents = 3
  MaxNum = 3
  MaxInfos = 0
  CommandArgs <- MCArgs
  EventArgs <- MCEventArgs
  MaxQueue = 4
CONSTRAINT MCBound
INVARIANTS CommandTypeOK NodeEventsAgree WeightsAscending SitesUnique PlainUnique PlainExact
PROPERTY UndoRestores
CHECK_DEADLOCK FALSE
