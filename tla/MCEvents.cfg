SPECIFICATION Spec
CONSTANTS
  afterNew = afterNew
  NoData = NoData
  NoTag = NoTag
  NoOwner = NoOwner
  MayaNames <- MCMayaNames
  ClientTypes <- MCOneType
  Parents <- MCParents
  Names = {afterNew}
  Owners = {NoOwner, node}
  Tags = {t1, t2}
  Datas = {NoData}
  Weights <- MCZero
  MaxRef = 2
  MaxEvents = 2
  MaxNum = 2
  MaxInfos = 1
INVARIANTS TypeOK IdsAscending EventsDistinct CallbacksReachable CountCovers
CHECK_DEADLOCK FALSE
SYMMETRY MCTagSymmetry
