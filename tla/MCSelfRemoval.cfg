SPECIFICATION TriggerSpec
CONSTANTS
  afterNew = afterNew
  NoData = NoData
  NoTag = NoTag
  NoOwner = NoOwner
  MayaNames <- MCMayaNames
  ClientTypes <- MCOneType
  Parents <- MCParents
  Names = {afterNew}
  Owners = {NoOwner}
  Tags = {t1}
  Datas = {NoData, d1}
  Weights <- MCZero
  MaxRef = 2
  MaxEvents = 1
  MaxNum = 2
  MaxInfos = 0
  MaxDepth = 1
PROPERTY DispatchesToAll
CHECK_DEADLOCK FALSE
