SPECIFICATION TriggerSpec
CONSTANTS
  afterNew = afterNew
  NoData = NoData
  NoTag = NoTag
  NoOwner = NoOwner
  MayaNames <- MCMayaNames
  ClientTypes <- MCOneType
  Parents <- MCParents
  Names = {afterNew}
  Owners = {NoOwner, node}
  Tags = {t1}
  Datas = {NoData, d1}
  Weights <- MCZero
  MaxRef = 1
  MaxEvents = 2
  MaxNum = 2
  MaxInfos = 0
  MaxDepth = 2
INVARIANTS TriggerTypeOK NothingStale
PROPERTY WholeBroadcast
CHECK_DEADLOCK FALSE
VIEW MCWithoutDue
