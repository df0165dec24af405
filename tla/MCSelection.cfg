SPECIFICATION Spec
CONSTANTS
  top = top
  left = left
  right = right
  Paths = {top, left, right}
  Prims = {top, left, right}
  Schema = {left}
  Chain <- MCChain
  Modes = {"replace", "add", "remove", "toggle"}
  Other = other
  Switching = FALSE
  MaxNodes = 2
  MaxQueue = 2
CONSTRAINT MCSound
INVARIANTS RefTypeOK CountsMatch RequiredKept OneNodePerPath
CHECK_DEADLOCK FALSE
