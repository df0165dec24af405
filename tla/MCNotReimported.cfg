SPECIFICATION Spec
CONSTANTS
  rig = rig
  arm = arm
  shape0 = shape0
  Camera = Camera
  Mesh = Mesh
  Shader = Shader
  Plain = Plain
  Absent = Absent
  NoPath = NoPath
  Paths = {rig, arm, shape0}
  Chain <- MCChain
  Types = {Camera, Mesh, Shader}
  Parented = {Camera, Mesh}
  Updating = {Camera}
  Automatic = {Camera, Shader}
  Unmerged = {shape0}
  Compositions <- MCCompositions
  MaxRequired = 3
PROPERTY Reimported
CHECK_DEADLOCK FALSE
