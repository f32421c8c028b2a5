SPECIFICATION Spec
CONSTANTS
  Var = {a, b}
  Object = {o1, o2, o3}
  Null = null
  MaxLayers = 2
  SizeMod = 8
SYMMETRY MCSymmetry
INVARIANTS
  TypeOK
  NoLeak
  UndefinedOnlyByCopy
  GetLayerIsOneBased
