SPECIFICATION Spec
CONSTANT
  MaxLayers = 4
INVARIANT
  PoyntingOfLayer
