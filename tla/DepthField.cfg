SPECIFICATION Spec
CONSTANT
  MaxLayers = 6
INVARIANTS
  TypeOK
  ListIsSuffix
  FieldOfLayer
  HelperAtSurface
