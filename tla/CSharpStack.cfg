SPECIFICATION Spec
CONSTANT
  Thread = {t1, t2, t3}
SYMMETRY MCSymmetry
INVARIANTS
  TypeOK
  UndefinedOnlyByOverlap
  LateUseThrows
  ReturnedIsFreed
\* Reading or destroying a destroyed stack is undefined: the model stops there.
CHECK_DEADLOCK FALSE
