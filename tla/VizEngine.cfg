SPECIFICATION FairSpec
CONSTANTS
  Thread = {t1, t2, t3}
  Dir = {d1, d2}
  NoDir = NoDir
  MaxDirs = 1
  MaxFails = 1
  Image <- MCImage
  SizeT = 8
INVARIANTS
  TypeOK
  SingleInitializer
  ReadyWhenOk
  UndefinedOnlyAfterShutdown
  OnlyTheFlagBlocks
PROPERTIES
  ShutdownIsFinal
  CallsReturn
  ImplementsOnceCell
\* A plot on a disposed engine is undefined behaviour: the model stops there.
CHECK_DEADLOCK FALSE
