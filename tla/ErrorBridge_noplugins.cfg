SPECIFICATION Spec
CONSTANTS
  Thread = {t1, t2}
  ShortWhat <- MCShortWhat
  LongWhat <- MCLongWhat
  HasPlugins = FALSE
INVARIANTS
  TypeOK
  LastErrorDescribesCall
  ReportIsOwn
  OutOfMemoryIsReported
PROPERTY
  ImplementsRegister
\* An exception that leaves the C ABI ends the process: the system does stop.
CHECK_DEADLOCK FALSE
