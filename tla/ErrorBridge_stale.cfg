SPECIFICATION Spec
CONSTANTS
  Thread = {t1}
  ShortWhat <- MCShortWhat
  LongWhat <- MCLongWhat
  HasPlugins = FALSE
INVARIANT
  MessageIsOfLastError
\* An exception that leaves the C ABI ends the process: the system does stop.
CHECK_DEADLOCK FALSE
