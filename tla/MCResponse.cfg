SPECIFICATION ServiceSpec
CONSTANTS
  Unset = Unset
  NotUtf8 = NotUtf8
  Invalid = Invalid
  Cpus = 64
  RawValues <- MCRawValues
  Lengths = {0, 2}
INVARIANTS ServiceTypeOK SafeToServe HeadIsRight LogIsTrue
PROPERTIES SignalEnds
CHECK_DEADLOCK FALSE
