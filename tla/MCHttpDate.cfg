SPECIFICATION CalendarSpec
CONSTANTS
  LastYear = 10001
  FullYears <- MCFullYears
  Seconds <- MCSeconds
INVARIANTS CalendarAgrees LastModifiedEchoes AcceptedDateExists
CHECK_DEADLOCK FALSE
