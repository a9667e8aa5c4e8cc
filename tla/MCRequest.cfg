SPECIFICATION RequestSpec
CONSTANTS
  RequestLines <- MCRequestLines
  HeaderLines <- MCHeaderLines
  Dates = {1, 2}
  None = None
  Own = "own"
  Others = {"x"}
  HexDigits <- MCHex
  ByteOf <- MCByteOf
  Forbidden <- MCForbidden
  Codes <- MCCodes
  Health <- MCHealth
  Modified = 2
INVARIANTS RequestTypeOK VerdictIsRight AcceptedIsRight TargetIsRead MatchIsRight RecordIsTrue
CHECK_DEADLOCK FALSE
