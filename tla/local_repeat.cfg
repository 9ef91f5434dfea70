\* The same window asked for again.
CONSTANTS
  r1 = r1 r2 = r2 r3 = r3
  NoFile = NoFile NoRequest = NoRequest
  Requests = {r1, r2}
  Groupings = {"day"}
  PeriodDays <- Days
  SizeOf <- GrowThenShrink
  MaxDate = 2
  MaxVersion = 1
  InitialUsage <- FullUsage
  LateDates = {}
  Faults = {}
  RequestSpace <- PlainRequests
  MaxInFlight = 1
  MaxCrashes = 0
  ReadSize = 4
  WindowSize = 2
SPECIFICATION Spec
INVARIANTS AnswersOnce
CHECK_DEADLOCK FALSE
