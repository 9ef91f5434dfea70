\* Two requests side by side, every failure.
CONSTANTS
  r1 = r1 r2 = r2 r3 = r3
  NoFile = NoFile NoRequest = NoRequest
  Requests = {r1, r2}
  Groupings = {"day"}
  PeriodDays <- Days
  SizeOf <- GrowThenShrink
  MaxDate = 2
  MaxVersion = 1
  InitialUsage <- FullUsage
  LateDates = {}
  Faults = {"fetch", "store", "create", "access", "read", "crash"}
  RequestSpace <- PlainAndIgnoring
  MaxInFlight = 2
  MaxCrashes = 1
  ReadSize = 4
  WindowSize = 1
SPECIFICATION FairSpec
PROPERTIES EveryRequestSettles
CHECK_DEADLOCK FALSE
