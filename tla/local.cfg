\* Requests by themselves and side by side, over any usage; the process ends once,
\* stopped or by a stream that fails.
CONSTANTS
  r1 = r1 r2 = r2 r3 = r3
  NoFile = NoFile NoRequest = NoRequest
  Requests = {r1, r2, r3}
  Groupings = {"day"}
  PeriodDays <- Days
  SizeOf <- GrowThenShrink
  MaxDate = 3
  MaxVersion = 1
  InitialUsage <- SomeUsage
  LateDates = {3}
  Faults = {"fetch", "read", "crash"}
  RequestSpace <- EveryShape
  MaxInFlight = 2
  MaxCrashes = 1
  ReadSize = 6
  WindowSize = 1
SPECIFICATION Spec
INVARIANTS TypeOK AloneComplete FileSound NothingForgotten
SYMMETRY RequestSymmetry
CHECK_DEADLOCK FALSE
