\* Requests side by side, every failure; the process ends once.
CONSTANTS
  r1 = r1 r2 = r2 r3 = r3
  NoFile = NoFile NoRequest = NoRequest
  Requests = {r1, r2, r3}
  Groupings = {"day"}
  PeriodDays <- Days
  SizeOf <- AnySize
  MaxDate = 2
  MaxVersion = 1
  InitialUsage <- AnyUsage
  LateDates = {2}
  Faults = {"fetch", "access", "read", "upload", "crash"}
  RequestSpace <- EveryShape
  MaxInFlight = 2
  MaxCrashes = 1
SPECIFICATION Spec
INVARIANTS TypeOK AloneComplete ObjectOnce UploadCoversAnswer
SYMMETRY RequestSymmetry
CHECK_DEADLOCK FALSE
