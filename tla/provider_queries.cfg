\* One call for usage, at one, two or four providers, or one for recommendations, with any failure.
CONSTANTS
  ResultPages = 3
  LogGroups = 2
  Intervals = 2
  MaxConcurrent = 1
  MaxPolls = 1
  Subscriptions = 2
  ById = TRUE
  SubscriptionChunk = 0
  Start = 3
  End = 11
  ConsumptionDays = 1
  MaxRetries = 1
  RateLimit = 1
  UsageDetails <- SomeUsage
  Enabled <- OneOrAll
  BillingCycles = 2
  p1 = p1
  p2 = p2
  global = global
  zone = zone
  Projects = {p1, p2}
  ComputeZones = {global, zone}
  Recommenders = 1
  GcpRecs <- SomeGcpRecs
  Resources = {"i1", "i2", "i3", "i4", "i5"}
  BucketObjects <- SomeObjects
  RightsizingPages <- SomePages
  Advised = {s1, s2}
SPECIFICATION Spec
INVARIANTS TypeOK PagesOnce EveryLogQueryRead UsageTakenOnce AnsweredInFull SavingsByKnown
PROPERTY CallEnds
CHECK_DEADLOCK FALSE
