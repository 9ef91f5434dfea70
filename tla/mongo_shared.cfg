\* Plain requests and one that seeds, side by side, with inserts that may fail part of the way.
CONSTANTS
  r1 = r1 r2 = r2 r3 = r3 t1 = t1 t2 = t2
  aws = aws az1 = az1 az2 = az2 ali = ali
  NoSeed = NoSeed NoRequest = NoRequest NoReply = NoReply
  Requests = {r1, r2, r3}
  Sources = {aws, az1}
  Tenants <- OneTenant
  Providers <- AllProviders
  ProviderOf <- AwsAndAzure
  Seedable <- SeedableProviders
  AccountScoped = {az1}
  MaxDate = 2
  MaxVersion = 1
  InitialUsage <- AnyUsage
  LateDates = {}
  Faults = {"fetch", "insert"}
  RequestSpace <- PlainOrSeed
  MaxInFlight = 2
SPECIFICATION Spec
INVARIANTS IncompleteOnlyIfTorn AnswerCoversSeen SeedCovers SeedAppendsOnlyMissing
SYMMETRY RequestSymmetry
CHECK_DEADLOCK FALSE
