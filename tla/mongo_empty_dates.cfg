\* The dates that were found to be empty are cached.
CONSTANTS
  r1 = r1 r2 = r2 r3 = r3 t1 = t1 t2 = t2
  aws = aws az1 = az1 az2 = az2 ali = ali
  NoSeed = NoSeed NoRequest = NoRequest NoReply = NoReply
  Requests = {r1}
  Sources = {az1, az2}
  Tenants <- OneTenant
  Providers <- AllProviders
  ProviderOf <- AzureOnly
  Seedable <- SeedableProviders
  AccountScoped = {az1, az2}
  MaxDate = 2
  MaxVersion = 1
  InitialUsage <- AnyUsage
  LateDates = {}
  Faults = {}
  RequestSpace <- PlainRequests
  MaxInFlight = 1
SPECIFICATION Spec
INVARIANTS EmptyDatesCached
CHECK_DEADLOCK FALSE
