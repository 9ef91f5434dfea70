\* Two tenants, revised usage: what is stored and answered is the tenant's own, as the abstract store has it.
CONSTANTS
  r1 = r1 r2 = r2 r3 = r3 t1 = t1 t2 = t2
  aws = aws az1 = az1 az2 = az2 ali = ali
  NoSeed = NoSeed NoRequest = NoRequest NoReply = NoReply
  Requests = {r1, r2}
  Sources = {az1}
  Tenants <- TwoTenants
  Providers <- AllProviders
  ProviderOf <- AzureOnly
  Seedable <- SeedableProviders
  AccountScoped = {az1}
  MaxDate = 3
  MaxVersion = 2
  InitialUsage <- SecondDateOpen
  LateDates = {2}
  Faults = {"fetch", "drop", "check", "insert", "read"}
  RequestSpace <- MixedRequests
  MaxInFlight = 2
SPECIFICATION Spec
INVARIANTS TypeOK Genuine NoRewriteOfSeen
PROPERTIES StoreSpec
CHECK_DEADLOCK FALSE
