# A TLA+ model of Cloud Carbon Footprint

This directory holds TLA+ specifications of the parts of Cloud Carbon Footprint
that keep state or talk to something that may answer late, out of order or not at
all; the TLC configurations that check them on small instances; and TLAPS proofs
about them. At the centre is the estimate cache: every answer of the product
passes through it, and it is where concurrent requests, failing providers, crashes
and the calendar meet. Around it are the queries that fill it, the loop that turns
a bill into estimates, the recommendations, the API's sessions and the client's
page loop.

Paths below are relative to the repository; `app/` stands for `packages/app/src/`
and a name of a provider for its `packages/<provider>/src/`.

## 1. The system and its parts

A footprint request arrives at the API server, the command line or the seeding
command. `CreateValidRequest` validates it, and `App.getCostAndEstimates` answers
it. That method is decorated with `cache()` (`app/Cache.ts`): the decorator asks
a cache manager which dates of the window are missing, calls the original method
once for every run of consecutive missing dates, stores what came back, and
answers with what the manager then returns. The original method asks the included
providers one after the other; each turns the rows of its bill into estimates. The
client asks the API for the result page by page, with a session that the API
checks, renews and shares with the user's record. `App.getRecommendations` goes to
the same providers, past the cache.

| Part | State it keeps | Operations | Interacts with | Hard behaviours | What makes it correct |
|---|---|---|---|---|---|
| `cache()` decorator, `app/Cache.ts` | none but the awaits of each request | missing dates, sub-requests in parallel, store, read back | one manager, the application | many requests at once, each between its awaits; a sub-request that rejects | answers are complete and genuine; nothing is stored that is cached already |
| Dates and merging, `app/common/helpers.ts` | none | periods of a window, missing and filled dates, merge of sorted lists, lines of a file | all managers | period boundaries, empty dates, doubles | merged lists are sorted and without doubles |
| MongoDB manager, `app/MongoDbCacheManager.ts` | a collection per tenant and grouping | aggregate, `insertMany`, list and create collections | the database | inserts that stop half-way, races of check and insert, paging, tenants, one provider seeded alone | see the decorator, and each tenant sees its own estimates |
| Local manager, `app/LocalCacheManager.ts` | two lists in memory, a JSON file per grouping | load in chunks, create, write over | the file system | requests share the lists; a crash, a stream that fails or another request in the middle of a write | the file stays readable, or the next request recovers |
| Google Cloud Storage manager, `app/GoogleCloudCacheManager.ts` | two lists in memory, an object per grouping | save, download, upload | the bucket | uploads nobody waits for | an upload never holds less than its request was answered on |
| Seeding, `packages/cli/src/SeedCacheFile` | the position of its loop | one request per window | the application | windows, periods and months of different length | the range is covered, each day fetched once, periods whole |
| Application, `app/App.ts` | none but its awaits | ask the providers in turn, for usage or for recommendations | the accounts | any of them may fail at any call | an answer is whole or there is none |
| Azure account, `azure/` | the rate limit, a slice and its tries per subscription | subscriptions in chunks, time slices, advisors | Azure's APIs | a limit that parallel subscriptions share, retries, errors that are swallowed | each usage detail is taken once; retries end |
| AWS account, `aws/` | Athena and CloudWatch queries in progress | start, poll, fetch the pages; two recommendation services | AWS | polling a query that ended otherwise, a limit on running queries, paging tokens | every page and query is read once; polling ends; the best of two recommendations is kept |
| GCP account, `gcp/` | the totals of a recommendation request | query, zones and recommenders of every project | BigQuery, Recommender | projects in parallel over shared totals | an address is estimated by all known savings |
| Alibaba account, `ali/` | the loop over months | one call per month | Alibaba's billing API | month arithmetic by the clock of the host | each month's bill is asked for once |
| Estimators, `packages/core/src` | totals of kilowatt-hours per unit and service | estimate, accumulate | the accounts | the totals outlive requests and are shared by them | totals miss and double no row; no cost is lost |
| Emissions factors, `packages/common/src` | the intensity of a zone and hour | fetch, cache | an HTTP API | parallel misses, a failure half-way through a bill | one intensity per zone and hour |
| API server, `packages/api/src` | sessions, users, tokens | sign in, connect a cloud, renew, sign out | database, cloud sign-in | a request that renews a token next to another one | one record per user; the session agrees with it |
| Web client, `packages/client/src` | what is shown, the page loops | page through, join | the API | loops next to each other, pages that repeat | a loop shows every estimate once |
| Command line, `packages/cli/src` | none | tables, lookup tables | the accounts | lookup tables share the estimators' totals | see the estimators |
| On-premise input, project generator, site | none | convert, generate | | | |

`PROJECT.json` lists each part with its status under `components`, and under
`hazards` what in this code is hard to test, at its line, with the properties that
would notice it.

## 2. The modules

| Module | Models |
|---|---|
| `MissingDates` | the pure date functions the modes share: requested dates, missing dates, sub-requests, filled dates |
| `EstimateStore` | the abstract specification: what any estimate cache promises its tenants |
| `MongoCache` | the decorator with `MongoDbCacheManager`; implements `EstimateStore` |
| `MongoCacheProofs` | theorems about `MongoCache` |
| `CacheFile` | `mergeEstimates`, `writeToFile` and `getCachedData`: the lists and lines of a cache file |
| `ListManager` | what the two file modes share: the decorator around a manager with `cachedEstimates` and `fetchedEstimates` |
| `LocalCache` | `ListManager` with the JSON files of `LocalCacheManager` |
| `GcsCache` | `ListManager` with the objects of `GoogleCloudCacheManager` |
| `Periods` | calendar days and the periods of a grouping, as the code computes them with moment; the months Alibaba is asked for |
| `SeedWindows` | the window loop of the seeding command over `Periods` |
| `AthenaQuery` | one query of AWS's cost and usage reports: polls, then pages |
| `LambdaQueries` | the CloudWatch log queries behind the estimates of Lambda functions |
| `AzureConsumption` | the subscriptions of an Azure account, their time slices, the rate limit |
| `AwsRecommendations`, `GcpRecommendations` | the two providers' recommendations |
| `Recommendations` | one call of `App.getRecommendations`: the two above, then Azure's advisors |
| `ProviderQueries` | one call of `App.getCostAndEstimates` over all providers' queries, or one for recommendations |
| `RowDispatch` | which estimator a row of a bill reaches at AWS, GCP and Azure, and what it adds to the totals |
| `RowEstimates` | the loop from rows to estimates, with the totals and the zone intensities all requests share |
| `Sessions` | the API's sign-in, session store, cloud tokens and user records |
| `FootprintPages` | the client's page loops and what the dashboard shows |
| `WebApp` | `FootprintPages` and `Sessions` together: every page is a request with the session |
| `ListManagerProofs` | lemmas about `CacheFile`'s and `ListManager`'s operators, and the invariant of the requests both file modes share |
| `LocalCacheProofs`, `GcsCacheProofs` | theorems about `LocalCache` and `GcsCache` |
| `SeedWindowsProofs` | theorems about `SeedWindows` over `Periods`, for every calendar |
| `ProviderQueriesProofs` | theorems about `ProviderQueries`: the queries of AWS and Azure, the recommendations, and the call that composes them |
| `WebAppProofs` | theorems about `WebApp`: the sessions, and the client's page loops |
| `RowEstimatesProofs` | theorems about `RowEstimates`: intensities, costs, totals and what a bill determines |
| `MC*` | instances for TLC: requests, usage, bills and calendars |

### How state and actions correspond to the code

A request is a process. An action is what the code does between two awaits, so
that the interleavings of the model are those of the event loop. `pc[r]` names
the await request `r` is at.

`MongoCache`: `Arrive` is the call of the decorated method; `GetMissingDates`
(`MongoDbCacheManager.ts` 166–250) reads the collection and computes the missing
dates; `FetchGroup` is one sub-request answering (`Cache.ts` 105–123), which also
decides, when it is the last one, whether there is anything to store; `InsertOne`
is one document of `insertMany` (134–158) reaching the collection, so that
another request may look between two of them; `ListCollections`, `Aggregate` and
`CreateCollection` are the three awaits of `loadEstimates` (59–99). `CheckFails`,
`FetchFails`, `InsertFails` and `ReadFails` are the `catch` blocks and rejections,
each allowed by a member of the constant `Faults`. `docs[t]` is a tenant's
collection; a document is the estimate of one source (an account of a provider)
on one date, made from one version of the usage. What a request names (dates,
accounts, the provider it seeds, `skip` and `limit`, `ignoreCache`) is a record;
the other filters behave like the accounts one and are left out.

`ListManager`, `LocalCache`: `cachedEstimates` and `fetchedEstimates` are the two
fields of the one manager object, shared by every request. `AccessFile`,
`CreateCacheFile`, `ReadChunk` and `ReadEnd` are `loadEstimates` and
`getCachedData`; they serve the look-up of missing dates and the second load
inside `setEstimates`. What fails there falls in three: `CreateFails` rejects the
request, `AccessFails` is caught and counts as an empty file
(`LocalCacheManager.ts` 88–103), and `ReadStreamFails` is caught by nobody, since
`pipe` does not pass errors on (`helpers.ts` 69): it ends the process as `Crash`
does. `OpenFile`, `WriteWindow` and `Close` are `fileHandle` and
`writeToFile`: the content is written over the old one from the start of the
file, a window of entries at a time, and never truncated. An entry occupies as
many cells of the file as the constant `SizeOf` says, so a shorter content leaves
a tail that may begin inside an entry, and `Parses` tells whether the lines are
still whole ones. `ProcessEnds` is what `Crash` and `ReadStreamFails` share: memory and
requests are lost, with any part of a window written.

`GcsCache`: `SetEstimates` starts an upload and answers at once, since none of
its awaits waits for the stream; `UploadEnds` and `UploadFails` come later, also
after other requests, or never. `AccessFails` is the `catch` of
`getCloudFileContent` (`GoogleCloudCacheManager.ts` 95–100), reached when the
bucket refuses to look for the object or to save it; the download's stream fails
as in the local mode.

`SeedWindows`: `SeedWindow` is a turn of the `while` loop (`seedCacheFile.ts`
86–108) with its request, `SeedAgain` a second run of the command. Days are
numbers; `Periods` gives months their lengths and weeks their two conventions
(`isoWeek` where periods start, `week` where a sub-request ends). `BillDates` is
`getDates` of Alibaba's service (`AliCostAndUsageService.ts` 163–171) and
`BilledMonth` the billing cycle (193): both go by the local time of the host, while
windows begin at midnight UTC, so the dates are moments, in minutes, and `zone` is
the host's time zone. `LocalTime` and `Moment` convert between the two, and
`SameDayNextMonth` is `setMonth` with its overflow. `BillsAfter` counts the bills the
windows ask for.

`ProviderQueries`: `stage` is the provider `getCostAndEstimates` is at; `Begin`
enters it, `StageEnds` leaves it when its outcome is there, and the first failure
ends the call. `AthenaQuery`: `CheckColumn`, `StartQuery`, `PollQuery` and
`GetResultSet` are the awaits of `getUsage` (`CostAndUsageReports.ts` 573–700 and
816–832), while `ExecutionMoves` is Athena's own progress, to any of its end
states. `LambdaQueries`: `CheckRunning` and `CheckAgain` are the loop that waits
for a free place (`Lambda.ts` 136–150), `PollResults` and `PollResultsAgain` the
loop that waits for a result until its time is up (158–182). `AzureConsumption`:
`QueryUsage` is a try of a slice (`ConsumptionManagement.ts` 328–374),
`NextUsageRow` and `PageRefused` the page loop (308–326), `SliceDone` its end with
the next slice (394–420), `Lose` the handler that answers `[]` for a subscription
(`AzureAccount.ts` 262–286). `remaining` is the tenant's limit: every query takes
of it, `RenewLimit` renews it, and nothing obliges it to.

`Recommendations` does the same for `getRecommendations`; `recStage` is its
provider. `GcpRecommendations` keeps the position of every project, and `recTotals`
is the `costAndCo2eTotals` they share (`gcp/lib/Recommendations.ts` 63–75, 201–204):
`EstimateRecommendation` is one of the promises of a project's `Promise.all`,
`EstimateAddress` a turn of the loop after it. `AwsRecommendations` reads the
exports of the Compute Optimizer object by object and the rightsizing pages, picks
a target (`TargetInstance`, `RightsizingRecommendations.ts` 176–193) and, when both
services are asked, one recommendation for a resource (`HighestSavings`).

`RowDispatch` has an operator per estimator, which tells the outcome of a row
(counted into the totals, estimated and not counted, zero, unknown, dropped), its
energy and the amount it counts with. `RowEstimates`: `EstimateRow` is a turn of
the loop over rows, `GetEmissionsFactors` and `IntensityArrives` the await inside
it (`EmissionsFactors.ts` 17–97), where requests interleave; `totals` and `zones`
live as long as the process. A process started for lookup tables (`command`) runs
the three providers' rows one after the other over the same totals.

`Sessions`: `stored` is the session under the browser's cookie; a handler works on
the copy it read when its request arrived and writes it back when it is answered,
if it changed, as `express-session` does. Each await on the identity service or
the database in `handleRedirect`, `handleRedirectToConnect`,
`acquireTokenForConsumptionMgmt` and `disconnectUser` is a step of its own, and the
record is read and saved whole. `FootprintPages`: each run of the effect of
`useRemoteFootprintService` is a loop; `PageAnswered` is one turn, with the joining
of days in place that makes lists share their objects; `Render` starts a new run
when what the effect depends on changes. `Pages` is what the API may answer a page
with: all there is without MongoDB, as only that cache pages; over MongoDB as many
documents as `$skip` and `$limit` leave (`MongoDbCacheManager.ts` 306–318), which count
them before `$sort` does (319): the next ones in the order the collection is read in
(`serves = "paged"`), or any choice of that many where that order varies
(`"shuffled"`). `WebApp` gives every page a handler, so
that a page may be refused, renew the token or come after a sign-out.

### Abstractions

- An estimate of the cache is its date, source and the version of the usage it was
  made from; the kilowatt-hours are left out. A provider bills a date in versions
  (`Publish`) as long as it is in `LateDates`.
- One grouping per collection in `MongoCache`: collections of different
  groupings share nothing. The file modes keep the grouping, because the manager's
  lists are shared across groupings.
- The line `[]` of a fresh file is left out: `getCachedData` turns it into an
  entry dated "now", which lies outside every window, as validation rejects end
  dates in the future.
- `createDbConnection` is awaited before requests are served, so the model starts
  connected.
- Cached estimates are never deleted by the code, nor here.
- A row's energy is given, not computed: the formulas are floating-point
  arithmetic over tables of instance types. Ratios of integers stand for the
  averages, so that order and grouping can be compared exactly.
- A time zone is how many minutes its clock is ahead of UTC, and on which days an hour
  more; clocks are put forward and back at midnight UTC.
- Moments of usage in `AzureConsumption` are three to a day: its first
  millisecond, one in between, its last. A usage detail lies within one day.
- Getting one's account (`/auth/account`) is one step in `WebApp`.

## 3. The runs

All configurations set `CHECK_DEADLOCK FALSE`: a behaviour serves a bounded number
of requests, after which the system rests.

| Run | Bounds | Shows |
|---|---|---|
| `mongo_concurrent` | 2 requests at once, 2 tenants, 1 source, 3 dates of which the second is still being billed (2 versions), requests of every shape (plain, ignoring, paged, filtered, another window), all five faults | `TypeOK`; `Genuine`: nothing is invented or crosses tenants; `NoRewriteOfSeen`: no request stores a date it had seen cached; `StoreSpec`: the module implements `EstimateStore` |
| `mongo_shared` | 3 requests, 2 at once, an AWS and an Azure source, 2 dates, every pattern of usage, plain requests and requests that seed AWS, failing fetches and inserts | `IncompleteOnlyIfTorn`: an answer lacks only what another request had stored in part, or what it could not store itself; `AnswerCoversSeen`: what the check saw, and what was stored, is in the answer; `SeedCovers`: seeding a provider stores all its dates, whatever other providers' estimates they held before, unless it saw that provider's own in part or could not store; `SeedAppendsOnlyMissing`: and nothing it had seen |
| `local` | 3 requests, 2 at once or one after the other, 3 dates of which the last may be billed late, four patterns of usage, requests of every shape, failing fetches, one end of the process, by a crash or a read stream, also in the middle of a write | `TypeOK`; `AloneComplete`: a request that runs by itself is answered completely, whatever overlapping requests or the end of the process left in the file; `FileSound`, `NothingForgotten`: without overlap, crash, failed accesses and failed writes the file is readable, sorted, without doubles, and holds all that requests were answered on |
| `local_settles` | 2 requests at once, every failure: a fetch, access to the file, its creation, the stream that reads it, opening and writing it, one end of the process | `EveryRequestSettles`: each is answered or rejected, or lost with its process |
| `gcs_shared` | 3 requests, 2 at once, 2 dates, every pattern of usage, every shape, failing fetches, calls the bucket refuses, uploads that end at any time or never, one end of the process, by a crash or a download stream | `TypeOK`; `AloneComplete`; `ObjectOnce`: as long as requests do not overlap no object holds a date twice; `UploadCoversAnswer` |
| `seed_windows` | two runs of the command over ranges between January 26 and March 7 in a calendar from December to July, days, weeks and months, in a single request or 1 or 2 periods per request, on a host in Greenwich (without summer time), Shanghai or New York (with it) | `TypeOK`; `NoDayTwice`; `DaysAndMonthsWhole`; `AlignedRangeCovered`; `MonthsBilledOnce`: on a host steadily ahead of UTC seeding by months asks for no bill of Alibaba's twice and skips none |
| `row_estimates` | 2 requests, side by side or one after the other, bills of up to 2 rows of 5 AWS, 4 GCP or 4 Azure rows in any order, one zone with two intensities over time, also lookup tables over all three providers | `TypeOK`; `CostConserved`; `TotalsAddUp`: a total is the sum over the rows that were passed; `FirstAnswerByBill`: the first answer does not depend on the order of rows; `RepeatedAnswerSame`; `OneIntensity` |
| `provider_queries` | a call for usage at AWS, at GCP and Azure or at all four providers: 3 result pages, 2 log groups of 2 intervals with one query at a time, 2 subscriptions over 3 days in slices of one, a limit of one query, one retry, 2 months; or a call for recommendations: 3 exports, 2 pages, 2 projects of 2 zones with an address, 2 subscriptions; every failure | `TypeOK`; `PagesOnce`; `EveryLogQueryRead`; `UsageTakenOnce`; `AnsweredInFull`; `SavingsByKnown`: an address is estimated with all known savings of its project, however projects overtake each other; `CallEnds` |
| `web_app` | 2 page loops and 2 requests of the user at once, 3 started in all, 3 stored estimates of 2 days out of order, 2 to a page, a cache that pages in one order or does not page, 2 tokens, one failing call | `TypeOK`; `LoadedWhole`: a loop that starts afresh ends with every estimate once; `FewRequests`; `OneRecord`; `SessionAgrees`: between requests the session has the token and the connection of the record |

Three more runs expect a violation; see below.

Why the bounds are enough for these questions: two requests at once make every
race of check, insert and read-back, and the third comes afterwards and meets
what they left, which is where an incomplete cache shows. Three dates give
windows that overlap, contain each other and leave a hole, so that one request
has two sub-requests. Two sources are needed for a date to be stored in part, and
two tenants for crossing. One cell is the short and two the long size of an entry:
with three dates a tail can begin at, before and inside an entry. The short
February lies inside the seeded ranges with a month before and after it, and every
weekday occurs. The zones are one at, one ahead of and one behind UTC. Three result
pages have a first, a middle and a last; three slices likewise, and a limit of one
query makes two subscriptions refuse each other. Two rows of a bill are one known
and one unknown in either order, or two known ones with different averages; two
requests make one meet the totals of the other. Two projects are enough for one to
reach its address before the other has estimated anything. Two loops are one that
runs while another starts.

A cache whose pages are cut in any order (`"shuffled"`) and one whose API asks afresh
(`"fresh"`) are not in `web_app`, where the pages of the first multiply with the
sessions. The theorems `FewRequestsHolds` and `TypeCorrect` hold for every kind of
cache; `FewRequests` can also be model-checked with `Caches = {"shuffled", "whole"}`
and smaller sessions: `Handlers = {1, 2, 101}`, `MaxTokens = 1`, `MaxArrivals = 1`,
`MaxFailures = 0`.

Counters are bounded by `MaxVersion`, `MaxInFlight`, `MaxCrashes`, `MaxSeedings`,
`MaxRows`, `MaxPolls`, `MaxLoops`, `MaxTokens`, `MaxArrivals`, `MaxStarts` and
`MaxFailures`, which appear in the guards; `MaxRetries`, `MaxConcurrent`,
`RateLimit`, `PageLimit`, `SubscriptionChunk` and `ConsumptionDays` are the code's
own limits with small values (`MaxPolls` stands for the timeout of a log query).
Where a configuration names `SYMMETRY`, it checks safety only and the requests are
interchangeable.

**Fairness.** `FairSpec` of `LocalCache` is weak fairness of each request's
step: every await of a request is on the file system or a provider client, which
answers or rejects, and the event loop then runs the continuation. Nothing is
assumed of arrivals, crashes, failing streams or revised usage, or of the order of
the steps.
`Spec` of `ProviderQueries` assumes the same of the calls to the providers: a call
is answered, a timer runs out, a query that Athena or CloudWatch runs ends some
day. It assumes nothing of `RenewLimit`: `CallEnds` holds although the limit is
never renewed, because the tries are counted. For Google's recommenders it does
assume that a quota is not exceeded for ever, since their retries are not counted
(`gcp/lib/ServiceWrapper.ts` 132–153); a refused query is a stuttering step.

### Where the code and its documentation disagree

Three runs expect a violation; each checks what the repository says of itself.

- `mongo_empty_dates`: `fillDates` adds an estimate without services for every
  empty date, so that "caches dates with empty estimates" holds
  (`Cache.test.ts` 286), but `MongoDbCacheManager.setEstimates` stores one
  document per *service*. Empty dates leave no document and are fetched again by
  every request.
- `local_repeat`: `LocalCacheManager.getEstimates` joins the cached estimates with
  `fetchedEstimates`, which keeps the last list stored. Asking for the same window
  twice in one process answers every date twice.
- `client_twice`: the page loop of `FootprintServiceHook.ts` starts from
  `[...data]`, what is shown. Back on the dashboard after a loop that ended
  elsewhere, or after a logout that did not get through, all pages are fetched
  again and appended to it; only the last one is recognised. The hook's test says
  it "should avoid concatenating responses with duplicate results" (302).

Met while modelling, described here and kept out of what the properties claim. The
first four can be seen with a change to a configuration:

- Weeks begin on Monday (`helpers.ts` 150) and the window of a sub-request ends on
  Saturday (`Cache.ts` 157), so the last week of a window is cached without its
  Sunday: add `INVARIANT PeriodsWhole` to `seed_windows` with `Groupings =
  {"week"}`. `DaysAndMonthsWhole` leaves weeks out.
- A file that is written over with less than it held keeps the tail of an old line
  and does not parse any more: `FileSound` in `local` with `MaxVersion = 2`,
  `MaxDate = 2`, `ReadSize = 4`, `WindowSize = 2`, `LateDates = {1}` and two requests.
- `ClassifyingUsageTypes.md` (46) says that unknown usage is estimated by the
  average of its service where there is one. None of the four callers passes a
  service to `UnknownEstimator` (`CostAndUsageReports.ts` 390,
  `BillingExportTable.ts` 621, `ConsumptionManagement.ts` 981,
  `AliCostAndUsageService.ts` 481), so it is always the average of the unit:
  `EstimatedByService` in `row_estimates`.
- An Athena query that is cancelled is polled for ever: the condition
  `State === ('FAILED' || 'CANCELLED')` compares with the first only
  (`CostAndUsageReports.ts` 688). `CallEnds` excepts it; without the exception it is
  violated.
- The client's loop ends when the last service estimate of a page equals the last
  one it has (`FootprintServiceHook.ts` 162): two pages that happen to end alike
  lose the rest. `LoadedWhole` speaks of estimates that differ.
- A cache file or object that can be opened but not read ends the process, although
  `loadEstimates` means to ignore such a cache and fetch fresh estimates
  (`LocalCacheManager.ts` 99–103) and `getCloudFileContent` to log the error: `pipe` does
  not pass the error of the stream on (`helpers.ts` 69), `getCachedData` listens to
  the other stream only, and nothing handles uncaught exceptions.
- A file that cannot be accessed for a moment while a request stores is taken for an
  empty one: what is stored is written over the other dates without being merged with
  them. `FileSound` and `NothingForgotten` leave failing accesses out.
- Pages are cut with `$skip` and `$limit` before `$sort`
  (`MongoDbCacheManager.ts` 306–324), and MongoDB promises no order there. If it reads
  the collection in another order for the next page, pages repeat and miss estimates:
  `LoadedWhole` with `Caches = {"shuffled"}`, without its first hypothesis, is
  violated. The property, and the theorem about it, assume that every request reads
  the collection in the same order.
- Alibaba's months are stepped through and named by the host's clock
  (`AliCostAndUsageService.ts` 165–169, 193), from a window that begins at midnight UTC. On a host
  behind UTC that is the evening of the day before: for the window of March the bills
  of February and March are asked for, for that of April only March's. With summer time
  ahead of UTC the last step of a March window may fall back to its last hour and ask
  for April's bill. `MonthsBilledOnce` speaks of hosts that are at or ahead of UTC and
  change no clocks (`SteadilyAhead`); on the others it is violated.
- A request that names accounts passes them on to Azure, and its dates are then
  cached without the other subscriptions (`App.ts` 127); the documentation says
  such a request "will not return filtered data" at first.
- Seeding compares the provider as it was typed with the upper-case one of the
  documents (`MongoDbCacheManager.ts` 211): typed as the prompt shows it
  (`[aws|gcp|azure]`), nothing counts as cached and all is stored again.
  `SeedAppendsOnlyMissing` speaks of requests that spell it in upper case; the run
  has the others too, and `SeedCovers` holds for them. Nor does it speak of sources
  whose provider cannot be switched off (next item).
- `includeCloudProviders` does not switch Alibaba, so seeding another provider
  stores Alibaba's estimates again; and by days or weeks the whole bill of a month
  is asked for in every window. `MonthsBilledOnce` speaks of months.
- In the file modes two requests at once answer from each other's lists, and one
  may write its days into the file of another's months, where later requests
  take them for their own. `AloneComplete` is what is left of completeness then, as
  long as the requests that overlapped asked for one grouping (`OneGroupingOverlapped`).
- A request with `ignoreCache` still reads the file, and lacks the dates cached
  there; such requests are in the runs and `AloneComplete` leaves them out.
- An upload of the Google Cloud Storage mode replaces the object by the entries
  of one window, so the dates of other windows are forgotten.
- From January 31 to March 1, a single request for months ends on February 28 and
  March is never asked for; `AlignedRangeCovered` speaks of ranges that begin with
  a period.
- Unknown usage is estimated with the totals of the whole process: the second
  answer for another bill depends on the first. `FirstAnswerByBill` and
  `RepeatedAnswerSame` say what is left.
- A token renewed by one request and a disconnect by another write each other's
  user record back (`user.service.ts` 83–105), and two first sign-ins at once make
  two records (`auth.provider.ts` 220–242); `SessionAgrees` and `OneRecord` speak
  of requests that do not overlap.
- Recommendations: without billing data every configured project lists those of
  all projects (`GCPAccount.ts` 137–162), so each appears once per project; for a
  resource with three recommendations only the first two are compared
  (`aws/lib/Recommendations/Recommendations.ts` 114–128); the last target instance
  is taken off the list before the best one is sought, and comes back only alone
  (`RightsizingRecommendations.ts` 176–193); one listing of the bucket is read, its
  first page (`ServiceWrapper.ts` 168–172); and the highest savings of both services
  are not the default, as `Recommendations.md` (31) says, but Rightsizing alone.

## 4. The proofs

Each module of proofs assumes of the constants what its component's modules state
in their ASSUMEs, and nothing else unless a theorem says so itself; TLC evaluates
them in every run.

### The MongoDB mode

`MongoCacheProofs` proves, for any number of requests, tenants, sources, dates and
versions, any set of requests and any faults:

| Theorem | States |
|---|---|
| `TypeCorrect` | `Spec => []TypeOK` |
| `GenuineHolds` | `Spec => []Genuine` |
| `NoRewriteOfSeenHolds` | `Spec => []NoRewriteOfSeen` |
| `Refinement` | `Spec => StoreSpec`, that is, `MongoCache` implements `EstimateStore` under the mapping that forgets who stored a document and publishes an answer when its request is done |
| `AnswerCoversSeenHolds` | `Spec => []AnswerCoversSeen` |
| `SeedAppendsOnlyMissingHolds` | `Spec => []SeedAppendsOnlyMissing` |
| `IncompleteOnlyIfTornHolds` | `Spec => []IncompleteOnlyIfTorn`, when `Settled`, `AllAccounts` and reading does not fail |
| `SeedCoversHolds` | `Spec => []SeedCovers`, when `Settled` and `AllAccounts` |

The assumption is `MongoCacheAssumption`: constants are typed, and the dates of a
request lie in the calendar.

Neither `Genuine` nor `NoRewriteOfSeen` is inductive. The invariant is

    IInv == Genuine /\ FreshInv /\ OwnInv /\ MissingInv /\ NoRewriteOfSeen

`FreshInv`: before its check a request has left no trace, so that setting
`known[r]` in the check cannot falsify what was said of its documents. `OwnInv`:
what a request has fetched and has yet to store is its own, of dates it found
missing, and a request that ignores the cache stores nothing. `MissingInv`: the
missing dates were not cached when the request checked; the clause about storing
requests is what keeps the ignoring ones, whose missing dates are the whole
window, out of it. With these, the document an insert adds has a date outside
what its request knew, which is `NoRewriteOfSeen`. `Refinement` adds that there
is no answer before a request is done (`UnansweredInv`), so a failed read answers
with no facts; each action then maps to one step of `EstimateStore` or to a
stutter.

The theorems about coverage build on it:

    CoverInv == CollectionsInv /\ KnownStoredInv /\ NoCollectionInv /\ CoveredInv

`CollectionsInv`: a collection that has documents exists, and they are finitely
many, so that an answer that was unpaged by the size of the collection is so at
every earlier size. `KnownStoredInv`: what a request knew is still in its tenant's
collection. `NoCollectionInv`: a request that finds no collection when it reads
knew of no document and has stored none, so its empty answer leaves nothing out.
`CoveredInv` is the property over what the request has stored itself. For
`SeedAppendsOnlyMissing`, `ScopeInv` says that a request fetches and stores only the
sources of its `FetchScope`; with it, a source of a switchable provider stored by a
seeding request is of the provider it seeds, its dates count as cached, and
`NoRewriteOfSeen` does the rest.

The last two theorems say that an answer is complete, up to what the property
excepts. Their conditions are those of the run that checks them, for every value of
the other constants. `Settled`: no date is still being billed, the check does not
fail and no subscription is dropped from a fetch; `AllAccounts`: requests select all
sources the accounts parameter can select. Without either, a date may be cached
without some source for good (section 3). The invariant is

    WholeInv == FetchedInv /\ MissingExactInv /\ StoredInv

`FetchedInv`: of the missing dates whose sub-request has answered, every used source
in scope was fetched. `MissingExactInv`: a request found missing exactly what was
not cached. `StoredInv`: what is stored was fetched, in whole, by a request that is
past its fetch - which is what ties a date that is cached in part to the request that
tore it.

### The file modes

`ListManagerProofs` holds what both modes rest on: what `Listing`, `Kept`, `ByDate`
and `FillDates` return, and

    ManagerInv == ManagerTypeOK /\ ... /\ \A r \in Requests : pc[r] = "fetch" => Consistent(r)

that requests in progress together have overlapped, and that what a request has
fetched so far is one entry for each date, with usage, of the sub-requests answered.
For any number of requests, groupings and dates, any length of periods, sizes of
entries, windows and reads, and any faults:

| Theorem | States |
|---|---|
| `LocalCacheProofs`: `TypeCorrect` | `Spec => []TypeOK` |
| `LocalCacheProofs`: `AloneCompleteHolds` | `Spec => []AloneComplete` |
| `LocalCacheProofs`: `FileSoundHolds` | `Spec => [](ContentsGrow => FileSound)` |
| `LocalCacheProofs`: `NothingForgottenHolds` | `Spec => [](ContentsGrow => NothingForgotten)` |
| `GcsCacheProofs`: `TypeCorrect` | `Spec => []TypeOK` |
| `GcsCacheProofs`: `UploadCoversAnswerHolds` | `Spec => []UploadCoversAnswer` |
| `GcsCacheProofs`: `ObjectOnceHolds` | `Spec => []ObjectOnce` |
| `GcsCacheProofs`: `AloneCompleteHolds` | `Spec => []AloneComplete` |

`AloneComplete` in the local mode has to hold over a file that may be torn at any
cell. Its invariant is

    EntriesInv == FilesInv /\ (\A r \in Requests : Holds(r)) /\ CoveredInv /\ AloneComplete

`FilesInv` and `Holds` say nothing of the order or the wholeness of the cells in a
file, a buffer or a list on its way to it, only that every cell is of a `Proper`
entry: of the file's grouping and, on a closed date, made from the usage billed. That
much survives overwriting at any place (`OverlayElements`), a process that ends, and a hole.
`CachedData` of such cells, if they parse at all, are proper entries
(`CachedElements`), and if they do not, all dates are missing. `CoveredInv`: a
request by itself finds in `cachedEstimates` each date of its window that it does not
fetch, and while it stores has all dates with usage in the manager's two lists, which
no other request touches in the meantime. `IoReady` makes the steps typed (a file
that is read or written exists). `mergeEstimates` is a loop in the model as it is in
the code; `MergeInv` is its loop invariant, from which `MergeElements` concludes that
the merged list has entries of either list only.

`FileSound` and `NothingForgotten` are about where the cells are. A file is written
over from its start and never truncated, so they need that an estimate made from
later usage is not shorter than the one it replaces:

    ContentsGrow == \A v, w \in Versions : v <= w => SizeOf[v] <= SizeOf[w]

The contents of `local` satisfy it, with a third one that does not (§3 has what
happens when it counts). Under it, the invariant

    OrderlyInv == Quiet => \E content \in [Groupings -> Seq(Entry)] : Holding(content)

names a list for each grouping, in order, of entries no later than the usage there
is, that the file holds or will hold when the write under way is over (`Quiet`:
contents grow, nothing has overlapped, no end of the process, no failed access or
write). `Written` gives the place of every cell in between: the list is what is
`done` and what is still to be written, the file the cells of `done` and then a part
of its old content no longer than the cells to come. `Progress` follows a request up
to that point: the buffer is a beginning of the file, and what it stores
`Supersedes` the list, since sub-requests answer with the latest usage. From this
`Outsizes` follows, and so that the new list needs as much room as the old one
(`SortedFits`): at the end nothing of it is left. A file read back gives the very
list it was written from (`CellsReadBack`, an induction over lists that follows
`FlattenSeq` and the positions of the first cells). `Recalls` and `FetchedKept` are
for `NothingForgotten`: every entry of the manager's two lists, from which answers
are made, has its date in the file of its grouping, or is about to.

In the Google Cloud Storage mode, `UploadInv` says that an upload under way belongs to
an answered request and holds its whole answer. `EntriesInv` is `GenuineInv`,
`FiledInv` and `CoveredInv`, which play the parts above over objects and uploads that
may end in any order, and `OnceInv`: while nothing has overlapped, objects, uploads
and the list found have entries of different dates, none of which is also missing.

### Seeding

`SeedWindowsProofs` proves, for every calendar (any finite set of first days of
months), any weekday it begins on, any ranges and any way to split them:

| Theorem | States |
|---|---|
| `TypeCorrect` | `Spec => []TypeOK` |
| `NoDayTwiceHolds` | `Spec => []NoDayTwice` |
| `DaysAndMonthsWholeHolds` | `Spec => []DaysAndMonthsWhole` |
| `AlignedRangeCoveredHolds` | `Spec => []AlignedRangeCovered` |
| `MonthsBilledOnceHolds` | `Spec => []MonthsBilledOnce` |

`SeedWindowsAssumption` types the constants; `CalendarAssumption` says that the
calendar begins a month before the ranges and has more months behind them than a
window or a range has, since the model's calendar ends and the real one does not. The
lemmas are about the calendar functions: a day lies in one period, a period begins
with its own start, the windows fetched for a set of missing periods are within the
days of these periods, whole for days and months (`FetchedOf`), and adding `n` periods
to the first day of one gives the first day of another with `n - 1` in between.
`RangeInv` keeps the loop inside the calendar; `CoveredInv` is the loop invariant: from
an aligned start, the next window begins with a period, and all days before it belong
to cached ones.

`MonthsBilledOnceHolds` needs what `getDates` of `AliCostAndUsageService.ts` steps
through on a host that is steadily ahead of UTC, by less than a day. There the first
day of a month begins, by UTC, at the same time of the same day by the host's clock, and so
does the next month (`MonthLaterOf`): no month is so short that a step overflows, and the
conversions cancel since the clock is never changed (`TimeOfDay`). So the dates are the
first days of the months in the window, and the months billed are these (`BillDatesOf`).
The windows of one request do not overlap (`WindowsApart`), so each missing month is asked
for in one of them (`MonthsAsked`), and a cached month is not missing again.

Facts about finite sets and loops of any length (`GreatestExists`, `MergeInv`, the
count of months) are proved by induction over sets of natural numbers: a lemma from
the library's theorem that `<` is well founded (`LeastNumber`, `NatSetInduction`).

### Queries, sessions and intensities

`ProviderQueriesProofs` proves six properties of `ProviderQueries`, from an
invariant of each component; the steps of the other components leave its
variables alone:

| Theorem | States, for any numbers |
|---|---|
| `PagesOnceHolds` | `Spec => []PagesOnce`, of result pages |
| `EveryLogQueryReadHolds` | `Spec => []EveryLogQueryRead`, of log groups, intervals, polls and queries that may run |
| `UsageTakenOnceHolds` | `Spec => []UsageTakenOnce`, of subscriptions, days in the range and in a slice, retries and requests the limit admits |
| `SavingsByKnownHolds` | `Spec => []SavingsByKnown`, of projects, zones, recommenders and recommendations |
| `AnsweredInFullHolds` | `Spec => []AnsweredInFull`, of all these and of the objects and pages of AWS's recommendations |
| `TypeCorrect` | `Spec => []TypeOK` |

- `PagesInv`: the pages read are the first ones in order, and none before the query
  has succeeded; the token found in the responses so far is that of the next page.
- `LambdaInv` follows a log group's tasks: every query of the groups before was
  started (while starting) or read (while polling), and a task that is ready has
  read its own. The property speaks of the end only.
- `AzureInv`: a subscription that asks for the slice at `sliceStart` has taken
  exactly the usage that ends before it. The step needs that no usage straddles the
  millisecond between two slices, and that the last slice reaches the end. Both come
  from `UsageByDay`: the cache asks for ranges from the begin of a day to the end of
  one (`Cache.ts`), Azure bills usage by the day, and a slice is a whole number of
  days. It is an assumption on the constants, not on the behaviour.

- `AwsInv` says which part of the collected recommendations `awsRecs` is: the objects
  read so far, then all of them and the pages so far. `UpTo` is a prefix of a
  sequence of lists, flattened, and the lemmas about it say what one list more adds.
- `GcpInv`: what a project that has gone on to its addresses knew is in `gcpSavings`
  (`ProjectsInv`), and the shared totals are the sums over all known recommendations
  there are (`SavingsInv`), some of which may be negative, as for a move to a larger
  machine type (`gcp/lib/Recommendations.ts` 288–291). Each address was estimated at
  a moment at which this held, so the set the property asks for is the known ones of
  that moment. The sums are `SumFunction`, and the lemmas say what an element more
  adds.
- `AllInv` puts the parts together with the invariant of the call: a stage that was
  passed has its provider done (`PassedInv` for usage, `AdvisedInv` for
  recommendations), which is `AnsweredInFull` when the last stage is passed.

`AthenaQueryAssumption`, `LambdaQueriesAssumption`, `AzureConsumptionAssumption`,
`AwsRecommendationsAssumption`, `GcpRecommendationsAssumption` and
`ProviderQueriesAssumption` type the other constants; AWS answers a call with one page
at least.

`WebAppProofs` proves, for any number of handlers, page loops, tokens, arrivals and
failures:

| Theorem | States |
|---|---|
| `SessionAgreesHolds` | `Spec => []SessionAgrees` |
| `OneRecordHolds` | `Spec => []OneRecord` |
| `LoadedWholeHolds` | `Spec => []LoadedWhole` |
| `FewRequestsHolds` | `Spec => []FewRequests` |
| `TypeCorrect` | `Spec => []TypeOK` |

`SessionAgrees` compares the stored session with the user's record between
requests, so its invariant has to say what a request carries in the meantime:

    SessionsInv == SessionsTyped /\ FoundInv /\ AloneInv /\ AgreeInv

`SessionsTyped` gives a record its three shapes. `FoundInv` holds whatever overlaps
and fails: who stores a record has one. `AloneInv`: while no two requests have
overlapped, one at most is under way, so a record that was read is still what is
stored. `AgreeInv` holds while in addition no call has failed (`Quiet`); for each
phase it says how the request's copy of the session relates to the record it
carries or has stored: equal to the stored session before anything changed, ahead of
the record while a connection or a renewal is about to be stored, cut off while
the user is disconnected. Two lemmas (`ContinueKeeps`, `AnswerKeeps`) reduce each
action to what its own request carries next.

The last three are about the pages, for any stored estimates, size of a page and cache:

    PagesInv == PagesTyped /\ ListsInv /\ WholeInv /\ SkipsInv /\ LoadedInv

The lists of loops are sequences of objects that are shared and changed in place, so the
invariant has to say who owns them: `ListsInv`, the objects of a list were made by its
own loop or by loops that are over. `SkipsInv` says how far a loop that still asks can
be; it asks of a page only how many estimates it has, so it holds for any choice of
them. Over a cache that does not page it needs `WholeInv`: whatever a loop started from
ends with the last day in whole, so the second answer equals it and ends the loop.
`LoadedInv` is the loop invariant behind `LoadedWhole`: while no two estimates are
equal, every loop has started from nothing and the cache is read in one order
(`FromNothing`), the list of a loop that asks holds
exactly the estimates below its `skip`, each once and under its day. A page adds
the next ones: the old ones of a day first, since the object of a day that is known
is extended and only a new day gets an object. The lemmas say what `Chosen`,
`FlattenSeq` and a page's orders hold, whatever the length.

The assumptions are `HandlersAssumption`, that each page loop has a handler, and
`PagesAssumption`, that what is stored is a sequence of estimates with days.

`RowEstimatesProofs` proves, for any requests, providers, bills, zones and intensities:

| Theorem | States |
|---|---|
| `OneIntensityHolds` | `Spec => []OneIntensity` |
| `CostConservedHolds` | `Spec => []CostConserved` |
| `TotalsAddUpHolds` | `Spec => []TotalsAddUp` |
| `FirstAnswerByBillHolds` | `Spec => []FirstAnswerByBill` |
| `FirstAnswerAnyOrderHolds` | `Spec => []FirstAnswerAnyOrder`, defined beside the proof |
| `RepeatedAnswerSameHolds` | `Spec => []RepeatedAnswerSame` |
| `TypeCorrect` | `Spec => []TypeOK` |

- `IntensityInv`: while requests have not overlapped only one runs, a zone and day it
  fetches is not in the store yet, and every live factor that was used is the one in
  store; then a store can only add a zone and day, never replace one.
- `CostInv`: what a request has estimated and put aside costs what its rows so far
  cost, without those that are dropped; and it has no result as long as no row was
  estimated, which is when the rows put aside are lost with their cost. When they are estimated in the end,
  each adds its own cost (`AsideTurns`, an induction over the `FoldLeft` that does it).
- `TotalsInv`: what the rows counted for a unit used and cost (the rows of all requests
  before their `next`, whoever is running) is the unit's total, and the sum over its
  services. Requests share the totals, but each row is counted in a step of its own.

`FirstAnswerByBill` and `RepeatedAnswerSame` compare whole answers, which are sums of
fractions in the order the rows had. Both follow from

    BillInv == OrderInv /\ EnergyInv /\ CountedInv /\ BalanceInv /\ AnswerInv

- `OrderInv`: who began is in the history, and the first request, as long as it is
  alone and runs, is the only one.
- `EnergyInv`: what a request has so far is the known energy of its rows before `next`, by
  key, and the rows put aside are exactly the unknown ones among them, each once.
- `CountedInv`: a row that was counted has left an entry of its unit.
- `BalanceInv`: while all requests so far asked for one bill, one at a time and none
  failed (`Clean`), the totals of a provider are a whole number of times those of the bill,
  plus those of the rows that the running request has passed (`Weighs`). This is what
  makes the averages independent of how often the bill was asked for: at the last
  row a total is `m + 1` times the bill's, and the factor cancels (`TimesBillIsFair`).
  A request that failed half way would break it, which is why `RepeatedAnswerSame`
  excludes it.
- `AnswerInv`: the answer of the first request, and all answers while `Clean` holds, are
  those the bill determines (`ByBill`): it has the keys of the rows that are not dropped,
  if one of them is estimated, and for each the energy `ReferenceKwh` gives.

The order of the rows disappears in `FractionsAnyOrder`: a sum of fractions over a finite
set is the same fraction whichever is taken first, also when denominators are 0 (the
program's `NaN`). It is an induction over the size of the set; what makes it work is
that adding fractions respects `SameFraction` and that two of them swap (`PlusSwaps`).
`FirstAnswerAnyOrder` says the same of whole answers. `ReferenceKwh` reads the bill as a
sequence, so that it ignores the order is itself a claim: if a function `h` renames the
rows of one bill as those of another (`Reordered`), it renames the rows that count, are
known and are put aside (`CountedRenamed`, `KnownRenamed`, `AsideRenamed`), and a sum
does not depend on the names of its members (`SumRenamed`, `FractionsRenamed`).

The assumption is `RowEstimatesAssumption`: bills hold rows, and the names of no
zone and of the published factor are not those of real ones.

Facts about sums over sets, flattened sequences and induction over numbers that several of these
need stand as lemmas in each module that needs them: the proofs of one component
do not depend on another's.

### Only model-checked

Every invariant and every action property of the passing runs is a theorem, some of them
under the hypotheses named beside them. Liveness
(`EveryRequestSettles`, `CallEnds`) is out of the proof system's reach and stays with
TLC. So does what the three runs that expect a violation show, by their counterexamples.

## 5. What is not modelled

Not modelled for good: the arithmetic of the estimates (floating point over tables
of constants), the SQL and the columns of rows in the provider packages, rendering,
configuration, prompts, on-premise input (a mapping of rows), tables on the command
line, the project generator, the infrastructure and the site. Of the API, the
routes that read and change the user's profile and that manage users. Of AWS
without billing data, the services other than Lambda, each of which is one
paginated call; of GCP without it, Cloud Monitoring. Quarters and years are left
out of seeding: moment counts them as three and twelve months, so they meet the
cases months meet, over a calendar several times as long.

Composition that is left out: the cache and the providers' queries are separate
instances, since their product is out of TLC's reach. They meet in the outcomes of
a fetch: it fails (`stage = "rejected"` there, `FetchFails` here), answers, or
answers without some subscriptions (`lost` there, the fault `drop` here).
