------------------------------ MODULE LambdaQueries ------------------------------
(***************************************************************************)
(* The CloudWatch Logs queries behind the estimates of one region's        *)
(* Lambda functions (packages/aws/src/lib/Lambda.ts). Log groups are taken *)
(* twenty at a time; for each twenty, a query is started for every sixty   *)
(* days of the request, all at once. When every query is started, the      *)
(* results are polled, again twenty log groups at a time.                  *)
(***************************************************************************)
EXTENDS Naturals, FiniteSets

CONSTANTS
    LogGroups,       \* how many twenties of log groups there are
    Intervals,       \* how many sixties of days
    MaxConcurrent,   \* MAX_CONCURRENT_LOG_QUERIES
    MaxPolls         \* the polls of a query that fit into TIMEOUT

ASSUME LambdaQueriesAssumption ==
    /\ LogGroups \in Nat /\ Intervals \in Nat \ {0}
    /\ MaxConcurrent \in Nat \ {0} /\ MaxPolls \in Nat

VARIABLES
    lambdaPc,   \* where getEstimates is
    logGroup,   \* the twenty log groups it is at
    task,       \* task[i]: where the query of interval i is: runQuery, then getResults
    polls,      \* polls[i]: how often it was polled
    logQuery,   \* logQuery[<<g, i>>]: the state of a query at CloudWatch
    logResults  \* the queries whose results were taken, with the state they were in

lambdaVars == <<lambdaPc, logGroup, task, polls, logQuery, logResults>>

Parts == 1 .. Intervals
Queries == (1 .. LogGroups) \X Parts
QueryStates == {"none", "Scheduled", "Running", "Complete", "Failed"}

LambdaTypeOK ==
    /\ lambdaPc \in {"idle", "groups", "starting", "polling", "done", "failed"}
    /\ logGroup \in 0 .. LogGroups
    /\ task \in [Parts -> {"off", "check", "wait", "start", "poll", "sleep", "ready"}]
    /\ polls \in [Parts -> 0 .. MaxPolls]
    /\ logQuery \in [Queries -> QueryStates]
    /\ logResults \subseteq Queries \X QueryStates

LambdaInit ==
    /\ lambdaPc = "idle" /\ logGroup = 0
    /\ task = [i \in Parts |-> "off"] /\ polls = [i \in Parts |-> 0]
    /\ logQuery = [q \in Queries |-> "none"] /\ logResults = {}

LambdaBegin ==
    /\ lambdaPc = "idle" /\ lambdaPc' = "groups"
    /\ UNCHANGED <<logGroup, task, polls, logQuery, logResults>>

\* All tasks of the next twenty log groups begin at once.
Enter(pc, g, first) ==
    /\ lambdaPc' = pc
    /\ logGroup' = g
    /\ task' = [i \in Parts |-> first]
    /\ polls' = [i \in Parts |-> 0]

DescribeLogGroups ==
    /\ lambdaPc = "groups"
    /\ IF LogGroups = 0 THEN lambdaPc' = "done" /\ UNCHANGED <<logGroup, task, polls>>
                        ELSE Enter("starting", 1, "check")
    /\ UNCHANGED <<logQuery, logResults>>

TaskMoves(i, from, to) ==
    /\ task[i] = from
    /\ task' = [task EXCEPT ![i] = to]

\* describeQueries counts the queries that run; those still scheduled are not among them.
CheckRunning(i) ==
    /\ TaskMoves(i, "check", IF Cardinality({q \in Queries : logQuery[q] = "Running"}) < MaxConcurrent
                             THEN "start" ELSE "wait")
    /\ UNCHANGED <<lambdaPc, logGroup, polls, logQuery, logResults>>

CheckAgain(i) ==
    /\ TaskMoves(i, "wait", "check")
    /\ UNCHANGED <<lambdaPc, logGroup, polls, logQuery, logResults>>

StartLogQuery(i) ==
    /\ TaskMoves(i, "start", "ready")
    /\ logQuery' = [logQuery EXCEPT ![<<logGroup, i>>] = "Scheduled"]
    /\ UNCHANGED <<lambdaPc, logGroup, polls, logResults>>

\* Mutant: only a running query is not over.
NotOverRunning(state) == state = "Running"

NotOver(state) == state \in {"Running", "Scheduled"}

\* A query that is over is taken, whatever its end; one that is not may time the request out.
PollResults(i) ==
    LET state == logQuery[<<logGroup, i>>] IN
    /\ task[i] = "poll"
    /\ IF ~NotOver(state)
       THEN TaskMoves(i, "poll", "ready") /\ UNCHANGED lambdaPc
       ELSE IF polls[i] < MaxPolls
       THEN TaskMoves(i, "poll", "sleep") /\ UNCHANGED lambdaPc
       ELSE TaskMoves(i, "poll", "off") /\ lambdaPc' = "failed"
    /\ logResults' = IF NotOver(state) THEN logResults
                     ELSE logResults \cup {<< <<logGroup, i>>, state>>}
    /\ UNCHANGED <<logGroup, polls, logQuery>>

PollResultsAgain(i) ==
    /\ TaskMoves(i, "sleep", "poll")
    /\ polls' = [polls EXCEPT ![i] = @ + 1]
    /\ UNCHANGED <<lambdaPc, logGroup, logQuery, logResults>>

AllReady == \A i \in Parts : task[i] = "ready"

\* When all are started, or all are polled, the next twenty follow.
NextLogGroup ==
    /\ lambdaPc \in {"starting", "polling"}
    /\ AllReady
    /\ IF logGroup < LogGroups
       THEN Enter(lambdaPc, logGroup + 1, IF lambdaPc = "starting" THEN "check" ELSE "poll")
       ELSE IF lambdaPc = "starting" THEN Enter("polling", 1, "poll")
       ELSE lambdaPc' = "done" /\ UNCHANGED <<logGroup, task, polls>>
    /\ UNCHANGED <<logQuery, logResults>>

\* A call fails; the other tasks of the request are not stopped by that.
LambdaFails ==
    /\ lambdaPc' = "failed"
    /\ \/ lambdaPc = "groups" /\ UNCHANGED task
       \/ \E i \in Parts : task[i] \in {"check", "start", "poll"} /\ task' = [task EXCEPT ![i] = "off"]
    /\ UNCHANGED <<logGroup, polls, logQuery, logResults>>

LogQueryMoves(q) ==
    /\ \/ logQuery[q] = "Scheduled" /\ logQuery' = [logQuery EXCEPT ![q] = "Running"]
       \/ /\ logQuery[q] = "Running"
          /\ \E end \in {"Complete", "Failed"} : logQuery' = [logQuery EXCEPT ![q] = end]
    /\ UNCHANGED <<lambdaPc, logGroup, task, polls, logResults>>

LambdaProgress ==
    \/ DescribeLogGroups
    \/ \E i \in Parts : \/ CheckRunning(i) \/ CheckAgain(i) \/ StartLogQuery(i)
                        \/ PollResults(i) \/ PollResultsAgain(i)
    \/ NextLogGroup

LambdaStep == LambdaProgress \/ LambdaFails

\* Calls are answered, timers run out, and queries come to an end.
LambdaFairness ==
    /\ WF_lambdaVars(DescribeLogGroups \/ NextLogGroup)
    /\ \A i \in Parts : WF_lambdaVars(\/ CheckRunning(i) \/ CheckAgain(i) \/ StartLogQuery(i)
                                      \/ PollResults(i) \/ PollResultsAgain(i))
    /\ \A q \in Queries : WF_lambdaVars(LogQueryMoves(q))
=============================================================================
