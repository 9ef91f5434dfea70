------------------------- MODULE ProviderQueriesProofs -------------------------
(***************************************************************************)
(* Theorems about the queries of ProviderQueries: for every number of      *)
(* result pages, log groups and intervals, of subscriptions, slices and    *)
(* retries, and any usage that is billed by the day.                       *)
(***************************************************************************)
EXTENDS ProviderQueries, FiniteSetTheorems, SequenceTheorems, WellFoundedInduction, TLAPS

-----------------------------------------------------------------------------
(* What a step of the call does to the queries of one provider.             *)

\* Athena's variables change by getUsage's steps and by the query's own.
LEMMA AthenaMoves ==
    ASSUME [Next]_vars
    PROVE  \/ AthenaBegin \/ CheckColumn \/ StartQuery \/ AthenaFails \/ PollQuery
           \/ PollAgain \/ GetResultSet \/ ExecutionMoves
           \/ UNCHANGED athenaVars
  BY DEF Next, EstimatesNext, Begin, BigQueryStep, BillingCycle, BillingCycleFails, StageEnds,
         Athena, Lambda, AzureQueries, AthenaStep, vars, estimateVars, athenaVars

\* The log queries' variables change by getEstimates' steps and by CloudWatch's own.
LEMMA LambdaMoves ==
    ASSUME [Next]_vars
    PROVE  \/ LambdaBegin \/ LambdaProgress \/ LambdaFails
           \/ \E q \in Queries : LogQueryMoves(q)
           \/ UNCHANGED lambdaVars
  BY DEF Next, EstimatesNext, Begin, BigQueryStep, BillingCycle, BillingCycleFails, StageEnds,
         Athena, Lambda, AzureQueries, LambdaStep, vars, estimateVars, lambdaVars

\* Azure's variables change by the account's and the subscriptions' steps.
LEMMA AzureMoves ==
    ASSUME [Next]_vars
    PROVE  AzureBegin \/ AzureStep \/ UNCHANGED azureVars
  BY DEF Next, EstimatesNext, Begin, BigQueryStep, BillingCycle, BillingCycleFails, StageEnds,
         Athena, Lambda, AzureQueries, vars, estimateVars, azureVars

-----------------------------------------------------------------------------
(* Athena: the pages read are always the first ones, in order, and reading  *)
(* goes on as long as one is left.                                          *)

Before == {"idle", "schema", "start", "poll", "wait"}

PagesInv ==
    /\ resultSets = [p \in 1 .. Len(resultSets) |-> p]
    /\ athenaPc \in Before => Len(resultSets) = 0
    /\ athenaPc = "page" => Len(resultSets) < ResultPages
    /\ athenaPc = "done" => Len(resultSets) = ResultPages

\* A page that is read is the one after those that were.
LEMMA NextPage ==
    ASSUME AthenaTypeOK, PagesInv, athenaPc = "page"
    PROVE  PageAfter(resultSets) = Len(resultSets) + 1
  <1>1. Len(resultSets) \in Nat /\ DOMAIN resultSets = 1 .. Len(resultSets)
    BY DEF AthenaTypeOK
  <1>2. CASE resultSets = << >>
    BY <1>2 DEF PageAfter
  <1>3. CASE resultSets # << >>
    <2>1. Len(resultSets) \in 1 .. Len(resultSets)
      BY <1>1, <1>3 DEF AthenaTypeOK
    <2>2. resultSets[Len(resultSets)] = Len(resultSets)
      BY <2>1 DEF PagesInv
    <2> QED
      BY <1>3, <2>2 DEF PageAfter
  <1> QED
    BY <1>2, <1>3

\* Every step of the call keeps Athena's state typed and the pages in order.
LEMMA PagesStep ==
    ASSUME AthenaTypeOK, PagesInv, [Next]_vars
    PROVE  AthenaTypeOK' /\ PagesInv'
  <1> USE AthenaQueryAssumption
  <1>1. CASE GetResultSet
    <2>1. CASE execution = "SUCCEEDED"
      <3> DEFINE n == Len(resultSets) + 1
      <3>1. PageAfter(resultSets) = n
        BY <1>1, NextPage DEF GetResultSet
      <3>2. n \in 1 .. ResultPages
        BY <1>1 DEF GetResultSet, AthenaTypeOK, PagesInv
      <3>3. resultSets' = Append(resultSets, n)
        BY <1>1, <2>1, <3>1 DEF GetResultSet
      <3>4. resultSets' \in Seq(1 .. ResultPages) /\ Len(resultSets') = n
        BY <3>2, <3>3 DEF AthenaTypeOK
      <3>5. resultSets' = [p \in 1 .. n |-> p]
        <4>1. \A p \in 1 .. Len(resultSets) : resultSets[p] = p
          BY DEF PagesInv
        <4>2. \A p \in 1 .. n : resultSets'[p] = p
          BY <3>3, <4>1 DEF AthenaTypeOK
        <4>3. resultSets' = [p \in 1 .. n |-> resultSets'[p]]
          BY <3>4
        <4> QED
          BY <4>2, <4>3
      <3>6. athenaPc' = IF n = ResultPages THEN "done" ELSE "page"
        BY <1>1, <2>1, <3>1 DEF GetResultSet
      <3>7. execution' = execution
        BY <1>1 DEF GetResultSet
      <3>8. AthenaTypeOK'
        BY <3>4, <3>6, <3>7 DEF AthenaTypeOK
      <3>9. resultSets' = [p \in 1 .. Len(resultSets') |-> p]
        BY <3>4, <3>5
      <3>10. /\ athenaPc' \notin Before
             /\ athenaPc' = "page" => Len(resultSets') < ResultPages
             /\ athenaPc' = "done" => Len(resultSets') = ResultPages
        BY <3>2, <3>4, <3>6 DEF Before
      <3> QED
        BY <3>8, <3>9, <3>10 DEF PagesInv
    <2>2. CASE execution # "SUCCEEDED"
      BY <1>1, <2>2 DEF GetResultSet, AthenaTypeOK, PagesInv, Before
    <2> QED
      BY <2>1, <2>2
  <1>2. CASE AthenaBegin \/ CheckColumn \/ StartQuery \/ AthenaFails \/ PollAgain
    BY <1>2 DEF AthenaBegin, CheckColumn, StartQuery, AthenaFails, PollAgain,
                AthenaTypeOK, PagesInv, Before
  <1>3. CASE PollQuery
    <2>1. athenaPc' \in {"failed", "page", "wait"}
      BY <1>3 DEF PollQuery
    <2> QED
      BY <1>3, <2>1 DEF PollQuery, AthenaTypeOK, PagesInv, Before
  <1>4. CASE ExecutionMoves \/ UNCHANGED athenaVars
    BY <1>4 DEF ExecutionMoves, athenaVars, AthenaTypeOK, PagesInv, Before
  <1> QED
    BY <1>1, <1>2, <1>3, <1>4, AthenaMoves

(* However the polls fall, the rows of an Athena query that ended are those *)
(* of all its pages, each read once and in order (CostAndUsageReports.ts,   *)
(* queryResultSets, and ServiceWrapper.ts, getQueryResultSets).             *)
THEOREM PagesOnceHolds == Spec => []PagesOnce
  <1>1. Init => AthenaTypeOK /\ PagesInv
    BY AthenaQueryAssumption DEF Init, AthenaInit, AthenaTypeOK, PagesInv, Before
  <1>2. AthenaTypeOK /\ PagesInv /\ [Next]_vars => (AthenaTypeOK /\ PagesInv)'
    BY PagesStep
  <1>3. PagesInv => PagesOnce
    BY DEF PagesInv, PagesOnce
  <1> QED
    BY <1>1, <1>2, <1>3, PTL DEF Spec

-----------------------------------------------------------------------------
(* CloudWatch: a task polls only queries that were started, those of the    *)
(* log groups passed in this phase have all been dealt with, and a result   *)
(* that is taken is final.                                                  *)

Read == {r[1] : r \in logResults}

TaskInv ==
    \A i \in Parts :
        /\ task[i] # "off" => logGroup >= 1
        /\ task[i] \in {"poll", "sleep", "ready"} => logQuery[<<logGroup, i>>] # "none"
        /\ task[i] = "sleep" => polls[i] < MaxPolls

StartingInv ==
    lambdaPc = "starting" =>
        /\ logGroup >= 1
        /\ \A q \in Queries : q[1] < logGroup => logQuery[q] # "none"
        /\ \A i \in Parts : task[i] \in {"off", "check", "wait", "start", "ready"}

PollingInv ==
    lambdaPc = "polling" =>
        /\ logGroup >= 1
        /\ \A q \in Queries : logQuery[q] # "none"
        /\ \A q \in Queries : q[1] < logGroup => q \in Read
        /\ \A i \in Parts : task[i] \in {"off", "poll", "sleep", "ready"}
        /\ \A i \in Parts : task[i] = "ready" => <<logGroup, i>> \in Read

ResultsInv ==
    /\ \A r \in logResults : r[2] \in {"Complete", "Failed"}
    /\ lambdaPc = "done" => Queries \subseteq Read

LambdaInv == TaskInv /\ StartingInv /\ PollingInv /\ ResultsInv

\* The query of a task at work is one of those of the request.
LEMMA OwnQuery ==
    ASSUME LambdaTypeOK, TaskInv, NEW i \in Parts, task[i] # "off"
    PROVE  <<logGroup, i>> \in Queries
  BY LambdaQueriesAssumption DEF LambdaTypeOK, TaskInv, Queries, Parts

\* What was read stays read.
LEMMA ReadGrows ==
    ASSUME logResults \subseteq logResults'
    PROVE  Read \subseteq Read'
  BY DEF Read

\* A task that goes from one state to another leaves the other tasks where they are.
LEMMA TaskChanges ==
    ASSUME LambdaTypeOK, NEW i \in Parts, NEW from, NEW to, TaskMoves(i, from, to)
    PROVE  /\ task[i] = from /\ task'[i] = to
           /\ \A j \in Parts : j # i => task'[j] = task[j]
           /\ DOMAIN task' = Parts
  BY DEF LambdaTypeOK, TaskMoves

\* A task finds whether it may start its query, and waits when it may not.
LEMMA CheckStep ==
    ASSUME LambdaTypeOK, LambdaInv, NEW i \in Parts, CheckRunning(i) \/ CheckAgain(i)
    PROVE  LambdaTypeOK' /\ LambdaInv'
  <1>1. PICK from \in {"check", "wait"}, to \in {"check", "wait", "start"} : TaskMoves(i, from, to)
    BY DEF CheckRunning, CheckAgain
  <1>2. UNCHANGED <<lambdaPc, logGroup, polls, logQuery, logResults>>
    BY DEF CheckRunning, CheckAgain
  <1>3. /\ task[i] = from /\ task'[i] = to
        /\ \A j \in Parts : j # i => task'[j] = task[j]
    BY <1>1, TaskChanges
  <1>4. LambdaTypeOK'
    BY <1>1, <1>2 DEF LambdaTypeOK, TaskMoves
  <1>5. TaskInv'
    BY <1>2, <1>3 DEF LambdaInv, TaskInv
  <1>6. StartingInv'
    BY <1>2, <1>3 DEF LambdaInv, StartingInv
  <1>7. PollingInv' /\ ResultsInv'
    BY <1>2, <1>3 DEF LambdaInv, PollingInv, ResultsInv, Read
  <1> QED
    BY <1>4, <1>5, <1>6, <1>7 DEF LambdaInv

\* A task starts its query: one more is started, and none is not started any more.
LEMMA StartStep ==
    ASSUME LambdaTypeOK, LambdaInv, NEW i \in Parts, StartLogQuery(i)
    PROVE  LambdaTypeOK' /\ LambdaInv'
  <1> DEFINE own == <<logGroup, i>>
  <1>1. /\ task[i] = "start" /\ task'[i] = "ready"
        /\ \A j \in Parts : j # i => task'[j] = task[j]
    BY TaskChanges DEF StartLogQuery
  <1>2. UNCHANGED <<lambdaPc, logGroup, polls, logResults>>
    BY DEF StartLogQuery
  <1>3. own \in Queries
    BY <1>1, OwnQuery DEF LambdaInv
  <1>4. logQuery' = [logQuery EXCEPT ![own] = "Scheduled"]
    BY DEF StartLogQuery
  <1>5. LambdaTypeOK'
    BY <1>2, <1>4 DEF LambdaTypeOK, StartLogQuery, TaskMoves, QueryStates
  <1>6. logQuery'[own] # "none" /\ \A q \in Queries : logQuery[q] # "none" => logQuery'[q] # "none"
    BY <1>3, <1>4 DEF LambdaTypeOK
  <1>7. TaskInv'
    <2> SUFFICES ASSUME NEW j \in Parts
                 PROVE  /\ task'[j] # "off" => logGroup' >= 1
                        /\ task'[j] \in {"poll", "sleep", "ready"} => logQuery'[<<logGroup', j>>] # "none"
                        /\ task'[j] = "sleep" => polls'[j] < MaxPolls
      BY DEF TaskInv
    <2>1. CASE j = i
      BY <1>1, <1>2, <1>6, <2>1 DEF LambdaInv, TaskInv
    <2>2. CASE j # i
      <3>1. task[j] # "off" => <<logGroup, j>> \in Queries
        BY OwnQuery DEF LambdaInv
      <3> QED
        BY <1>1, <1>2, <1>6, <2>2, <3>1 DEF LambdaInv, TaskInv
    <2> QED
      BY <2>1, <2>2
  <1>8. StartingInv'
    BY <1>1, <1>2, <1>6 DEF LambdaInv, StartingInv
  <1>9. PollingInv' /\ ResultsInv'
    BY <1>1, <1>2, <1>6 DEF LambdaInv, PollingInv, ResultsInv, Read
  <1> QED
    BY <1>5, <1>7, <1>8, <1>9 DEF LambdaInv

\* A task polls again after a second, which leaves what was read alone.
LEMMA SleepStep ==
    ASSUME LambdaTypeOK, LambdaInv, NEW i \in Parts, PollResultsAgain(i)
    PROVE  LambdaTypeOK' /\ LambdaInv'
  <1>1. /\ task[i] = "sleep" /\ task'[i] = "poll"
        /\ \A j \in Parts : j # i => task'[j] = task[j]
    BY TaskChanges DEF PollResultsAgain
  <1>2. UNCHANGED <<lambdaPc, logGroup, logQuery, logResults>>
    BY DEF PollResultsAgain
  <1>3. polls[i] + 1 \in 0 .. MaxPolls
    <2>1. polls[i] < MaxPolls
      BY <1>1 DEF LambdaInv, TaskInv
    <2>2. polls[i] \in 0 .. MaxPolls
      BY DEF LambdaTypeOK
    <2> QED
      BY <2>1, <2>2, LambdaQueriesAssumption
  <1>4. /\ polls' \in [Parts -> 0 .. MaxPolls]
        /\ \A j \in Parts : j # i => polls'[j] = polls[j]
    BY <1>3 DEF PollResultsAgain, LambdaTypeOK
  <1>5. LambdaTypeOK'
    BY <1>2, <1>4 DEF LambdaTypeOK, PollResultsAgain, TaskMoves
  <1>6. TaskInv'
    BY <1>1, <1>2, <1>4 DEF LambdaInv, TaskInv
  <1>7. StartingInv'
    BY <1>1, <1>2 DEF LambdaInv, StartingInv
  <1>8. PollingInv' /\ ResultsInv'
    BY <1>1, <1>2 DEF LambdaInv, PollingInv, ResultsInv, Read
  <1> QED
    BY <1>5, <1>6, <1>7, <1>8 DEF LambdaInv

\* A poll takes the result of a query that is over, or waits, or gives up.
LEMMA PollStep ==
    ASSUME LambdaTypeOK, LambdaInv, NEW i \in Parts, PollResults(i)
    PROVE  LambdaTypeOK' /\ LambdaInv'
  <1> DEFINE own == <<logGroup, i>>
             state == logQuery[own]
  <1>1. task[i] = "poll"
    BY DEF PollResults
  <1>2. own \in Queries /\ state \in QueryStates /\ state # "none"
    BY <1>1, OwnQuery DEF LambdaInv, TaskInv, LambdaTypeOK
  <1>3. UNCHANGED <<logGroup, polls, logQuery>>
    BY DEF PollResults
  <1>4. PICK to \in {"ready", "sleep", "off"} :
          /\ TaskMoves(i, "poll", to)
          /\ to = "ready" => ~NotOver(state)
          /\ to = "sleep" => polls[i] < MaxPolls
          /\ lambdaPc' = IF to = "off" THEN "failed" ELSE lambdaPc
    <2>1. CASE ~NotOver(state)
      BY <2>1 DEF PollResults
    <2>2. CASE NotOver(state) /\ polls[i] < MaxPolls
      BY <2>2 DEF PollResults
    <2>3. CASE NotOver(state) /\ ~(polls[i] < MaxPolls)
      BY <2>3 DEF PollResults
    <2> QED
      BY <2>1, <2>2, <2>3
  <1>5. /\ task'[i] = to
        /\ \A j \in Parts : j # i => task'[j] = task[j]
    BY <1>4, TaskChanges
  <1>6. logResults' = IF NotOver(state) THEN logResults ELSE logResults \cup {<<own, state>>}
    BY DEF PollResults
  <1>7. LambdaTypeOK'
    BY <1>2, <1>3, <1>4, <1>6 DEF LambdaTypeOK, TaskMoves
  <1>8. Read \subseteq Read'
    BY <1>6, ReadGrows
  <1>9. to = "ready" => own \in Read'
    <2>1. to = "ready" => <<own, state>> \in logResults'
      BY <1>4, <1>6
    <2>2. <<own, state>>[1] = own
      OBVIOUS
    <2> QED
      BY <2>1, <2>2 DEF Read
  <1>10. TaskInv'
    BY <1>1, <1>3, <1>4, <1>5 DEF LambdaInv, TaskInv
  <1>11. StartingInv'
    BY <1>1, <1>3, <1>4 DEF LambdaInv, StartingInv
  <1>12. PollingInv'
    BY <1>3, <1>4, <1>5, <1>8, <1>9 DEF LambdaInv, PollingInv
  <1>13. ResultsInv'
    <2>1. ~NotOver(state) => state \in {"Complete", "Failed"}
      BY <1>2 DEF NotOver, QueryStates
    <2>2. \A r \in logResults' : r[2] \in {"Complete", "Failed"}
      BY <1>6, <2>1 DEF LambdaInv, ResultsInv
    <2> QED
      BY <1>4, <1>8, <2>2 DEF LambdaInv, ResultsInv
  <1> QED
    BY <1>7, <1>10, <1>11, <1>12, <1>13 DEF LambdaInv

\* The tasks of twenty log groups begin, the first ones or the next.
LEMMA GroupStep ==
    ASSUME LambdaTypeOK, LambdaInv, DescribeLogGroups \/ NextLogGroup
    PROVE  LambdaTypeOK' /\ LambdaInv'
  <1> USE LambdaQueriesAssumption
  <1>1. UNCHANGED <<logQuery, logResults>>
    BY DEF DescribeLogGroups, NextLogGroup
  <1>2. \A q \in Queries : q = <<q[1], q[2]>> /\ q[1] \in 1 .. LogGroups /\ q[2] \in Parts
    BY DEF Queries
  <1>3. ASSUME NEW pc \in {"starting", "polling"}, NEW g \in 1 .. LogGroups,
               NEW first \in {"check", "poll"}, Enter(pc, g, first)
        PROVE  /\ LambdaTypeOK'
               /\ lambdaPc' = pc /\ logGroup' = g /\ \A i \in Parts : task'[i] = first
    BY <1>1, <1>3 DEF Enter, LambdaTypeOK
  <1>4. CASE DescribeLogGroups /\ LogGroups = 0
    <2>1. lambdaPc' = "done" /\ UNCHANGED <<logGroup, task, polls, logQuery, logResults>>
      BY <1>4 DEF DescribeLogGroups
    <2>2. Queries = {}
      BY <1>4 DEF Queries
    <2> QED
      BY <2>1, <2>2 DEF LambdaTypeOK, LambdaInv, TaskInv, StartingInv, PollingInv, ResultsInv
  <1>5. CASE DescribeLogGroups /\ LogGroups # 0
    <2>1. Enter("starting", 1, "check")
      BY <1>5 DEF DescribeLogGroups
    <2>2. LambdaTypeOK' /\ lambdaPc' = "starting" /\ logGroup' = 1 /\ \A i \in Parts : task'[i] = "check"
      BY <1>3, <1>5, <2>1
    <2> QED
      BY <1>1, <1>2, <2>2 DEF LambdaInv, TaskInv, StartingInv, PollingInv, ResultsInv, Read
  <1>6. CASE NextLogGroup /\ lambdaPc = "starting"
    <2>1. \A q \in Queries : q[1] <= logGroup => logQuery[q] # "none"
      BY <1>2, <1>6 DEF NextLogGroup, AllReady, LambdaTypeOK, LambdaInv, TaskInv, StartingInv
    <2>2. logGroup \in 1 .. LogGroups
      BY <1>6 DEF LambdaTypeOK, LambdaInv, StartingInv
    <2>3. CASE logGroup < LogGroups
      <3>1. Enter("starting", logGroup + 1, "check")
        BY <1>6, <2>3 DEF NextLogGroup
      <3>2. /\ LambdaTypeOK' /\ lambdaPc' = "starting" /\ logGroup' = logGroup + 1
            /\ \A i \in Parts : task'[i] = "check"
        BY <1>3, <2>2, <2>3, <3>1
      <3> QED
        BY <1>1, <1>2, <2>1, <2>2, <3>2
           DEF LambdaInv, TaskInv, StartingInv, PollingInv, ResultsInv, Read
    <2>4. CASE ~(logGroup < LogGroups)
      <3>1. Enter("polling", 1, "poll")
        BY <1>6, <2>4 DEF NextLogGroup
      <3>2. /\ LambdaTypeOK' /\ lambdaPc' = "polling" /\ logGroup' = 1
            /\ \A i \in Parts : task'[i] = "poll"
        BY <1>3, <2>2, <3>1
      <3>3. \A q \in Queries : logQuery[q] # "none"
        BY <1>2, <2>1, <2>2, <2>4
      <3>4. \A i \in Parts : <<1, i>> \in Queries
        BY <2>2 DEF Queries
      <3> QED
        BY <1>1, <1>2, <3>2, <3>3, <3>4
           DEF LambdaInv, TaskInv, StartingInv, PollingInv, ResultsInv, Read
    <2> QED
      BY <2>3, <2>4
  <1>7. CASE NextLogGroup /\ lambdaPc = "polling"
    <2>1. \A q \in Queries : q[1] <= logGroup => q \in Read
      BY <1>2, <1>7 DEF NextLogGroup, AllReady, LambdaTypeOK, LambdaInv, PollingInv
    <2>2. logGroup \in 1 .. LogGroups
      BY <1>7 DEF LambdaTypeOK, LambdaInv, PollingInv
    <2>3. \A q \in Queries : logQuery[q] # "none"
      BY <1>7 DEF LambdaInv, PollingInv
    <2>4. Read' = Read
      BY <1>1 DEF Read
    <2>5. CASE logGroup < LogGroups
      <3>1. Enter("polling", logGroup + 1, "poll")
        BY <1>7, <2>5 DEF NextLogGroup
      <3>2. /\ LambdaTypeOK' /\ lambdaPc' = "polling" /\ logGroup' = logGroup + 1
            /\ \A i \in Parts : task'[i] = "poll"
        BY <1>3, <2>2, <2>5, <3>1
      <3>3. \A i \in Parts : <<logGroup + 1, i>> \in Queries
        BY <2>2, <2>5 DEF Queries
      <3>4. \A q \in Queries : q[1] < logGroup + 1 => q \in Read
        BY <1>2, <2>1, <2>2
      <3> QED
        BY <1>1, <2>2, <2>3, <2>4, <3>2, <3>3, <3>4
           DEF LambdaInv, TaskInv, StartingInv, PollingInv, ResultsInv
    <2>6. CASE ~(logGroup < LogGroups)
      <3>1. lambdaPc' = "done" /\ UNCHANGED <<logGroup, task, polls>>
        BY <1>7, <2>6 DEF NextLogGroup
      <3>2. Queries \subseteq Read
        BY <1>2, <2>1, <2>2, <2>6
      <3> QED
        BY <1>1, <2>4, <3>1, <3>2
           DEF LambdaTypeOK, LambdaInv, TaskInv, StartingInv, PollingInv, ResultsInv
    <2> QED
      BY <2>5, <2>6
  <1> QED
    BY <1>4, <1>5, <1>6, <1>7 DEF NextLogGroup

\* A call fails, or CloudWatch moves a query on: it stays started.
LEMMA LambdaOtherStep ==
    ASSUME LambdaTypeOK, LambdaInv,
           LambdaBegin \/ LambdaFails \/ (\E q \in Queries : LogQueryMoves(q)) \/ UNCHANGED lambdaVars
    PROVE  LambdaTypeOK' /\ LambdaInv'
  <1>1. CASE LambdaBegin
    BY <1>1 DEF LambdaBegin, LambdaTypeOK, LambdaInv, TaskInv, StartingInv, PollingInv, ResultsInv, Read
  <1>2. CASE LambdaFails
    <2>1. /\ \A i \in Parts : task'[i] \in {task[i], "off"}
          /\ task' \in [Parts -> {"off", "check", "wait", "start", "poll", "sleep", "ready"}]
      BY <1>2 DEF LambdaFails, LambdaTypeOK
    <2>2. lambdaPc' = "failed" /\ UNCHANGED <<logGroup, polls, logQuery, logResults>>
      BY <1>2 DEF LambdaFails
    <2> QED
      BY <2>1, <2>2 DEF LambdaTypeOK, LambdaInv, TaskInv, StartingInv, PollingInv, ResultsInv, Read
  <1>3. ASSUME NEW q \in Queries, LogQueryMoves(q)
        PROVE  LambdaTypeOK' /\ LambdaInv'
    <2>1. UNCHANGED <<lambdaPc, logGroup, task, polls, logResults>>
      BY <1>3 DEF LogQueryMoves
    <2>2. /\ logQuery' \in [Queries -> QueryStates]
          /\ \A p \in Queries : logQuery[p] # "none" => logQuery'[p] # "none"
      BY <1>3 DEF LogQueryMoves, LambdaTypeOK, QueryStates
    <2>3. \A i \in Parts : task[i] # "off" => <<logGroup, i>> \in Queries
      BY OwnQuery DEF LambdaInv
    <2>4. TaskInv'
      BY <2>1, <2>2, <2>3 DEF LambdaInv, TaskInv
    <2>5. StartingInv' /\ PollingInv' /\ ResultsInv'
      BY <2>1, <2>2 DEF LambdaInv, StartingInv, PollingInv, ResultsInv, Read
    <2> QED
      BY <2>1, <2>2, <2>4, <2>5 DEF LambdaTypeOK, LambdaInv
  <1>4. CASE UNCHANGED lambdaVars
    BY <1>4 DEF lambdaVars, LambdaTypeOK, LambdaInv, TaskInv, StartingInv, PollingInv, ResultsInv, Read
  <1> QED
    BY <1>1, <1>2, <1>3, <1>4

\* The log queries' state is so from the first state of a call on.
LEMMA LogQueriesStart ==
    ASSUME Init
    PROVE  LambdaTypeOK /\ LambdaInv
  <1>1. LambdaTypeOK
    BY LambdaQueriesAssumption DEF Init, LambdaInit, LambdaTypeOK, QueryStates
  <1>2. LambdaInv
    BY DEF Init, LambdaInit, LambdaInv, TaskInv, StartingInv, PollingInv, ResultsInv
  <1> QED
    BY <1>1, <1>2

LEMMA LogQueriesStep ==
    ASSUME LambdaTypeOK, LambdaInv, [Next]_vars
    PROVE  LambdaTypeOK' /\ LambdaInv'
  <1>1. CASE LambdaProgress
    BY <1>1, CheckStep, StartStep, SleepStep, PollStep, GroupStep DEF LambdaProgress
  <1> QED
    BY <1>1, LambdaMoves, LambdaOtherStep

(* When the Lambda estimates of a region are ready, the result of each log  *)
(* query was taken, in the state it ended in, whatever the limit on queries *)
(* that run at once (Lambda.ts, runQuery and getQueryResults).              *)
THEOREM EveryLogQueryReadHolds == Spec => []EveryLogQueryRead
  <1>1. Init => LambdaTypeOK /\ LambdaInv
    BY LogQueriesStart
  <1>2. LambdaTypeOK /\ LambdaInv /\ [Next]_vars => (LambdaTypeOK /\ LambdaInv)'
    BY LogQueriesStep
  <1>3. LambdaTypeOK /\ LambdaInv => EveryLogQueryRead
    BY DEF LambdaTypeOK, LambdaInv, ResultsInv, Read, EveryLogQueryRead
  <1> QED
    BY <1>1, <1>2, <1>3, PTL DEF Spec

-----------------------------------------------------------------------------
(* Azure: up to the begin of the slice that is asked for, usage has been    *)
(* taken once, and from there on not at all.                                *)

Asking == {"off", "try", "page", "wait"}

\* Usage of a subscription that has ended before a slice begins.
TakenUpTo(s, from) ==
    [u \in UsageDetails |-> IF u.sub = s /\ u.start >= Start /\ u.end < from - 1 THEN 1 ELSE 0]

\* All usage of a subscription in the range.
Whole(s) ==
    [u \in UsageDetails |-> IF u.sub = s /\ u.start >= Start /\ u.end <= End THEN 1 ELSE 0]

\* A slice begins with a day, and not after the end of the range.
SliceInv ==
    \A s \in Subs : subPc[s] \in Asking =>
        /\ sliceStart[s] % 3 = 0
        /\ sliceStart[s] = Start \/ (Start <= sliceStart[s] /\ sliceStart[s] <= End)
        /\ ConsumptionDays = 0 => sliceStart[s] = Start
        /\ usage[s] = TakenUpTo(s, sliceStart[s])

WholeInv == \A s \in Subs : subPc[s] = "done" => usage[s] = Whole(s)

AzureInv == SliceInv /\ WholeInv

\* Usage begins with a day and ends on it.
LEMMA UsageTimes ==
    ASSUME NEW u \in UsageDetails
    PROVE  /\ u.start \in Nat /\ u.end \in Nat
           /\ u.start % 3 = 0 /\ (u.end = u.start \/ u.end = u.start + 1)
  BY AzureConsumptionAssumption, UsageByDay

\* No usage has ended before the range begins.
LEMMA NoneTakenAtStart ==
    ASSUME NEW s \in Subs
    PROVE  TakenUpTo(s, Start) = None
  BY UsageTimes, AzureConsumptionAssumption DEF TakenUpTo, None

\* A slice that is not the last takes what ends before the next one begins.
LEMMA InnerSlice ==
    ASSUME AzureTypeOK, SliceInv, NEW s \in Subs, subPc[s] = "page", paged[s] = Slice(s),
           ConsumptionDays # 0, sliceStart[s] + Step < End
    PROVE  Take(s) = TakenUpTo(s, sliceStart[s] + Step)
  <1> DEFINE S == sliceStart[s]
  <1>1. /\ S \in Nat /\ S % 3 = 0 /\ Start <= S /\ usage[s] = TakenUpTo(s, S)
        /\ Start \in Nat /\ End \in Nat /\ Step \in Nat
    BY AzureConsumptionAssumption DEF AzureTypeOK, SliceInv, Asking, Step
  <1>2. ASSUME NEW u \in UsageDetails
        PROVE  usage[s][u] + (IF u \in paged[s] THEN 1 ELSE 0) = TakenUpTo(s, S + Step)[u]
    <2>1. u \in Slice(s) <=> u.sub = s /\ u.start >= S /\ u.end < (S + Step) - 1
      BY DEF Slice
    <2>2. usage[s][u] = IF u.sub = s /\ u.start >= Start /\ u.end < S - 1 THEN 1 ELSE 0
      BY <1>1 DEF TakenUpTo
    <2>3. u.end < S - 1 <=> u.start < S
      BY <1>1, UsageTimes
    <2> QED
      BY <1>1, <2>1, <2>2, <2>3, UsageTimes DEF TakenUpTo
  <1> QED
    BY <1>2 DEF Take, TakenUpTo

\* The last slice takes what is left.
LEMMA LastSlice ==
    ASSUME AzureTypeOK, SliceInv, NEW s \in Subs, subPc[s] = "page", paged[s] = Slice(s),
           ~(ConsumptionDays # 0 /\ sliceStart[s] + Step < End)
    PROVE  Take(s) = Whole(s)
  <1> DEFINE S == sliceStart[s]
  <1>1. /\ S \in Nat /\ S % 3 = 0
        /\ S = Start \/ (Start <= S /\ S <= End)
        /\ usage[s] = TakenUpTo(s, S) /\ Start \in Nat /\ End \in Nat
    BY AzureConsumptionAssumption DEF AzureTypeOK, SliceInv, Asking
  <1>2. ASSUME NEW u \in UsageDetails
        PROVE  usage[s][u] + (IF u \in paged[s] THEN 1 ELSE 0) = Whole(s)[u]
    <2>1. u \in Slice(s) <=> u.sub = s /\ u.start >= S /\ u.end <= End
      BY DEF Slice
    <2>2. usage[s][u] = IF u.sub = s /\ u.start >= Start /\ u.end < S - 1 THEN 1 ELSE 0
      BY <1>1 DEF TakenUpTo
    <2>3. u.end < S - 1 <=> u.start < S
      BY <1>1, UsageTimes
    <2> QED
      BY <1>1, <2>1, <2>2, <2>3, UsageTimes DEF Whole
  <1> QED
    BY <1>2 DEF Take, Whole

\* The rows of a slice end, and the next slice begins where it ended.
LEMMA SliceStep ==
    ASSUME AzureTypeOK, AzureInv, NEW s \in Subs, SliceDone(s)
    PROVE  AzureTypeOK' /\ AzureInv'
  <1> DEFINE S == sliceStart[s]
  <1>1. /\ subPc[s] = "page" /\ paged[s] = Slice(s)
        /\ usage' = [usage EXCEPT ![s] = Take(s)]
        /\ sliceStart' = [sliceStart EXCEPT ![s] = S + Step]
        /\ subPc' = [subPc EXCEPT ![s] = IF ConsumptionDays # 0 /\ S + Step <= End THEN "try" ELSE "done"]
        /\ UNCHANGED <<azurePc, found, remaining>>
    BY DEF SliceDone
  <1>2. /\ S \in Nat /\ S % 3 = 0
        /\ S = Start \/ (Start <= S /\ S <= End)
        /\ Start \in Nat /\ End \in Nat /\ End % 3 = 2
        /\ Step \in Nat /\ Step % 3 = 0 /\ (S + Step) % 3 = 0
    BY <1>1, AzureConsumptionAssumption, UsageByDay DEF AzureTypeOK, AzureInv, SliceInv, Asking, Step
  <1>3. Take(s) \in [UsageDetails -> Nat]
    BY DEF Take, AzureTypeOK
  <1>4. AzureTypeOK'
    <2>1. tries' = [tries EXCEPT ![s] = 0] /\ paged' = [paged EXCEPT ![s] = {}]
      BY DEF SliceDone
    <2>2. S + Step \in Nat /\ 0 \in 0 .. MaxRetries + 1
      BY <1>2, AzureConsumptionAssumption
    <2>3. usage' \in [Subs -> [UsageDetails -> Nat]]
      BY <1>1, <1>3 DEF AzureTypeOK
    <2>4. sliceStart' \in [Subs -> Nat]
      BY <1>1, <2>2 DEF AzureTypeOK
    <2>5. tries' \in [Subs -> 0 .. MaxRetries + 1] /\ paged' \in [Subs -> SUBSET UsageDetails]
      BY <2>1, <2>2 DEF AzureTypeOK
    <2>6. subPc' \in [Subs -> {"off", "try", "page", "wait", "done", "lost"}]
      BY <1>1 DEF AzureTypeOK
    <2> QED
      BY <1>1, <2>3, <2>4, <2>5, <2>6 DEF AzureTypeOK
  <1>5. /\ usage'[s] = Take(s) /\ sliceStart'[s] = S + Step
        /\ subPc'[s] = IF ConsumptionDays # 0 /\ S + Step <= End THEN "try" ELSE "done"
        /\ \A t \in Subs : t # s =>
              usage'[t] = usage[t] /\ sliceStart'[t] = sliceStart[t] /\ subPc'[t] = subPc[t]
    BY <1>1 DEF AzureTypeOK
  <1>6. CASE ConsumptionDays # 0 /\ S + Step <= End
    <2>1. S + Step < End
      BY <1>2, <1>6
    <2>2. Take(s) = TakenUpTo(s, S + Step)
      BY <1>1, <1>6, <2>1, InnerSlice DEF AzureInv
    <2>3. Start <= S + Step
      BY <1>2
    <2> QED
      BY <1>2, <1>4, <1>5, <1>6, <2>2, <2>3 DEF AzureInv, SliceInv, WholeInv
  <1>7. CASE ~(ConsumptionDays # 0 /\ S + Step <= End)
    <2>1. Take(s) = Whole(s)
      BY <1>1, <1>2, <1>7, LastSlice DEF AzureInv
    <2> QED
      BY <1>4, <1>5, <1>7, <2>1 DEF AzureInv, SliceInv, WholeInv, Asking
  <1> QED
    BY <1>6, <1>7

\* A step that takes no usage and moves no slice, but may lose a subscription's.
SilentAzure ==
    /\ UNCHANGED sliceStart
    /\ \A s \in Subs : /\ subPc'[s] \in Asking => subPc[s] \in Asking /\ usage'[s] = usage[s]
                       /\ subPc'[s] = "done" => subPc[s] = "done" /\ usage'[s] = usage[s]

LEMMA SilentStep ==
    ASSUME AzureInv, SilentAzure
    PROVE  AzureInv'
  BY DEF SilentAzure, AzureInv, SliceInv, WholeInv, TakenUpTo, Whole

\* A subscription whose request fails has no usage.
LEMMA LoseStep ==
    ASSUME AzureTypeOK, NEW s \in Subs, Lose(s), UNCHANGED <<azurePc, found, remaining>>
    PROVE  AzureTypeOK' /\ SilentAzure
  <1>1. None \in [UsageDetails -> Nat]
    BY DEF None
  <1>2. AzureTypeOK'
    BY <1>1 DEF Lose, AzureTypeOK
  <1>3. SilentAzure
    BY DEF Lose, AzureTypeOK, SilentAzure, Asking
  <1> QED
    BY <1>2, <1>3

\* A query is admitted, refused or given up.
LEMMA QueryStep ==
    ASSUME AzureTypeOK, NEW s \in Subs, QueryUsage(s)
    PROVE  AzureTypeOK' /\ SilentAzure
  <1>1. CASE AnotherTry(s)
    <2>1. /\ subPc[s] = "try"
          /\ tries' = [tries EXCEPT ![s] = IF @ > MaxRetries THEN @ ELSE @ + 1]
          /\ subPc' = [subPc EXCEPT ![s] = IF remaining = 0 THEN "wait" ELSE "page"]
          /\ remaining' = IF remaining = 0 THEN 0 ELSE remaining - 1
          /\ paged' = [paged EXCEPT ![s] = {}]
          /\ UNCHANGED <<sliceStart, usage, azurePc, found>>
      BY <1>1 DEF QueryUsage
    <2>2. tries' \in [Subs -> 0 .. MaxRetries + 1]
      BY <2>1, AzureConsumptionAssumption DEF AzureTypeOK
    <2>3. remaining' \in 0 .. RateLimit
      BY <2>1, AzureConsumptionAssumption DEF AzureTypeOK
    <2>4. AzureTypeOK'
      BY <2>1, <2>2, <2>3 DEF AzureTypeOK
    <2>5. SilentAzure
      BY <2>1 DEF AzureTypeOK, SilentAzure, Asking
    <2> QED
      BY <2>4, <2>5
  <1>2. CASE ~AnotherTry(s)
    BY <1>2, LoseStep DEF QueryUsage
  <1> QED
    BY <1>1, <1>2

\* The other steps of a subscription.
LEMMA WaitStep ==
    ASSUME AzureTypeOK, NEW s \in Subs, RetryAfter(s) \/ NextUsageRow(s) \/ PageRefused(s)
    PROVE  AzureTypeOK' /\ SilentAzure
  <1>1. CASE RetryAfter(s)
    BY <1>1 DEF RetryAfter, slices, AzureTypeOK, SilentAzure, Asking
  <1>2. CASE NextUsageRow(s)
    <2>1. PICK u \in UsageDetails : paged' = [paged EXCEPT ![s] = @ \cup {u}]
      BY <1>2 DEF NextUsageRow, Slice
    <2> QED
      BY <1>2, <2>1 DEF NextUsageRow, AzureTypeOK, SilentAzure
  <1>3. CASE PageRefused(s)
    BY <1>3 DEF PageRefused, slices, AzureTypeOK, SilentAzure, Asking
  <1> QED
    BY <1>1, <1>2, <1>3

\* The steps of the account, and the limit's renewal.
LEMMA AccountStepSilent ==
    ASSUME AzureTypeOK,
           \/ AzureBegin \/ InitializeAccount \/ GetSubscriptions \/ NextChunk
           \/ AzureFails \/ RenewLimit \/ UNCHANGED azureVars
    PROVE  AzureTypeOK' /\ SilentAzure
  <1>1. CASE NextChunk
    <2>1. UNCHANGED <<found, sliceStart, tries, paged, usage, remaining>>
      BY <1>1 DEF NextChunk, slices
    <2>2. azurePc' \in {"usage", "done"}
      BY <1>1 DEF NextChunk
    <2>3. \A s \in Subs : subPc'[s] = subPc[s] \/ (subPc[s] = "off" /\ subPc'[s] = "try")
      BY <1>1 DEF NextChunk
    <2>4. subPc' \in [Subs -> {"off", "try", "page", "wait", "done", "lost"}]
      BY <1>1, <2>3 DEF NextChunk, AzureTypeOK
    <2> QED
      BY <2>1, <2>2, <2>3, <2>4 DEF AzureTypeOK, SilentAzure, Asking
  <1>2. CASE AzureBegin \/ InitializeAccount \/ AzureFails
    BY <1>2 DEF AzureBegin, InitializeAccount, AzureFails, slices, AzureTypeOK, SilentAzure
  <1>3. CASE GetSubscriptions
    <2>1. found' \subseteq Subs /\ azurePc' \in {"usage", "done"}
      BY <1>3 DEF GetSubscriptions
    <2>2. UNCHANGED <<subPc, sliceStart, tries, paged, usage, remaining>>
      BY <1>3 DEF GetSubscriptions, slices
    <2> QED
      BY <2>1, <2>2 DEF AzureTypeOK, SilentAzure
  <1>4. CASE RenewLimit \/ UNCHANGED azureVars
    BY <1>4, AzureConsumptionAssumption DEF RenewLimit, azureVars, slices, AzureTypeOK, SilentAzure
  <1> QED
    BY <1>1, <1>2, <1>3, <1>4

\* Azure's state is so from the first state of a call on.
LEMMA UsageStart ==
    ASSUME Init
    PROVE  AzureTypeOK /\ AzureInv
  <1>1. /\ azurePc = "idle" /\ found = {} /\ remaining = RateLimit
        /\ subPc = [s \in Subs |-> "off"] /\ sliceStart = [s \in Subs |-> Start]
        /\ tries = [s \in Subs |-> 0] /\ paged = [s \in Subs |-> {}]
        /\ usage = [s \in Subs |-> None]
    BY DEF Init, AzureInit
  <1>2. None \in [UsageDetails -> Nat] /\ 0 \in 0 .. MaxRetries + 1
    BY AzureConsumptionAssumption DEF None
  <1>3. AzureTypeOK
    BY <1>1, <1>2, AzureConsumptionAssumption DEF AzureTypeOK
  <1>4. AzureInv
    BY <1>1, NoneTakenAtStart, UsageByDay DEF AzureInv, SliceInv, WholeInv
  <1> QED
    BY <1>3, <1>4

LEMMA UsageStep ==
    ASSUME AzureTypeOK, AzureInv, [Next]_vars
    PROVE  AzureTypeOK' /\ AzureInv'
  <1>1. ASSUME NEW s \in Subs, SliceDone(s)
        PROVE  AzureTypeOK' /\ AzureInv'
    BY <1>1, SliceStep
  <1>2. ASSUME NEW s \in Subs, SubscriptionFails(s)
        PROVE  AzureTypeOK' /\ AzureInv'
    BY <1>2, LoseStep, SilentStep DEF SubscriptionFails
  <1>3. ASSUME NEW s \in Subs,
               QueryUsage(s) \/ RetryAfter(s) \/ NextUsageRow(s) \/ PageRefused(s)
        PROVE  AzureTypeOK' /\ AzureInv'
    BY <1>3, QueryStep, WaitStep, SilentStep
  <1>4. CASE \/ AzureBegin \/ InitializeAccount \/ GetSubscriptions \/ NextChunk
             \/ AzureFails \/ RenewLimit \/ UNCHANGED azureVars
    BY <1>4, AccountStepSilent, SilentStep
  <1> QED
    BY <1>1, <1>2, <1>3, <1>4, AzureMoves DEF AzureStep, AzureProgress

(* Whatever the tenant's limit refuses, however often a slice is asked for  *)
(* and in whatever chunks the subscriptions are, a subscription that was    *)
(* answered has its usage of the range whole and once                       *)
(* (ConsumptionManagement.ts, getConsumptionUsageDetails).                  *)
THEOREM UsageTakenOnceHolds == Spec => []UsageTakenOnce
  <1>1. Init => AzureTypeOK /\ AzureInv
    BY UsageStart
  <1>2. AzureTypeOK /\ AzureInv /\ [Next]_vars => (AzureTypeOK /\ AzureInv)'
    BY UsageStep
  <1>3. AzureInv => UsageTakenOnce
    BY DEF AzureInv, WholeInv, Whole, UsageTakenOnce
  <1> QED
    BY <1>1, <1>2, <1>3, PTL DEF Spec
-----------------------------------------------------------------------------
(* Induction over numbers, and lists put together.                          *)

LEMMA LeastNumber ==
    ASSUME NEW T \in SUBSET Nat, T # {}
    PROVE  \E n \in T : \A m \in T : n <= m
  <1> DEFINE less == OpToRel(<, Nat)
  <1>1. IsWellFoundedOn(less, Nat)
    BY NatLessThanWellFounded
  <1>2. \E x \in T : \A y \in T : ~(<<y, x>> \in less)
    BY <1>1, WFMin
  <1>3. \A x, y \in Nat : <<y, x>> \in less <=> y < x
    BY DEF OpToRel
  <1> HIDE DEF less
  <1>4. PICK x \in T : \A y \in T : ~(<<y, x>> \in less)
    BY <1>2
  <1>5. \A y \in T : ~(y < x)
    BY <1>3, <1>4
  <1> QED
    BY <1>5

LEMMA NatSetInduction ==
    ASSUME NEW T, 0 \in T, \A n \in Nat : n \in T => n + 1 \in T
    PROVE  Nat \subseteq T
  <1> SUFFICES ASSUME NEW k \in Nat, k \notin T PROVE FALSE
    OBVIOUS
  <1> DEFINE others == {m \in Nat : m \notin T}
  <1>1. PICK n \in others : \A m \in others : n <= m
    BY LeastNumber
  <1>2. n # 0
    BY <1>1
  <1>3. n - 1 \in Nat /\ n - 1 \in T
    BY <1>1, <1>2
  <1> QED
    BY <1>1, <1>3

LEMMA FlattenTurns ==
    ASSUME NEW S, NEW seqs \in Seq(Seq(S)), seqs # <<>>
    PROVE  \E flat : /\ flat[1] = seqs[1]
                     /\ \A n \in 1 .. Len(seqs) - 1 : flat[n + 1] = flat[n] \o seqs[n + 1]
                     /\ FlattenSeq(seqs) = flat[Len(seqs)]
  <1> DEFINE N == Len(seqs)
             Flat(f, m) == f = [n \in 1 .. m |-> IF n = 1 THEN seqs[n] ELSE f[n - 1] \o seqs[n]]
             T == {m \in Nat : \E f : Flat(f, m)}
  <1>1. N \in Nat /\ N >= 1 /\ N # 0
    BY EmptySeq
  <1>2. 0 \in T
    <2> DEFINE f == [n \in 1 .. 0 |-> <<>>]
    <2>1. Flat(f, 0)
      OBVIOUS
    <2> QED
      BY <2>1
  <1>3. ASSUME NEW m \in Nat, m \in T
        PROVE  m + 1 \in T
    <2>1. PICK f : Flat(f, m)
      BY <1>3
    <2> DEFINE next == IF m + 1 = 1 THEN seqs[m + 1] ELSE f[m] \o seqs[m + 1]
               g == [n \in 1 .. m + 1 |-> IF n = m + 1 THEN next ELSE f[n]]
    <2>2. \A n \in 1 .. m : f[n] = IF n = 1 THEN seqs[n] ELSE f[n - 1] \o seqs[n]
      BY <2>1
    <2>3. \A n \in 1 .. m + 1 : g[n] = IF n = 1 THEN seqs[n] ELSE g[n - 1] \o seqs[n]
      <3> TAKE n \in 1 .. m + 1
      <3>1. CASE n = m + 1
        <4>1. g[n] = next /\ (n # 1 => g[n - 1] = f[m])
          BY <3>1
        <4> QED
          BY <3>1, <4>1
      <3>2. CASE n # m + 1
        <4>1. g[n] = f[n] /\ n \in 1 .. m /\ (n # 1 => g[n - 1] = f[n - 1])
          BY <3>2
        <4> QED
          BY <2>2, <4>1
      <3> QED
        BY <3>1, <3>2
    <2>4. Flat(g, m + 1)
      <3>1. g = [n \in 1 .. m + 1 |-> g[n]]
        OBVIOUS
      <3> HIDE DEF g
      <3> QED
        BY <2>3, <3>1
    <2>5. m + 1 \in Nat /\ \E h : Flat(h, m + 1)
      <3> HIDE DEF Flat, g
      <3> QED
        BY <2>4
    <2> HIDE DEF Flat
    <2> QED
      BY <2>5
  <1>4. \E f : Flat(f, N)
    <2> HIDE DEF T
    <2>1. N \in T
      BY <1>1, <1>2, <1>3, NatSetInduction
    <2> QED
      BY <2>1 DEF T
  <1> DEFINE flat == CHOOSE f : Flat(f, N)
  <1>5. Flat(flat, N)
    BY <1>4
  <1>6. FlattenSeq(seqs) = flat[N]
    BY <1>1 DEF FlattenSeq
  <1> HIDE DEF flat
  <1>7. \A n \in 1 .. N : flat[n] = IF n = 1 THEN seqs[n] ELSE flat[n - 1] \o seqs[n]
    <2> HIDE DEF N
    <2> QED
      BY <1>5
  <1>8. flat[1] = seqs[1]
    <2>1. 1 \in 1 .. N
      BY <1>1
    <2> QED
      BY <1>7, <2>1
  <1>9. \A n \in 1 .. N - 1 : flat[n + 1] = flat[n] \o seqs[n + 1]
    <2> TAKE n \in 1 .. N - 1
    <2> DEFINE k == n + 1
    <2>1. k \in 1 .. N /\ k # 1 /\ k - 1 = n
      BY <1>1
    <2> HIDE DEF k, N
    <2>2. flat[k] = flat[k - 1] \o seqs[k]
      BY <1>7, <2>1
    <2> QED
      BY <2>1, <2>2 DEF k
  <1> QED
    BY <1>6, <1>8, <1>9

LEMMA FlattenType ==
    ASSUME NEW S, NEW seqs \in Seq(Seq(S))
    PROVE  FlattenSeq(seqs) \in Seq(S)
  <1>1. CASE seqs = <<>>
    BY <1>1 DEF FlattenSeq
  <1>2. CASE seqs # <<>>
    <2>1. PICK flat : /\ flat[1] = seqs[1]
                      /\ \A n \in 1 .. Len(seqs) - 1 : flat[n + 1] = flat[n] \o seqs[n + 1]
                      /\ FlattenSeq(seqs) = flat[Len(seqs)]
      BY <1>2, FlattenTurns
    <2> DEFINE N == Len(seqs)
               T == {n \in Nat : n \in 1 .. N => flat[n] \in Seq(S)}
    <2>2. N \in Nat /\ N # 0 /\ \A k \in 1 .. N : seqs[k] \in Seq(S)
      BY <1>2, EmptySeq, LenProperties, ElementOfSeq
    <2>3. 0 \in T
      OBVIOUS
    <2>4. ASSUME NEW n \in Nat, n \in T
          PROVE  n + 1 \in T
      <3>1. CASE n = 0
        BY <2>1, <2>2, <3>1
      <3>2. CASE n # 0 /\ n + 1 \in 1 .. N
        <4>1. n \in 1 .. N - 1 /\ n \in 1 .. N /\ n + 1 \in Nat
          BY <2>2, <3>2
        <4>2. flat[n + 1] = flat[n] \o seqs[n + 1]
          BY <2>1, <4>1
        <4>3. seqs[n + 1] \in Seq(S) /\ flat[n] \in Seq(S)
          BY <2>2, <2>4, <3>2, <4>1
        <4>4. flat[n + 1] \in Seq(S)
          BY <4>2, <4>3, ConcatProperties
        <4> HIDE DEF N
        <4> QED
          BY <4>1, <4>4
      <3>3. CASE n + 1 \notin 1 .. N
        BY <3>3
      <3> QED
        BY <3>1, <3>2, <3>3
    <2>5. N \in T /\ N \in 1 .. N
      <3>1. N \in 1 .. N
        BY <2>2
      <3> HIDE DEF T, N
      <3> QED
        BY <2>2, <2>3, <2>4, <3>1, NatSetInduction
    <2> QED
      BY <2>1, <2>5
  <1> QED
    BY <1>1, <1>2

\* One list more at the end of some lists is appended to what they are together.
LEMMA FlattenNext ==
    ASSUME NEW S, NEW seqs \in Seq(Seq(S)), NEW last \in Seq(S)
    PROVE  FlattenSeq(Append(seqs, last)) = FlattenSeq(seqs) \o last
  <1> DEFINE more == Append(seqs, last)
             N == Len(seqs)
  <1>1. /\ more \in Seq(Seq(S)) /\ Len(more) = N + 1 /\ N \in Nat /\ more # <<>>
        /\ more[N + 1] = last /\ \A k \in 1 .. N : more[k] = seqs[k]
    BY AppendProperties, LenProperties
  <1> HIDE DEF more
  <1>2. PICK g : /\ g[1] = more[1]
                 /\ \A n \in 1 .. Len(more) - 1 : g[n + 1] = g[n] \o more[n + 1]
                 /\ FlattenSeq(more) = g[Len(more)]
    BY <1>1, FlattenTurns
  <1>3. CASE seqs = <<>>
    <2>1. N = 0 /\ FlattenSeq(seqs) = <<>>
      BY <1>3 DEF FlattenSeq
    <2>2. FlattenSeq(more) = last
      BY <1>1, <1>2, <2>1
    <2> QED
      BY <2>1, <2>2 DEF more
  <1>4. CASE seqs # <<>>
    <2>1. PICK f : /\ f[1] = seqs[1]
                   /\ \A n \in 1 .. N - 1 : f[n + 1] = f[n] \o seqs[n + 1]
                   /\ FlattenSeq(seqs) = f[N]
      BY <1>4, FlattenTurns
    <2>2. N # 0
      BY <1>4, EmptySeq
    <2> DEFINE T == {n \in Nat : n \in 1 .. N => g[n] = f[n]}
    <2>3. 0 \in T
      OBVIOUS
    <2>4. ASSUME NEW n \in Nat, n \in T
          PROVE  n + 1 \in T
      <3>1. CASE n = 0
        BY <1>1, <1>2, <2>1, <2>2, <3>1
      <3>2. CASE n # 0 /\ n + 1 \in 1 .. N
        <4>1. n \in 1 .. N - 1 /\ n \in 1 .. N /\ n \in 1 .. Len(more) - 1 /\ n + 1 \in Nat
          BY <1>1, <3>2
        <4>2. f[n + 1] = f[n] \o seqs[n + 1] /\ g[n + 1] = g[n] \o more[n + 1]
          BY <1>2, <2>1, <4>1
        <4>3. f[n] = g[n] /\ seqs[n + 1] = more[n + 1]
          BY <1>1, <2>4, <3>2, <4>1
        <4>4. g[n + 1] = f[n + 1]
          BY <4>2, <4>3
        <4> HIDE DEF N
        <4> QED
          BY <4>1, <4>4
      <3>3. CASE n + 1 \notin 1 .. N
        BY <3>3
      <3> QED
        BY <3>1, <3>2, <3>3
    <2>5. N \in T /\ N \in 1 .. N
      <3>1. N \in 1 .. N
        BY <1>1, <2>2
      <3> HIDE DEF T, N
      <3> QED
        BY <1>1, <2>3, <2>4, <3>1, NatSetInduction
    <2>6. g[N] = f[N]
      BY <2>5
    <2>7. N \in 1 .. Len(more) - 1
      BY <1>1, <2>2
    <2>8. g[N + 1] = g[N] \o more[N + 1]
      BY <1>2, <2>7
    <2> QED
      BY <1>1, <1>2, <2>1, <2>6, <2>8 DEF more
  <1> QED
    BY <1>3, <1>4

\* Of lists numbered from 1: those up to the next number, together.
LEMMA FlattenUpTo ==
    ASSUME NEW S, NEW n \in Nat, NEW f, \A i \in 1 .. n + 1 : f[i] \in Seq(S)
    PROVE  /\ FlattenSeq([i \in 1 .. n |-> f[i]]) \in Seq(S)
           /\ FlattenSeq([i \in 1 .. n + 1 |-> f[i]]) = FlattenSeq([i \in 1 .. n |-> f[i]]) \o f[n + 1]
  <1> DEFINE up == [i \in 1 .. n |-> f[i]]
             next == [i \in 1 .. n + 1 |-> f[i]]
  <1>1. up \in Seq(Seq(S)) /\ Len(up) = n
    OBVIOUS
  <1>2. f[n + 1] \in Seq(S)
    OBVIOUS
  <1>3. next = Append(up, f[n + 1])
    OBVIOUS
  <1> HIDE DEF up, next
  <1>4. FlattenSeq(up) \in Seq(S) /\ FlattenSeq(Append(up, f[n + 1])) = FlattenSeq(up) \o f[n + 1]
    BY <1>1, <1>2, FlattenType, FlattenNext
  <1> QED
    BY <1>3, <1>4 DEF up, next
-----------------------------------------------------------------------------
(* Sums over finite functions, in whatever order their values are taken.    *)

Some(s) == CHOOSE x \in s : TRUE

\* w[s] is the sum of the values of f on s, taken one by one.
SumsUp(w, f) ==
    \A s \in SUBSET DOMAIN f : w[s] = IF s = {} THEN 0 ELSE f[Some(s)] + w[s \ {Some(s)}]

LEMMA SumTurns ==
    ASSUME NEW f, IsFiniteSet(DOMAIN f)
    PROVE  \E w : SumsUp(w, f) /\ SumFunction(f) = w[DOMAIN f]
  <1> DEFINE D == DOMAIN f
             Sets(n) == {s \in SUBSET D : Cardinality(s) <= n}
             Turn(h, n) == h = [s \in Sets(n) |-> IF s = {} THEN 0 ELSE f[Some(s)] + h[s \ {Some(s)}]]
             T == {n \in Nat : \E h : Turn(h, n)}
  <1>1. \A s \in SUBSET D :
            /\ Cardinality(s) \in Nat /\ Cardinality(s) <= Cardinality(D)
            /\ s # {} => /\ Some(s) \in s /\ s \ {Some(s)} \in SUBSET D /\ Cardinality(s) >= 1
                         /\ Cardinality(s \ {Some(s)}) = Cardinality(s) - 1
    <2> TAKE s \in SUBSET D
    <2>1. IsFiniteSet(s) /\ Cardinality(s) <= Cardinality(D) /\ Cardinality(s) \in Nat
      BY FS_Subset, FS_CardinalityType
    <2>2. ASSUME s # {}
          PROVE  /\ Some(s) \in s /\ s \ {Some(s)} \in SUBSET D /\ Cardinality(s) >= 1
                 /\ Cardinality(s \ {Some(s)}) = Cardinality(s) - 1
      <3>1. Some(s) \in s
        BY <2>2 DEF Some
      <3>2. Cardinality(s \ {Some(s)}) = Cardinality(s) - 1
        BY <2>1, <3>1, FS_RemoveElement
      <3>3. Cardinality(s) # 0
        BY <2>1, <2>2, FS_EmptySet
      <3> QED
        BY <2>1, <3>1, <3>2, <3>3
    <2> QED
      BY <2>1, <2>2
  <1>2. 0 \in T
    <2> DEFINE h == [s \in Sets(0) |-> 0]
    <2>1. \A s \in Sets(0) : s = {}
      <3> SUFFICES ASSUME NEW s \in SUBSET D, Cardinality(s) <= 0, s # {} PROVE FALSE
        OBVIOUS
      <3>1. Cardinality(s) \in Nat /\ Cardinality(s) >= 1
        BY <1>1
      <3> QED
        BY <3>1
    <2>2. Turn(h, 0)
      BY <2>1
    <2> QED
      BY <2>2
  <1>3. ASSUME NEW n \in Nat, n \in T
        PROVE  n + 1 \in T
    <2>1. PICK h : Turn(h, n)
      BY <1>3
    <2> DEFINE value(s) == IF s = {} THEN 0 ELSE f[Some(s)] + h[s \ {Some(s)}]
               g == [s \in Sets(n + 1) |-> value(s)]
    <2>2. \A s \in Sets(n) : s \in Sets(n + 1) /\ h[s] = value(s)
      <3>1. \A s \in Sets(n) : h[s] = value(s)
        <4> HIDE DEF Sets
        <4> QED
          BY <2>1
      <3>2. \A s \in SUBSET D : Cardinality(s) \in Nat
        BY <1>1
      <3>3. \A s \in Sets(n) : s \in Sets(n + 1)
        BY <3>2
      <3> QED
        BY <3>1, <3>3
    <2>3. \A s \in Sets(n) : g[s] = h[s]
      BY <2>2
    <2>4. \A s \in Sets(n + 1) : s # {} => s \ {Some(s)} \in Sets(n)
      BY <1>1
    <2>5. \A s \in Sets(n + 1) : g[s] = IF s = {} THEN 0 ELSE f[Some(s)] + g[s \ {Some(s)}]
      BY <2>3, <2>4
    <2>6. g = [s \in Sets(n + 1) |-> g[s]]
      OBVIOUS
    <2>7. Turn(g, n + 1)
      <3> HIDE DEF g, Sets
      <3> QED
        BY <2>5, <2>6
    <2>8. n + 1 \in Nat /\ \E q : Turn(q, n + 1)
      <3> HIDE DEF Turn, g
      <3> QED
        BY <2>7
    <2> HIDE DEF Turn
    <2> QED
      BY <2>8
  <1> DEFINE N == Cardinality(D)
             W(h) == h = [s \in SUBSET D |-> IF s = {} THEN 0 ELSE f[Some(s)] + h[s \ {Some(s)}]]
  <1>4. \E h : W(h)
    <2>1. N \in Nat
      BY FS_CardinalityType
    <2>2. N \in T
      <3> HIDE DEF T, N
      <3> QED
        BY <1>2, <1>3, <2>1, NatSetInduction
    <2>3. PICK h : Turn(h, N)
      BY <2>2
    <2>4. Sets(N) = SUBSET D
      BY <1>1
    <2>5. W(h)
      <3> HIDE DEF Sets, N
      <3> QED
        BY <2>3, <2>4
    <2> QED
      BY <2>5
  <1> DEFINE w == CHOOSE h : W(h)
  <1>5. W(w)
    BY <1>4
  <1>6. SumFunction(f) = w[D]
    BY DEF SumFunction, SumFunctionOnSet, FoldFunctionOnSet, MapThenFoldSet, Some
  <1> HIDE DEF w
  <1>7. SumsUp(w, f)
    BY <1>5 DEF SumsUp
  <1> QED
    BY <1>6, <1>7
\* Two functions that agree on a finite set have the same sums over its subsets.
LEMMA SumsAgree ==
    ASSUME NEW f, IsFiniteSet(DOMAIN f), NEW g, DOMAIN f \subseteq DOMAIN g,
           \A x \in DOMAIN f : f[x] = g[x], NEW v, SumsUp(v, f), NEW w, SumsUp(w, g),
           NEW s \in SUBSET DOMAIN f
    PROVE  v[s] = w[s]
  <1> DEFINE T == {n \in Nat : \A t \in SUBSET DOMAIN f : Cardinality(t) = n => v[t] = w[t]}
  <1>1. \A t \in SUBSET DOMAIN f :
            /\ Cardinality(t) \in Nat
            /\ IF t = {} THEN v[t] = 0 /\ w[t] = 0
               ELSE /\ t \ {Some(t)} \in SUBSET DOMAIN f /\ Cardinality(t \ {Some(t)}) = Cardinality(t) - 1
                    /\ v[t] = f[Some(t)] + v[t \ {Some(t)}] /\ w[t] = f[Some(t)] + w[t \ {Some(t)}]
    <2> TAKE t \in SUBSET DOMAIN f
    <2>1. IsFiniteSet(t) /\ t \in SUBSET DOMAIN g
      BY FS_Subset
    <2>2. t # {} => Some(t) \in t
      BY DEF Some
    <2> QED
      BY <2>1, <2>2, FS_RemoveElement, FS_CardinalityType DEF SumsUp
  <1>2. 0 \in T
    <2>1. \A t \in SUBSET DOMAIN f : Cardinality(t) = 0 => t = {}
      BY FS_Subset, FS_EmptySet
    <2> QED
      BY <1>1, <2>1
  <1>3. ASSUME NEW n \in Nat, n \in T
        PROVE  n + 1 \in T
    <2> SUFFICES ASSUME NEW t \in SUBSET DOMAIN f, Cardinality(t) = n + 1
                 PROVE  v[t] = w[t]
      OBVIOUS
    <2> DEFINE rest == t \ {Some(t)}
    <2>1. CASE t # {}
      <3>1. rest \in SUBSET DOMAIN f /\ Cardinality(rest) = n
        BY <1>1, <2>1
      <3>2. v[rest] = w[rest]
        <4> HIDE DEF rest
        <4> QED
          BY <1>3, <3>1
      <3> QED
        BY <1>1, <2>1, <3>2
    <2> QED
      BY <1>1, <2>1
  <1> QED
    <2>1. Nat \subseteq T
      <3> HIDE DEF T
      <3> QED
        BY <1>2, <1>3, NatSetInduction
    <2> QED
      BY <1>1, <2>1

\* The value at any element may be the last to be added.
LEMMA SumsAnyOrder ==
    ASSUME NEW f, IsFiniteSet(DOMAIN f), \A x \in DOMAIN f : f[x] \in Int, NEW w, SumsUp(w, f),
           NEW s \in SUBSET DOMAIN f
    PROVE  w[s] \in Int /\ \A x \in s : w[s] = f[x] + w[s \ {x}]
  <1> DEFINE D == DOMAIN f
             Fine(t) == w[t] \in Int /\ \A x \in t : w[t] = f[x] + w[t \ {x}]
             T == {n \in Nat : \A t \in SUBSET D : Cardinality(t) <= n => Fine(t)}
  <1>1. \A t \in SUBSET D : /\ IsFiniteSet(t) /\ Cardinality(t) \in Nat /\ (Cardinality(t) = 0 => t = {})
                            /\ \A x \in t : t \ {x} \in SUBSET D /\ Cardinality(t \ {x}) = Cardinality(t) - 1
    <2> TAKE t \in SUBSET D
    <2>1. IsFiniteSet(t)
      BY FS_Subset
    <2> QED
      BY <2>1, FS_RemoveElement, FS_CardinalityType, FS_EmptySet
  <1>2. \A t \in SUBSET D : /\ t = {} => w[t] = 0
                            /\ t # {} => Some(t) \in t /\ w[t] = f[Some(t)] + w[t \ {Some(t)}]
    BY DEF SumsUp, Some
  <1>3. 0 \in T
    <2> SUFFICES ASSUME NEW t \in SUBSET D, Cardinality(t) <= 0 PROVE Fine(t)
      OBVIOUS
    <2>1. Cardinality(t) = 0
      BY <1>1
    <2>2. t = {}
      BY <1>1, <2>1
    <2>3. w[t] = 0
      BY <1>2, <2>2
    <2> QED
      BY <2>2, <2>3
  <1>4. ASSUME NEW n \in Nat, n \in T
        PROVE  n + 1 \in T
    <2> SUFFICES ASSUME NEW t \in SUBSET D, Cardinality(t) <= n + 1
                 PROVE  Fine(t)
      OBVIOUS
    <2>1. CASE t = {}
      <3>1. w[t] = 0
        BY <1>2, <2>1
      <3> QED
        BY <2>1, <3>1
    <2>2. CASE t # {}
      <3> DEFINE c == Some(t)
      <3>1. c \in t /\ w[t] = f[c] + w[t \ {c}]
        BY <1>2, <2>2
      <3>2. \A u \in SUBSET D : Cardinality(u) <= n => Fine(u)
        BY <1>4
      <3> HIDE DEF c, Fine
      <3>3. \A x \in t : /\ Fine(t \ {x}) /\ f[x] \in Int
                         /\ \A y \in t : y # x => Fine((t \ {x}) \ {y})
        <4> TAKE x \in t
        <4>1. t \ {x} \in SUBSET D /\ Cardinality(t \ {x}) = Cardinality(t) - 1 /\ Cardinality(t) \in Nat
          BY <1>1
        <4>2. Fine(t \ {x})
          BY <3>2, <4>1
        <4>3. ASSUME NEW y \in t, y # x
              PROVE  Fine((t \ {x}) \ {y})
          <5>1. /\ (t \ {x}) \ {y} \in SUBSET D
                /\ Cardinality((t \ {x}) \ {y}) = Cardinality(t \ {x}) - 1
            BY <1>1, <4>1, <4>3
          <5> QED
            BY <3>2, <4>1, <5>1
        <4> QED
          BY <4>2, <4>3
      <3>4. w[t] \in Int
        <4>1. Fine(t \ {c}) /\ f[c] \in Int
          BY <3>1, <3>3
        <4>2. w[t \ {c}] \in Int
          BY <4>1 DEF Fine
        <4> QED
          BY <3>1, <4>1, <4>2
      <3>5. ASSUME NEW x \in t, x # c
            PROVE  w[t] = f[x] + w[t \ {x}]
        <4> DEFINE u == (t \ {c}) \ {x}
        <4>1. w[t \ {c}] = f[x] + w[u]
          BY <3>1, <3>3, <3>5 DEF Fine
        <4>2. u = (t \ {x}) \ {c}
          OBVIOUS
        <4>3. w[t \ {x}] = f[c] + w[(t \ {x}) \ {c}]
          BY <3>1, <3>3, <3>5 DEF Fine
        <4>4. w[u] \in Int /\ f[c] \in Int /\ f[x] \in Int
          BY <3>1, <3>3, <3>5 DEF Fine
        <4> HIDE DEF u
        <4>5. w[t \ {x}] = f[c] + w[u]
          BY <4>2, <4>3
        <4> QED
          BY <3>1, <4>1, <4>4, <4>5
      <3>6. \A x \in t : w[t] = f[x] + w[t \ {x}]
        BY <3>1, <3>5
      <3> QED
        BY <3>4, <3>6 DEF Fine
    <2> QED
      BY <2>1, <2>2
  <1>5. Cardinality(s) \in T
    <2> HIDE DEF T
    <2>1. Cardinality(s) \in Nat
      BY <1>1
    <2> QED
      BY <1>3, <1>4, <2>1, NatSetInduction
  <1>6. Cardinality(s) <= Cardinality(s)
    BY <1>1
  <1> QED
    BY <1>5, <1>6
\* Nothing sums to nothing.
LEMMA SumOfNone ==
    ASSUME NEW f, DOMAIN f = {}
    PROVE  SumFunction(f) = 0
  <1>1. IsFiniteSet(DOMAIN f)
    BY FS_EmptySet
  <1>2. PICK w : SumsUp(w, f) /\ SumFunction(f) = w[DOMAIN f]
    BY <1>1, SumTurns
  <1> QED
    BY <1>2 DEF SumsUp

\* A function that has one more value sums to that value more.
LEMMA SumOfOneMore ==
    ASSUME NEW f, IsFiniteSet(DOMAIN f), NEW x, x \notin DOMAIN f,
           NEW g, DOMAIN g = DOMAIN f \cup {x}, \A y \in DOMAIN f : g[y] = f[y],
           \A y \in DOMAIN g : g[y] \in Int
    PROVE  SumFunction(f) \in Int /\ SumFunction(g) = SumFunction(f) + g[x]
  <1>1. IsFiniteSet(DOMAIN g)
    BY FS_AddElement
  <1>2. PICK v : SumsUp(v, f) /\ SumFunction(f) = v[DOMAIN f]
    BY SumTurns
  <1>3. PICK w : SumsUp(w, g) /\ SumFunction(g) = w[DOMAIN g]
    BY <1>1, SumTurns
  <1>4. v[DOMAIN f] = w[DOMAIN f]
    <2>1. DOMAIN f \in SUBSET DOMAIN f /\ DOMAIN f \subseteq DOMAIN g
      OBVIOUS
    <2>2. \A y \in DOMAIN f : f[y] = g[y]
      OBVIOUS
    <2> QED
      BY <1>2, <1>3, <2>1, <2>2, SumsAgree
  <1>5. w[DOMAIN g] \in Int /\ \A y \in DOMAIN g : w[DOMAIN g] = g[y] + w[DOMAIN g \ {y}]
    <2>1. SumsUp(w, g) /\ IsFiniteSet(DOMAIN g) /\ \A y \in DOMAIN g : g[y] \in Int
      BY <1>1, <1>3
    <2>2. DOMAIN g \in SUBSET DOMAIN g
      OBVIOUS
    <2> QED
      BY <2>1, <2>2, SumsAnyOrder
  <1>6. w[DOMAIN f] \in Int
    <2>1. DOMAIN f \in SUBSET DOMAIN g
      OBVIOUS
    <2> QED
      BY <1>1, <1>3, <2>1, SumsAnyOrder
  <1>7. x \in DOMAIN g /\ DOMAIN g \ {x} = DOMAIN f /\ g[x] \in Int
    OBVIOUS
  <1>8. w[DOMAIN g] = g[x] + w[DOMAIN f]
    BY <1>5, <1>7
  <1> QED
    BY <1>2, <1>3, <1>4, <1>6, <1>7, <1>8
-----------------------------------------------------------------------------
(* AWS's recommendations: what the operators on them give.                  *)

\* The first of some positions is one of them.
LEMMA FirstIsOne ==
    ASSUME NEW positions \in SUBSET Nat, positions # {}
    PROVE  First(positions) \in positions
  BY LeastNumber DEF First

\* Of some numbers up to a bound, one is the largest.
LEMMA LargestNumber ==
    ASSUME NEW n \in Nat, NEW T \in SUBSET (1 .. n), T # {}
    PROVE  \E i \in T : \A j \in T : j <= i
  <1> DEFINE down == {n - i : i \in T}
  <1>1. down \in SUBSET Nat /\ down # {}
    <2>1. \A i \in T : n - i \in Nat
      OBVIOUS
    <2> QED
      BY <2>1
  <1>2. PICK m \in down : \A k \in down : m <= k
    <2> HIDE DEF down
    <2> QED
      BY <1>1, LeastNumber
  <1>3. PICK i \in T : m = n - i
    BY <1>2
  <1>4. \A j \in T : n - j \in down
    OBVIOUS
  <1>5. ASSUME NEW j \in T
        PROVE  j <= i
    <2>1. n - i <= n - j
      BY <1>2, <1>3, <1>4
    <2> QED
      BY <2>1
  <1> QED
    BY <1>5

Target == [co2e: Int, cost: Int]

LEMMA TargetType ==
    ASSUME NEW targets \in Seq(Target), targets # << >>
    PROVE  TargetInstance(targets) \in Target
  <1> DEFINE others == 1 .. Len(targets) - 1
             best == {i \in others : targets[i].cost >= 0 /\ \A j \in others : targets[j].cost <= targets[i].cost}
  <1>1. Len(targets) \in Nat /\ Len(targets) # 0 /\ \A i \in 1 .. Len(targets) : targets[i] \in Target
    BY EmptySeq, LenProperties, ElementOfSeq
  <1>2. CASE best = {}
    <2>1. Len(targets) \in 1 .. Len(targets)
      BY <1>1
    <2> QED
      BY <1>1, <1>2, <2>1 DEF TargetInstance
  <1>3. CASE best # {}
    <2> DEFINE i == CHOOSE i \in best : \A j \in best : j <= i
    <2>1. best \in SUBSET (1 .. Len(targets)) /\ Len(targets) \in Nat
      BY <1>1
    <2>2. \E k \in best : \A j \in best : j <= k
      <3> HIDE DEF best
      <3> QED
        BY <1>3, <2>1, LargestNumber
    <2>3. i \in best
      <3> HIDE DEF best
      <3> QED
        BY <2>2
    <2>4. targets[i] \in Target
      <3> HIDE DEF best, i
      <3> QED
        BY <1>1, <2>1, <2>3
    <2>5. TargetInstance(targets) = targets[i]
      BY <1>3 DEF TargetInstance
    <2> QED
      BY <2>4, <2>5
  <1> QED
    BY <1>2, <1>3

LEMMA FromRightsizingType ==
    ASSUME NEW recs \in Seq(Rightsizing)
    PROVE  FromRightsizing(recs) \in Seq(Saving)
  <1>1. DOMAIN recs = 1 .. Len(recs) /\ Len(recs) \in Nat
    OBVIOUS
  <1>2. ASSUME NEW i \in 1 .. Len(recs)
        PROVE  FromRightsizing(recs)[i] \in Saving
    <2>1. /\ recs[i].resource \in Resources /\ recs[i].now \in Int /\ recs[i].cost \in Int
          /\ recs[i].targets \in Seq(Target)
      <3>1. recs[i] \in Rightsizing
        BY ElementOfSeq
      <3> QED
        BY <3>1 DEF Rightsizing, Target
    <2>2. CASE recs[i].targets = << >>
      BY <1>1, <2>1, <2>2 DEF FromRightsizing, Savings, Saving
    <2>3. CASE recs[i].targets # << >>
      <3> DEFINE t == TargetInstance(recs[i].targets)
      <3>1. t.co2e \in Int /\ t.cost \in Int
        BY <2>1, <2>3, TargetType DEF Target
      <3>2. FromRightsizing(recs)[i] = Savings(recs[i].resource, recs[i].now, t.co2e, t.cost)
        BY <1>1, <1>2, <2>3 DEF FromRightsizing
      <3> HIDE DEF t
      <3> QED
        BY <2>1, <3>1, <3>2 DEF Savings, Saving
    <2> QED
      BY <2>2, <2>3
  <1>3. FromRightsizing(recs) = [i \in 1 .. Len(recs) |-> FromRightsizing(recs)[i]]
    BY <1>1 DEF FromRightsizing
  <1> QED
    <2> DEFINE f == FromRightsizing(recs)
               n == Len(recs)
    <2> HIDE DEF f, n
    <2>1. n \in Nat /\ f = [i \in 1 .. n |-> f[i]] /\ \A i \in 1 .. n : f[i] \in Saving
      BY <1>1, <1>2, <1>3 DEF f, n
    <2>2. f \in Seq(Saving)
      BY <2>1
    <2> QED
      BY <2>2 DEF f

LEMMA FromObjectType ==
    ASSUME NEW object \in [fresh: BOOLEAN, service: STRING, recs: Seq(Finding)]
    PROVE  FromObject(object) \in Seq(Saving)
  <1> DEFINE recs == object.recs
             one(i) == Savings(recs[i].resource, recs[i].now, recs[i].target, recs[i].cost)
             lists == [i \in DOMAIN recs |-> IF recs[i].finding /\ recs[i].saves THEN <<one(i)>> ELSE << >>]
  <1>1. recs \in Seq(Finding)
    OBVIOUS
  <1>2. DOMAIN recs = 1 .. Len(recs) /\ Len(recs) \in Nat
    BY <1>1
  <1>3. \A i \in 1 .. Len(recs) : one(i) \in Saving
    <2> TAKE i \in 1 .. Len(recs)
    <2>1. recs[i] \in Finding
      BY <1>1, ElementOfSeq
    <2> QED
      BY <2>1 DEF Finding, Savings, Saving
  <1>4. \A i \in 1 .. Len(recs) : lists[i] \in Seq(Saving)
    BY <1>2, <1>3
  <1>5. lists \in Seq(Seq(Saving))
    <2>1. lists = [i \in 1 .. Len(recs) |-> lists[i]]
      BY <1>2
    <2> HIDE DEF lists, recs
    <2> QED
      BY <1>2, <1>4, <2>1
  <1>6. FlattenSeq(lists) \in Seq(Saving)
    <2> HIDE DEF lists
    <2> QED
      BY <1>5, FlattenType
  <1>7. FromOptimizer(recs) \in Seq(Saving)
    BY <1>6 DEF FromOptimizer
  <1> QED
    BY <1>7 DEF FromObject
\* One of some positions is kept, and of two the one that saves more carbon.
LEMMA KeptIsBest ==
    ASSUME NEW recs \in Seq(Saving), NEW same \in SUBSET DOMAIN recs, same # {}
    PROVE  /\ \E i \in same : KeptOf(recs, same) = recs[i]
           /\ Cardinality(same) <= 2 => \A j \in same : recs[j].co2e <= KeptOf(recs, same).co2e
  <1> DEFINE one == First(same)
             others == same \ {one}
             two == First(others)
  <1>1. same \in SUBSET Nat /\ others \in SUBSET Nat /\ IsFiniteSet(same)
    <2>1. DOMAIN recs = 1 .. Len(recs) /\ Len(recs) \in Nat
      OBVIOUS
    <2>2. IsFiniteSet(DOMAIN recs)
      BY <2>1, FS_Interval
    <2>3. IsFiniteSet(same)
      BY <2>2, FS_Subset
    <2>4. same \in SUBSET Nat
      BY <2>1
    <2> HIDE DEF one
    <2> QED
      BY <2>3, <2>4
  <1>2. \A i \in same : recs[i].co2e \in Int
    <2> TAKE i \in same
    <2>1. recs[i] \in Saving
      BY ElementOfSeq
    <2> QED
      BY <2>1 DEF Saving
  <1>3. one \in same /\ (others # {} => two \in others)
    BY <1>1, FirstIsOne
  <1> HIDE DEF one, two
  <1>4. CASE same = {one}
    <2>1. KeptOf(recs, same) = recs[one]
      BY <1>4 DEF KeptOf, one
    <2> QED
      BY <1>2, <1>3, <1>4, <2>1
  <1>5. CASE same # {one}
    <2>1. others # {}
      BY <1>3, <1>5
    <2>2. KeptOf(recs, same) = HighestSavings(<<recs[one], recs[two]>>)
      BY <1>5 DEF KeptOf, one, two
    <2>3. KeptOf(recs, same) \in {recs[one], recs[two]}
      BY <2>2 DEF HighestSavings
    <2>4. recs[one].co2e <= KeptOf(recs, same).co2e /\ recs[two].co2e <= KeptOf(recs, same).co2e
      <3>1. recs[one].co2e \in Int /\ recs[two].co2e \in Int
        BY <1>2, <1>3, <2>1
      <3> QED
        BY <2>2, <3>1 DEF HighestSavings
    <2>5. ASSUME Cardinality(same) <= 2
          PROVE  \A j \in same : j = one \/ j = two
      <3>1. IsFiniteSet(others) /\ Cardinality(others) = Cardinality(same) - 1
        BY <1>1, <1>3, FS_RemoveElement
      <3>2. Cardinality(others) \in Nat /\ Cardinality(others) # 0
        BY <2>1, <3>1, FS_CardinalityType, FS_EmptySet
      <3>3. Cardinality(others) = 1
        BY <1>1, <2>5, <3>1, <3>2, FS_CardinalityType
      <3>4. \E x : others = {x}
        BY <3>1, <3>3, FS_Singleton
      <3> QED
        BY <1>3, <2>1, <3>4
    <2> QED
      BY <1>3, <2>1, <2>3, <2>4, <2>5
  <1> QED
    BY <1>4, <1>5

\* The list of a finite set has each of its elements once.
LEMMA ListOfSet ==
    ASSUME NEW s, IsFiniteSet(s)
    PROVE  /\ SetToSeq(s) \in [1 .. Cardinality(s) -> s]
           /\ \A i, j \in 1 .. Cardinality(s) : SetToSeq(s)[i] = SetToSeq(s)[j] => i = j
           /\ \A x \in s : \E i \in 1 .. Cardinality(s) : SetToSeq(s)[i] = x
  <1> DEFINE n == Cardinality(s)
             list == SetToSeq(s)
  <1>1. n \in Nat /\ \E f : f \in Bijection(1 .. n, s)
    BY FS_CardinalityType DEF ExistsBijection
  <1>2. \E f \in [1 .. n -> s] : IsInjective(f)
    BY <1>1 DEF Bijection, Injection
  <1>3. list \in [1 .. n -> s] /\ IsInjective(list)
    BY <1>2 DEF SetToSeq
  <1> HIDE DEF list
  <1>4. list \in Injection(1 .. n, s)
    BY <1>3 DEF Injection
  <1>5. Cardinality(1 .. n) = n
    BY <1>1, FS_Interval
  <1>6. list \in Surjection(1 .. n, s)
    <2> HIDE DEF n
    <2>1. Cardinality(1 .. n) = Cardinality(s)
      BY <1>5 DEF n
    <2> QED
      BY <1>4, <2>1, FS_Injection
  <1>7. \A x \in s : \E i \in 1 .. n : list[i] = x
    BY <1>6 DEF Surjection
  <1>8. \A i, j \in 1 .. n : list[i] = list[j] => i = j
    BY <1>3 DEF IsInjective
  <1> QED
    BY <1>3, <1>7, <1>8 DEF list

(* Of recommendations for some resources, one is kept for each resource. *)
LEMMA UniquesOfEach ==
    ASSUME NEW recs \in Seq(Saving)
    PROVE  LET kept == UniquesWithHighestSavings(recs)
           IN /\ kept \in Seq(Saving)
              /\ \A i \in DOMAIN kept :
                    /\ \E j \in DOMAIN recs : kept[i].resource = recs[j].resource
                    /\ kept[i] = KeptOf(recs, ForResource(recs, kept[i].resource))
                    /\ \A j \in DOMAIN kept : kept[j].resource = kept[i].resource => j = i
              /\ \A j \in DOMAIN recs : \E i \in DOMAIN kept : kept[i].resource = recs[j].resource
  <1> DEFINE kept == UniquesWithHighestSavings(recs)
             names == {recs[i].resource : i \in DOMAIN recs}
             list == SetToSeq(names)
             n == Cardinality(names)
  <1>1. DOMAIN recs = 1 .. Len(recs) /\ Len(recs) \in Nat /\ \A i \in DOMAIN recs : recs[i] \in Saving
    BY ElementOfSeq, LenProperties
  <1>2. IsFiniteSet(names)
    <2> DEFINE f == [i \in DOMAIN recs |-> recs[i].resource]
    <2>1. f \in Surjection(DOMAIN recs, names)
      BY DEF Surjection
    <2>2. IsFiniteSet(DOMAIN recs)
      BY <1>1, FS_Interval
    <2> HIDE DEF f, names
    <2> QED
      BY <2>1, <2>2, FS_Surjection
  <1>3. /\ list \in [1 .. n -> names] /\ n \in Nat
        /\ \A i, j \in 1 .. n : list[i] = list[j] => i = j
        /\ \A x \in names : \E i \in 1 .. n : list[i] = x
    <2> HIDE DEF names
    <2> QED
      BY <1>2, ListOfSet, FS_CardinalityType
  <1>4. kept = [i \in 1 .. n |-> KeptOf(recs, ForResource(recs, list[i]))]
    BY <1>3 DEF UniquesWithHighestSavings
  <1>5. ASSUME NEW i \in 1 .. n
        PROVE  \E j \in DOMAIN recs : kept[i] = recs[j] /\ recs[j].resource = list[i]
    <2> DEFINE same == ForResource(recs, list[i])
    <2>1. list[i] \in names
      BY <1>3
    <2>2. same \in SUBSET DOMAIN recs /\ same # {}
      BY <2>1 DEF ForResource
    <2>3. \A j \in same : recs[j].resource = list[i]
      BY DEF ForResource
    <2>4. kept[i] = KeptOf(recs, same)
      BY <1>4
    <2> HIDE DEF same, kept
    <2>5. PICK j \in same : KeptOf(recs, same) = recs[j]
      BY <2>2, KeptIsBest
    <2> QED
      BY <2>2, <2>3, <2>4, <2>5
  <1>6. \A i \in 1 .. n : /\ kept[i] \in Saving /\ kept[i].resource = list[i]
                          /\ kept[i] = KeptOf(recs, ForResource(recs, list[i]))
    <2> TAKE i \in 1 .. n
    <2>1. PICK j \in DOMAIN recs : kept[i] = recs[j] /\ recs[j].resource = list[i]
      BY <1>5
    <2>2. kept[i] = KeptOf(recs, ForResource(recs, list[i]))
      BY <1>4
    <2> HIDE DEF kept
    <2> QED
      BY <1>1, <2>1, <2>2
  <1>7. DOMAIN kept = 1 .. n /\ kept = [i \in 1 .. n |-> kept[i]]
    BY <1>4
  <1> HIDE DEF kept, list, n
  <1>8. kept \in Seq(Saving)
    <2>1. n \in Nat
      BY <1>3
    <2>2. \A i \in 1 .. n : kept[i] \in Saving
      BY <1>6
    <2> QED
      BY <1>7, <2>1, <2>2
  <1>9. \A i \in 1 .. n : \E j \in DOMAIN recs : kept[i].resource = recs[j].resource
    BY <1>5
  <1>10. \A j \in DOMAIN recs : \E i \in 1 .. n : kept[i].resource = recs[j].resource
    <2> TAKE j \in DOMAIN recs
    <2>1. recs[j].resource \in names
      OBVIOUS
    <2>2. PICK i \in 1 .. n : list[i] = recs[j].resource
      BY <1>3, <2>1
    <2>3. kept[i].resource = list[i]
      BY <1>6
    <2> QED
      BY <2>2, <2>3
  <1>11. \A i \in 1 .. n : /\ kept[i] = KeptOf(recs, ForResource(recs, kept[i].resource))
                           /\ \A j \in 1 .. n : kept[j].resource = kept[i].resource => j = i
    BY <1>3, <1>6
  <1> QED
    BY <1>7, <1>8, <1>9, <1>10, <1>11 DEF kept
-----------------------------------------------------------------------------
(* AWS's recommendations: what is collected are those of the exports gone   *)
(* through, and after them those of the pages read.                         *)

ObjectLists == [i \in DOMAIN BucketObjects |-> FromObject(BucketObjects[i])]
PageLists == [i \in DOMAIN RightsizingPages |-> FromRightsizing(RightsizingPages[i])]

UpTo(lists, n) == FlattenSeq([i \in 1 .. n |-> lists[i]])

OptimizerPart == IF recService = "All" THEN FlattenSeq(ObjectLists) ELSE << >>

AwsInv ==
    /\ awsRecPc \in {"idle", "list"} => objectsRead = 0 /\ rightsizing = 0 /\ awsRecs = << >>
    /\ awsRecPc \in {"list", "objects"} => recService # "Rightsizing"
    /\ awsRecPc = "objects" => rightsizing = 0 /\ awsRecs = UpTo(ObjectLists, objectsRead)
    /\ awsRecPc = "pages" =>
          /\ recService # "ComputeOptimizer" /\ rightsizing < Len(RightsizingPages)
          /\ awsRecs = OptimizerPart \o UpTo(PageLists, rightsizing)
    /\ awsRecPc = "done" =>
          awsRecs = IF recService = "All" THEN UniquesWithHighestSavings(Collected) ELSE Collected

\* The variables of AWS's recommendations change by the steps of getRecommendations.
LEMMA AwsRecMoves ==
    ASSUME [Next]_vars
    PROVE  AwsRecBegin \/ AwsRecStep \/ UNCHANGED awsRecVars
  BY DEF Next, RecNext, RecCall, RecBegin, AccountStep, AdvisorAnswers, RecStageEnds, AwsRecs, GcpRec,
         vars, recVars, awsRecVars

LEMMA ListsTyped ==
    /\ Len(BucketObjects) \in Nat /\ Len(RightsizingPages) \in Nat \ {0}
    /\ DOMAIN BucketObjects = 1 .. Len(BucketObjects)
    /\ DOMAIN RightsizingPages = 1 .. Len(RightsizingPages)
    /\ \A i \in 1 .. Len(BucketObjects) : ObjectLists[i] \in Seq(Saving)
    /\ \A i \in 1 .. Len(RightsizingPages) : PageLists[i] \in Seq(Saving)
  <1>1. /\ BucketObjects \in Seq([fresh: BOOLEAN, service: STRING, recs: Seq(Finding)])
        /\ RightsizingPages \in Seq(Seq(Rightsizing)) /\ RightsizingPages # << >>
    BY AwsRecommendationsAssumption
  <1>2. /\ Len(BucketObjects) \in Nat /\ Len(RightsizingPages) \in Nat \ {0}
        /\ DOMAIN BucketObjects = 1 .. Len(BucketObjects)
        /\ DOMAIN RightsizingPages = 1 .. Len(RightsizingPages)
    BY <1>1, EmptySeq, LenProperties
  <1>3. \A i \in 1 .. Len(BucketObjects) : ObjectLists[i] \in Seq(Saving)
    <2> TAKE i \in 1 .. Len(BucketObjects)
    <2>1. BucketObjects[i] \in [fresh: BOOLEAN, service: STRING, recs: Seq(Finding)]
      BY <1>1, ElementOfSeq
    <2>2. FromObject(BucketObjects[i]) \in Seq(Saving)
      BY <2>1, FromObjectType
    <2> QED
      BY <1>2, <2>2 DEF ObjectLists
  <1>4. \A i \in 1 .. Len(RightsizingPages) : PageLists[i] \in Seq(Saving)
    <2> TAKE i \in 1 .. Len(RightsizingPages)
    <2>1. RightsizingPages[i] \in Seq(Rightsizing)
      BY <1>1, ElementOfSeq
    <2>2. FromRightsizing(RightsizingPages[i]) \in Seq(Saving)
      BY <2>1, FromRightsizingType
    <2> QED
      BY <1>2, <2>2 DEF PageLists
  <1> QED
    BY <1>2, <1>3, <1>4

\* Nothing is collected from no list, and one list more is added at the end.
LEMMA UpToNone ==
    ASSUME NEW lists
    PROVE  UpTo(lists, 0) = << >>
  <1>1. [i \in 1 .. 0 |-> lists[i]] = << >>
    OBVIOUS
  <1> QED
    BY <1>1 DEF UpTo, FlattenSeq

LEMMA UpToNext ==
    ASSUME NEW lists, NEW n \in Nat, \A i \in 1 .. n : lists[i] \in Seq(Saving),
           NEW k \in 0 .. n
    PROVE  /\ UpTo(lists, k) \in Seq(Saving)
           /\ k < n => UpTo(lists, k + 1) = UpTo(lists, k) \o lists[k + 1]
  <1>1. CASE k < n
    <2>1. k \in Nat /\ \A i \in 1 .. k + 1 : lists[i] \in Seq(Saving)
      BY <1>1
    <2> QED
      BY <2>1, FlattenUpTo DEF UpTo
  <1>2. CASE k = n
    <2> DEFINE all == [i \in 1 .. n |-> lists[i]]
    <2>1. all \in Seq(Seq(Saving))
      OBVIOUS
    <2> HIDE DEF all
    <2>2. FlattenSeq(all) \in Seq(Saving)
      BY <2>1, FlattenType
    <2> QED
      BY <1>2, <2>2 DEF UpTo, all
  <1> QED
    BY <1>1, <1>2

\* What is collected in the end, in these terms.
LEMMA CollectedParts ==
    /\ FlattenSeq(ObjectLists) = UpTo(ObjectLists, Len(BucketObjects))
    /\ FlattenSeq(PageLists) = UpTo(PageLists, Len(RightsizingPages))
    /\ FlattenSeq(ObjectLists) \in Seq(Saving) /\ FlattenSeq(PageLists) \in Seq(Saving)
    /\ recService = "Rightsizing" => Collected = FlattenSeq(PageLists)
    /\ recService = "ComputeOptimizer" => Collected = FlattenSeq(ObjectLists)
    /\ recService = "All" => Collected = FlattenSeq(ObjectLists) \o FlattenSeq(PageLists)
  <1>1. FlattenSeq(ObjectLists) = UpTo(ObjectLists, Len(BucketObjects))
    <2>1. ObjectLists = [i \in 1 .. Len(BucketObjects) |-> ObjectLists[i]]
      BY ListsTyped DEF ObjectLists
    <2> QED
      BY <2>1 DEF UpTo
  <1>2. FlattenSeq(PageLists) = UpTo(PageLists, Len(RightsizingPages))
    <2>1. PageLists = [i \in 1 .. Len(RightsizingPages) |-> PageLists[i]]
      BY ListsTyped DEF PageLists
    <2> QED
      BY <2>1 DEF UpTo
  <1>3. UpTo(ObjectLists, Len(BucketObjects)) \in Seq(Saving)
    <2> DEFINE n == Len(BucketObjects)
    <2>1. n \in Nat /\ n \in 0 .. n /\ \A i \in 1 .. n : ObjectLists[i] \in Seq(Saving)
      BY ListsTyped
    <2> HIDE DEF n
    <2>2. UpTo(ObjectLists, n) \in Seq(Saving)
      BY <2>1, UpToNext
    <2> QED
      BY <2>2 DEF n
  <1>4. UpTo(PageLists, Len(RightsizingPages)) \in Seq(Saving)
    <2> DEFINE n == Len(RightsizingPages)
    <2>1. n \in Nat /\ n \in 0 .. n /\ \A i \in 1 .. n : PageLists[i] \in Seq(Saving)
      BY ListsTyped
    <2> HIDE DEF n
    <2>2. UpTo(PageLists, n) \in Seq(Saving)
      BY <2>1, UpToNext
    <2> QED
      BY <2>2 DEF n
  <1>5. /\ recService = "Rightsizing" => Collected = FlattenSeq(PageLists)
        /\ recService = "ComputeOptimizer" => Collected = FlattenSeq(ObjectLists)
        /\ recService = "All" => Collected = FlattenSeq(ObjectLists) \o FlattenSeq(PageLists)
    BY DEF Collected, ObjectLists, PageLists
  <1> QED
    BY <1>1, <1>2, <1>3, <1>4, <1>5

LEMMA CollectedType ==
    ASSUME recService \in Services
    PROVE  Collected \in Seq(Saving) /\ UniquesWithHighestSavings(Collected) \in Seq(Saving)
  <1>1. Collected \in Seq(Saving)
    BY CollectedParts, ConcatProperties DEF Services
  <1> QED
    BY <1>1, UniquesOfEach
\* Every step of the call keeps what is collected typed and so.
LEMMA AwsRecStart ==
    ASSUME Init
    PROVE  AwsRecTypeOK /\ AwsInv
  <1>1. /\ awsRecPc = "idle" /\ recService \in Services
        /\ objectsRead = 0 /\ rightsizing = 0 /\ awsRecs = << >>
    BY DEF Init, RecInit, AwsRecInit
  <1>2. 0 \in 0 .. Len(BucketObjects) /\ 0 \in 0 .. Len(RightsizingPages) /\ awsRecs \in Seq(Saving)
    BY <1>1, ListsTyped
  <1> QED
    BY <1>1, <1>2 DEF AwsRecTypeOK, AwsInv

\* The answer is what was collected, or of that one recommendation for each resource.
LEMMA AnswerStep ==
    ASSUME AwsRecTypeOK, NEW recs, recs = Collected, AwsRecAnswer(recs), UNCHANGED <<recService, objectsRead>>,
           rightsizing' \in 0 .. Len(RightsizingPages)
    PROVE  AwsRecTypeOK' /\ AwsInv'
  <1>1. Collected' = Collected
    BY DEF Collected
  <1>2. awsRecPc' = "done"
    BY DEF AwsRecAnswer
  <1>3. awsRecs' = IF recService = "All" THEN UniquesWithHighestSavings(Collected) ELSE Collected
    BY DEF AwsRecAnswer
  <1>4. awsRecs' \in Seq(Saving)
    BY <1>3, CollectedType DEF AwsRecTypeOK
  <1>5. AwsRecTypeOK'
    BY <1>2, <1>4 DEF AwsRecTypeOK
  <1>6. AwsInv'
    BY <1>1, <1>2, <1>3 DEF AwsInv
  <1> QED
    BY <1>5, <1>6

LEMMA ObjectStep ==
    ASSUME AwsRecTypeOK, AwsInv, ReadObject
    PROVE  AwsRecTypeOK' /\ AwsInv'
  <1> DEFINE n == Len(BucketObjects)
             k == objectsRead
  <1>1. /\ awsRecPc = "objects" /\ k < n /\ k' = k + 1 /\ UNCHANGED <<awsRecPc, recService, rightsizing>>
        /\ awsRecs' = awsRecs \o FromObject(BucketObjects[k + 1])
    BY DEF ReadObject
  <1>2. n \in Nat /\ k \in 0 .. n /\ k + 1 \in 1 .. n /\ k + 1 \in 0 .. n
    BY <1>1, ListsTyped DEF AwsRecTypeOK
  <1>3. FromObject(BucketObjects[k + 1]) = ObjectLists[k + 1] /\ \A i \in 1 .. n : ObjectLists[i] \in Seq(Saving)
    BY <1>2, ListsTyped DEF ObjectLists
  <1>4. UpTo(ObjectLists, k + 1) = UpTo(ObjectLists, k) \o ObjectLists[k + 1]
    <2> HIDE DEF k, n
    <2> QED
      BY <1>1, <1>2, <1>3, UpToNext
  <1>5. UpTo(ObjectLists, k + 1) \in Seq(Saving)
    <2> DEFINE m == k + 1
    <2>1. m \in 0 .. n
      BY <1>2
    <2> HIDE DEF m, n
    <2>2. UpTo(ObjectLists, m) \in Seq(Saving)
      BY <1>2, <1>3, <2>1, UpToNext
    <2> QED
      BY <2>2 DEF m
  <1>6. awsRecs' = UpTo(ObjectLists, k')
    BY <1>1, <1>3, <1>4 DEF AwsInv
  <1>7. AwsRecTypeOK'
    BY <1>1, <1>2, <1>5, <1>6 DEF AwsRecTypeOK
  <1>8. AwsInv'
    BY <1>1, <1>6 DEF AwsInv
  <1> QED
    BY <1>7, <1>8

LEMMA ObjectsDoneStep ==
    ASSUME AwsRecTypeOK, AwsInv, ObjectsDone
    PROVE  AwsRecTypeOK' /\ AwsInv'
  <1>1. /\ awsRecPc = "objects" /\ UNCHANGED <<recService, objectsRead, rightsizing>>
        /\ recService \in {"ComputeOptimizer", "All"} /\ rightsizing = 0
        /\ awsRecs = FlattenSeq(ObjectLists)
    BY CollectedParts DEF ObjectsDone, AwsInv, AwsRecTypeOK, Services
  <1>2. CASE recService = "ComputeOptimizer"
    <2>1. awsRecs = Collected /\ AwsRecAnswer(awsRecs)
      BY <1>1, <1>2, CollectedParts DEF ObjectsDone
    <2>2. rightsizing' \in 0 .. Len(RightsizingPages)
      BY <1>1 DEF AwsRecTypeOK
    <2> QED
      BY <1>1, <2>1, <2>2, AnswerStep
  <1>3. CASE recService = "All"
    <2>1. awsRecPc' = "pages" /\ UNCHANGED awsRecs
      BY <1>1, <1>3 DEF ObjectsDone
    <2>2. FlattenSeq(ObjectLists) \o << >> = FlattenSeq(ObjectLists)
      BY CollectedParts, ConcatEmptySeq
    <2>3. awsRecs' = OptimizerPart' \o UpTo(PageLists, rightsizing')
      BY <1>1, <1>3, <2>1, <2>2, UpToNone DEF OptimizerPart
    <2>4. 0 < Len(RightsizingPages)
      BY ListsTyped
    <2>5. AwsInv'
      BY <1>1, <1>3, <2>1, <2>3, <2>4 DEF AwsInv
    <2> QED
      BY <1>1, <2>1, <2>5 DEF AwsRecTypeOK
  <1> QED
    BY <1>1, <1>2, <1>3

LEMMA PageStep ==
    ASSUME AwsRecTypeOK, AwsInv, ReadPage
    PROVE  AwsRecTypeOK' /\ AwsInv'
  <1> DEFINE n == Len(RightsizingPages)
             k == rightsizing
             recs == awsRecs \o FromRightsizing(RightsizingPages[k + 1])
  <1>1. /\ awsRecPc = "pages" /\ k' = k + 1 /\ UNCHANGED <<recService, objectsRead>>
        /\ IF k + 1 = n THEN AwsRecAnswer(recs) ELSE awsRecs' = recs /\ UNCHANGED awsRecPc
    BY DEF ReadPage
  <1>2. k < n /\ awsRecs = OptimizerPart \o UpTo(PageLists, k) /\ recService \in {"Rightsizing", "All"}
    BY <1>1 DEF AwsInv, AwsRecTypeOK, Services
  <1>3. n \in Nat /\ k \in 0 .. n /\ k + 1 \in 1 .. n /\ k + 1 \in 0 .. n
    BY <1>2, ListsTyped DEF AwsRecTypeOK
  <1>4. FromRightsizing(RightsizingPages[k + 1]) = PageLists[k + 1] /\ \A i \in 1 .. n : PageLists[i] \in Seq(Saving)
    BY <1>3, ListsTyped DEF PageLists
  <1>5. UpTo(PageLists, k + 1) = UpTo(PageLists, k) \o PageLists[k + 1] /\ UpTo(PageLists, k) \in Seq(Saving)
    <2> HIDE DEF k, n
    <2> QED
      BY <1>2, <1>3, <1>4, UpToNext
  <1>6. OptimizerPart \in Seq(Saving) /\ OptimizerPart' = OptimizerPart
    BY <1>1, CollectedParts, EmptySeq DEF OptimizerPart
  <1>7. recs = OptimizerPart \o UpTo(PageLists, k + 1) /\ recs \in Seq(Saving)
    <2> DEFINE a == UpTo(PageLists, k)
               b == PageLists[k + 1]
    <2>1. a \in Seq(Saving) /\ b \in Seq(Saving)
      BY <1>3, <1>4, <1>5
    <2>2. recs = (OptimizerPart \o a) \o b /\ UpTo(PageLists, k + 1) = a \o b
      BY <1>2, <1>4, <1>5
    <2> HIDE DEF a, b, recs
    <2>3. (OptimizerPart \o a) \o b = OptimizerPart \o (a \o b)
      BY <1>6, <2>1, ConcatAssociative
    <2>4. a \o b \in Seq(Saving)
      BY <2>1, ConcatProperties
    <2>5. OptimizerPart \o (a \o b) \in Seq(Saving)
      BY <1>6, <2>4, ConcatProperties
    <2> QED
      BY <2>2, <2>3, <2>5
  <1> HIDE DEF recs
  <1>8. CASE k + 1 = n
    <2>1. recs = OptimizerPart \o FlattenSeq(PageLists)
      BY <1>7, <1>8, CollectedParts
    <2>2. recs = Collected
      <3>1. CASE recService = "All"
        BY <2>1, <3>1, CollectedParts DEF OptimizerPart
      <3>2. CASE recService = "Rightsizing"
        BY <2>1, <3>2, CollectedParts, ConcatEmptySeq DEF OptimizerPart
      <3> QED
        BY <1>2, <3>1, <3>2
    <2>3. rightsizing' \in 0 .. Len(RightsizingPages)
      BY <1>1, <1>3
    <2>4. AwsRecAnswer(recs)
      BY <1>1, <1>8
    <2> QED
      BY <1>1, <2>2, <2>3, <2>4, AnswerStep
  <1>9. CASE k + 1 # n
    <2>1. awsRecs' = recs /\ UNCHANGED awsRecPc
      BY <1>1, <1>9
    <2>2. awsRecs' = OptimizerPart' \o UpTo(PageLists, rightsizing')
      BY <1>1, <1>6, <1>7, <2>1
    <2>3. rightsizing' < Len(RightsizingPages) /\ rightsizing' \in 0 .. Len(RightsizingPages)
      BY <1>1, <1>3, <1>9
    <2>4. AwsInv'
      BY <1>1, <1>2, <2>1, <2>2, <2>3 DEF AwsInv
    <2> QED
      BY <1>1, <1>7, <2>1, <2>3, <2>4 DEF AwsRecTypeOK
  <1> QED
    BY <1>8, <1>9

LEMMA AwsRecommendationsStep ==
    ASSUME AwsRecTypeOK, AwsInv, [Next]_vars
    PROVE  AwsRecTypeOK' /\ AwsInv'
  <1>1. CASE AwsRecBegin
    <2>1. /\ awsRecPc' = IF recService = "Rightsizing" THEN "pages" ELSE "list"
          /\ UNCHANGED <<recService, objectsRead, rightsizing, awsRecs>>
          /\ rightsizing = 0 /\ awsRecs = << >> /\ objectsRead = 0
      BY <1>1 DEF AwsRecBegin, AwsInv
    <2>2. AwsRecTypeOK'
      BY <2>1 DEF AwsRecTypeOK
    <2>3. CASE recService = "Rightsizing"
      <3>1. OptimizerPart' = << >> /\ 0 < Len(RightsizingPages)
        BY <2>1, <2>3, ListsTyped DEF OptimizerPart
      <3>2. awsRecs' = OptimizerPart' \o UpTo(PageLists, rightsizing')
        BY <2>1, <3>1, UpToNone
      <3> QED
        BY <2>1, <2>2, <2>3, <3>1, <3>2 DEF AwsInv
    <2>4. CASE recService # "Rightsizing"
      BY <2>1, <2>2, <2>4 DEF AwsInv
    <2> QED
      BY <2>3, <2>4
  <1>2. CASE AwsRecFails
    BY <1>2 DEF AwsRecFails, AwsRecTypeOK, AwsInv
  <1>3. CASE ListBucketObjects
    <2>1. /\ awsRecPc' = "objects" /\ UNCHANGED <<recService, objectsRead, rightsizing, awsRecs>>
          /\ rightsizing = 0 /\ awsRecs = << >> /\ objectsRead = 0 /\ recService # "Rightsizing"
      BY <1>3 DEF ListBucketObjects, AwsInv
    <2>2. AwsRecTypeOK'
      BY <2>1 DEF AwsRecTypeOK
    <2>3. AwsInv'
      BY <2>1, UpToNone DEF AwsInv
    <2> QED
      BY <2>2, <2>3
  <1>4. CASE UNCHANGED awsRecVars
    <2>1. UNCHANGED <<awsRecPc, recService, objectsRead, rightsizing, awsRecs>>
      BY <1>4 DEF awsRecVars
    <2>2. Collected' = Collected /\ OptimizerPart' = OptimizerPart
      BY <2>1 DEF Collected, OptimizerPart
    <2>3. AwsRecTypeOK'
      BY <2>1 DEF AwsRecTypeOK
    <2>4. AwsInv'
      BY <2>1, <2>2 DEF AwsInv
    <2> QED
      BY <2>3, <2>4
  <1> QED
    BY <1>1, <1>2, <1>3, <1>4, ObjectStep, ObjectsDoneStep, PageStep, AwsRecMoves DEF AwsRecStep, AwsRecAnswers

\* Of what was collected, each resource's best is in the answer.
LEMMA BestIsAnswered ==
    ASSUME AwsRecTypeOK, AwsInv
    PROVE  BestOfBoth
  <1> SUFFICES ASSUME awsRecPc = "done"
               PROVE  /\ {awsRecs[i].resource : i \in DOMAIN awsRecs} = {Collected[i].resource : i \in DOMAIN Collected}
                      /\ recService = "All" =>
                            \A i \in DOMAIN awsRecs :
                               LET same == ForResource(Collected, awsRecs[i].resource)
                               IN /\ ForResource(awsRecs, awsRecs[i].resource) = {i}
                                  /\ Cardinality(same) <= 2 => \A j \in same : Collected[j].co2e <= awsRecs[i].co2e
    BY DEF BestOfBoth
  <1>1. CASE recService # "All"
    BY <1>1 DEF AwsInv
  <1>2. CASE recService = "All"
    <2> DEFINE all == Collected
    <2>1. all \in Seq(Saving) /\ awsRecs = UniquesWithHighestSavings(all)
      BY <1>2, CollectedType DEF AwsInv, AwsRecTypeOK
    <2> HIDE DEF all
    <2>2. /\ \A i \in DOMAIN awsRecs :
                /\ \E j \in DOMAIN all : awsRecs[i].resource = all[j].resource
                /\ awsRecs[i] = KeptOf(all, ForResource(all, awsRecs[i].resource))
                /\ \A j \in DOMAIN awsRecs : awsRecs[j].resource = awsRecs[i].resource => j = i
          /\ \A j \in DOMAIN all : \E i \in DOMAIN awsRecs : awsRecs[i].resource = all[j].resource
      BY <2>1, UniquesOfEach
    <2>3. {awsRecs[i].resource : i \in DOMAIN awsRecs} = {all[i].resource : i \in DOMAIN all}
      BY <2>2
    <2>4. ASSUME NEW i \in DOMAIN awsRecs
          PROVE  /\ ForResource(awsRecs, awsRecs[i].resource) = {i}
                 /\ Cardinality(ForResource(all, awsRecs[i].resource)) <= 2 =>
                       \A j \in ForResource(all, awsRecs[i].resource) : all[j].co2e <= awsRecs[i].co2e
      <3> DEFINE same == ForResource(all, awsRecs[i].resource)
      <3>1. ForResource(awsRecs, awsRecs[i].resource) = {i}
        BY <2>2 DEF ForResource
      <3>2. same \in SUBSET DOMAIN all /\ same # {}
        BY <2>2 DEF ForResource
      <3>3. awsRecs[i] = KeptOf(all, same)
        BY <2>2
      <3> HIDE DEF same
      <3>4. Cardinality(same) <= 2 => \A j \in same : all[j].co2e <= KeptOf(all, same).co2e
        BY <2>1, <3>2, KeptIsBest
      <3> QED
        BY <3>1, <3>3, <3>4 DEF same
    <2> QED
      BY <2>3, <2>4 DEF all
  <1> QED
    BY <1>1, <1>2
-----------------------------------------------------------------------------
(* Google Cloud's recommendations: the totals are the sums over what is     *)
(* known so far, and the addresses of a project come after all it knows.    *)

Settled == {"addresses", "done"}
Known == {r \in DOMAIN gcpSavings : ~r.address}

Costs(known) == [r \in known |-> r.cost]
Energies(known) == [r \in known |-> gcpSavings[r][1]]

\* What SavingsByKnown says of one address.
ByKnown(rec) ==
    \E known \in SUBSET Known :
        /\ KnownOf(rec.project) \subseteq known
        /\ IF SumFunction(Costs(known)) = 0 THEN gcpSavings[rec][1] = 0
           ELSE gcpSavings[rec] = <<rec.cost * SumFunction(Energies(known)), SumFunction(Costs(known))>>

ProjectsInv ==
    /\ gcpRecPc \in {"idle", "zones"} => \A p \in Projects : projectPc[p] \in {"zones", "found", "skipped"}
    /\ gcpRecPc = "done" => \A p \in Projects : projectPc[p] \in {"done", "skipped"}
    /\ \A p \in Projects : projectPc[p] = "done" => Of(p) \subseteq DOMAIN gcpSavings
    /\ \A p \in Projects : projectPc[p] \in Settled => KnownOf(p) \subseteq DOMAIN gcpSavings
    /\ \A rec \in DOMAIN gcpSavings : rec.address => projectPc[rec.project] \in Settled

SavingsInv ==
    /\ IsFiniteSet(DOMAIN gcpSavings)
    /\ recTotals.cost = SumFunction(Costs(Known)) /\ recTotals.kwh = SumFunction(Energies(Known))
    /\ \A rec \in DOMAIN gcpSavings : rec.address => ByKnown(rec)

GcpInv == ProjectsInv /\ SavingsInv

\* The variables of Google Cloud's recommendations change by its own steps.
LEMMA GcpRecMoves ==
    ASSUME [Next]_vars
    PROVE  GcpRecBegin \/ GcpRecStep \/ UNCHANGED gcpRecVars
  BY DEF Next, RecNext, RecCall, RecBegin, AccountStep, AdvisorAnswers, RecStageEnds, AwsRecs, GcpRec,
         vars, recVars, gcpRecVars

\* What is recommended, of a project that is one of those asked.
LEMMA GcpRecFields ==
    ASSUME NEW rec \in GcpRecs
    PROVE  rec.project \in Projects /\ rec.address \in BOOLEAN /\ rec.cost \in Nat /\ rec.kwh \in Int
  BY GcpRecommendationsAssumption

LEMMA GcpRecStart ==
    ASSUME Init
    PROVE  GcpRecTypeOK /\ GcpInv
  <1>1. /\ gcpRecPc = "idle" /\ projectPc = [p \in Projects |-> "zones"]
        /\ listed = [p \in Projects |-> [z \in ComputeZones |-> 0]]
        /\ recommended = {} /\ gcpSavings = [rec \in {} |-> <<0, 1>>]
        /\ recTotals = [cost |-> 0, kwh |-> 0]
    BY DEF Init, RecInit, GcpRecInit
  <1>2. 0 \in 0 .. Recommenders
    BY GcpRecommendationsAssumption
  <1>3. DOMAIN gcpSavings = {} /\ Known = {} /\ IsFiniteSet({})
    BY <1>1, FS_EmptySet DEF Known
  <1>4. GcpRecTypeOK
    BY <1>1, <1>2, <1>3 DEF GcpRecTypeOK
  <1>5. SumFunction(Costs(Known)) = 0 /\ SumFunction(Energies(Known)) = 0
    <2>1. DOMAIN Costs(Known) = {} /\ DOMAIN Energies(Known) = {}
      BY <1>3 DEF Costs, Energies
    <2> QED
      BY <2>1, SumOfNone
  <1>6. SavingsInv
    BY <1>1, <1>3, <1>5 DEF SavingsInv
  <1>7. ProjectsInv
    BY <1>1, <1>3 DEF ProjectsInv, Settled
  <1> QED
    BY <1>4, <1>6, <1>7 DEF GcpInv

\* A step that estimates nothing leaves what was estimated as it was.
LEMMA SavingsKept ==
    ASSUME GcpInv, UNCHANGED <<gcpSavings, recTotals>>,
           \A rec \in DOMAIN gcpSavings : rec.address => KnownOf(rec.project)' = KnownOf(rec.project)
    PROVE  SavingsInv'
  <1>1. Known' = Known
    BY DEF Known
  <1>2. \A known : Energies(known)' = Energies(known)
    BY DEF Energies
  <1>3. ASSUME NEW rec \in DOMAIN gcpSavings, rec.address
        PROVE  ByKnown(rec)'
    <2>1. ByKnown(rec)
      BY <1>3 DEF GcpInv, SavingsInv
    <2>2. KnownOf(rec.project)' = KnownOf(rec.project)
      BY <1>3
    <2>3. PICK known \in SUBSET Known :
              /\ KnownOf(rec.project) \subseteq known
              /\ IF SumFunction(Costs(known)) = 0 THEN gcpSavings[rec][1] = 0
                 ELSE gcpSavings[rec] = <<rec.cost * SumFunction(Energies(known)), SumFunction(Costs(known))>>
      BY <2>1 DEF ByKnown
    <2>4. Energies(known)' = Energies(known)
      BY <1>2
    <2>5. /\ known \in SUBSET Known' /\ KnownOf(rec.project)' \subseteq known
          /\ IF SumFunction(Costs(known)) = 0 THEN gcpSavings'[rec][1] = 0
             ELSE gcpSavings'[rec] = <<rec.cost * SumFunction(Energies(known)'), SumFunction(Costs(known))>>
      BY <1>1, <2>2, <2>3, <2>4
    <2> QED
      BY <2>5 DEF ByKnown, Costs, Energies, SumFunction
  <1> QED
    BY <1>1, <1>2, <1>3 DEF GcpInv, SavingsInv, Costs, Energies
\* One more is estimated: the estimates of the addresses before it stand.
LEMMA OneMoreEstimate ==
    ASSUME GcpRecTypeOK, GcpInv, NEW rec \in recommended, rec \notin DOMAIN gcpSavings,
           NEW value \in Int \X (Nat \ {0}), gcpSavings' = Saved(rec, value), UNCHANGED recommended
    PROVE  /\ DOMAIN gcpSavings' = DOMAIN gcpSavings \cup {rec} /\ IsFiniteSet(DOMAIN gcpSavings')
           /\ gcpSavings'[rec] = value /\ \A r \in DOMAIN gcpSavings : gcpSavings'[r] = gcpSavings[r]
           /\ DOMAIN gcpSavings' \subseteq recommended'
           /\ \A r \in DOMAIN gcpSavings' : gcpSavings'[r] \in Int \X (Nat \ {0})
           /\ \A p \in Projects : Of(p)' = Of(p) /\ KnownOf(p)' = KnownOf(p)
           /\ \A r \in DOMAIN gcpSavings : r.address => ByKnown(r)'
  <1>1. /\ DOMAIN gcpSavings' = DOMAIN gcpSavings \cup {rec}
        /\ gcpSavings'[rec] = value /\ \A r \in DOMAIN gcpSavings : gcpSavings'[r] = gcpSavings[r]
    BY DEF Saved
  <1>2. IsFiniteSet(DOMAIN gcpSavings')
    BY <1>1, FS_AddElement DEF GcpInv, SavingsInv
  <1>3. /\ DOMAIN gcpSavings' \subseteq recommended'
        /\ \A r \in DOMAIN gcpSavings' : gcpSavings'[r] \in Int \X (Nat \ {0})
    BY <1>1 DEF GcpRecTypeOK
  <1>4. \A p : Of(p)' = Of(p) /\ KnownOf(p)' = KnownOf(p)
    BY DEF Of, KnownOf
  <1>5. ASSUME NEW a \in DOMAIN gcpSavings, a.address
        PROVE  ByKnown(a)'
    <2>1. PICK known \in SUBSET Known :
              /\ KnownOf(a.project) \subseteq known
              /\ IF SumFunction(Costs(known)) = 0 THEN gcpSavings[a][1] = 0
                 ELSE gcpSavings[a] = <<a.cost * SumFunction(Energies(known)), SumFunction(Costs(known))>>
      BY <1>5 DEF GcpInv, SavingsInv, ByKnown
    <2>2. known \subseteq DOMAIN gcpSavings /\ known \in SUBSET Known'
      BY <1>1 DEF Known
    <2>3. Energies(known)' = Energies(known)
      BY <1>1, <2>2 DEF Energies
    <2>4. /\ KnownOf(a.project)' \subseteq known
          /\ IF SumFunction(Costs(known)) = 0 THEN gcpSavings'[a][1] = 0
             ELSE gcpSavings'[a] = <<a.cost * SumFunction(Energies(known)'), SumFunction(Costs(known))>>
      BY <1>1, <1>4, <1>5, <2>1, <2>3
    <2> QED
      BY <2>2, <2>4 DEF ByKnown, Costs, Energies, SumFunction
  <1> QED
    BY <1>1, <1>2, <1>3, <1>4, <1>5

\* A recommendation with a known energy adds its cost and its energy to the totals.
LEMMA EstimateStep ==
    ASSUME GcpRecTypeOK, GcpInv, NEW rec \in recommended, NEW kwh \in Int, EstimateRecommendation(rec, kwh)
    PROVE  GcpRecTypeOK' /\ GcpInv'
  <1> DEFINE value == <<kwh, 1>>
  <1>1. /\ rec \notin DOMAIN gcpSavings /\ ~rec.address
        /\ gcpSavings' = Saved(rec, value)
        /\ recTotals' = [cost |-> recTotals.cost + rec.cost, kwh |-> recTotals.kwh + kwh]
        /\ UNCHANGED <<gcpRecPc, projectPc, listed, recommended>>
    BY DEF EstimateRecommendation, Open, KnownOf, Of
  <1>2. rec \in GcpRecs /\ rec.cost \in Nat /\ value \in Int \X (Nat \ {0})
    BY GcpRecFields DEF GcpRecTypeOK
  <1>3. /\ DOMAIN gcpSavings' = DOMAIN gcpSavings \cup {rec} /\ IsFiniteSet(DOMAIN gcpSavings')
        /\ gcpSavings'[rec] = value /\ \A r \in DOMAIN gcpSavings : gcpSavings'[r] = gcpSavings[r]
        /\ DOMAIN gcpSavings' \subseteq recommended'
        /\ \A r \in DOMAIN gcpSavings' : gcpSavings'[r] \in Int \X (Nat \ {0})
        /\ \A p \in Projects : Of(p)' = Of(p) /\ KnownOf(p)' = KnownOf(p)
        /\ \A r \in DOMAIN gcpSavings : r.address => ByKnown(r)'
    <2> HIDE DEF value
    <2> QED
      BY <1>1, <1>2, OneMoreEstimate
  <1>4. recTotals' \in [cost: Nat, kwh: Int]
    BY <1>1, <1>2 DEF GcpRecTypeOK
  <1>5. GcpRecTypeOK'
    BY <1>1, <1>3, <1>4 DEF GcpRecTypeOK
  <1>6. Known' = Known \cup {rec} /\ rec \notin Known /\ Known \subseteq DOMAIN gcpSavings
    BY <1>1, <1>3 DEF Known
  <1>7. IsFiniteSet(Known) /\ Known \subseteq GcpRecs
    BY <1>6, FS_Subset DEF GcpInv, SavingsInv, GcpRecTypeOK
  <1>8. SumFunction(Costs(Known')) = SumFunction(Costs(Known)) + rec.cost
    <2> DEFINE f == Costs(Known)
               g == Costs(Known')
    <2>1. /\ DOMAIN f = Known /\ DOMAIN g = Known \cup {rec} /\ g[rec] = rec.cost
          /\ \A r \in Known : f[r] = r.cost /\ g[r] = r.cost
      BY <1>6 DEF Costs
    <2>2. \A r \in DOMAIN g : g[r] \in Int
      BY <1>2, <1>7, <2>1, GcpRecFields
    <2> HIDE DEF f, g
    <2>3. IsFiniteSet(DOMAIN f) /\ rec \notin DOMAIN f /\ DOMAIN g = DOMAIN f \cup {rec}
      BY <1>6, <1>7, <2>1
    <2>4. \A r \in DOMAIN f : g[r] = f[r]
      BY <2>1
    <2>5. SumFunction(g) = SumFunction(f) + g[rec]
      BY <2>2, <2>3, <2>4, SumOfOneMore
    <2> QED
      BY <2>1, <2>5 DEF f, g
  <1>9. SumFunction(Energies(Known)') = SumFunction(Energies(Known)) + kwh
    <2> DEFINE f == Energies(Known)
               g == Energies(Known)'
    <2>1. /\ DOMAIN f = Known /\ DOMAIN g = Known \cup {rec} /\ g[rec] = kwh
          /\ \A r \in Known : f[r] = gcpSavings[r][1] /\ g[r] = gcpSavings[r][1]
      BY <1>3, <1>6 DEF Energies
    <2>2. \A r \in DOMAIN g : g[r] \in Int
      BY <1>6, <2>1 DEF GcpRecTypeOK
    <2> HIDE DEF f, g
    <2>3. IsFiniteSet(DOMAIN f) /\ rec \notin DOMAIN f /\ DOMAIN g = DOMAIN f \cup {rec}
      BY <1>6, <1>7, <2>1
    <2>4. \A r \in DOMAIN f : g[r] = f[r]
      BY <2>1
    <2>5. SumFunction(g) = SumFunction(f) + g[rec]
      BY <2>2, <2>3, <2>4, SumOfOneMore
    <2> QED
      BY <2>1, <2>5 DEF f, g
  <1>10. /\ recTotals'.cost = SumFunction(Costs(Known'))
         /\ recTotals'.kwh = SumFunction(Energies(Known)')
    BY <1>1, <1>8, <1>9 DEF GcpInv, SavingsInv
  <1>11. SavingsInv'
    BY <1>1, <1>3, <1>10 DEF SavingsInv, Costs, SumFunction
  <1>12. ProjectsInv'
    BY <1>1, <1>3 DEF GcpInv, ProjectsInv
  <1> QED
    BY <1>5, <1>11, <1>12 DEF GcpInv

\* An address is estimated by the totals, when all its project knows is in them.
LEMMA AddressStep ==
    ASSUME GcpRecTypeOK, GcpInv, NEW rec \in recommended, EstimateAddress(rec)
    PROVE  GcpRecTypeOK' /\ GcpInv'
  <1> DEFINE value == IF recTotals.cost = 0 THEN <<0, 1>> ELSE <<rec.cost * recTotals.kwh, recTotals.cost>>
  <1>1. /\ projectPc[rec.project] = "addresses" /\ rec \notin DOMAIN gcpSavings
        /\ gcpSavings' = Saved(rec, value)
        /\ UNCHANGED <<gcpRecPc, projectPc, listed, recommended, recTotals>>
    BY DEF EstimateAddress, InProject, Open
  <1>2. rec \in GcpRecs /\ rec.cost \in Nat /\ rec.project \in Projects /\ rec.address \in BOOLEAN
    BY GcpRecFields DEF GcpRecTypeOK
  <1>3. value \in Int \X (Nat \ {0})
    <2>1. recTotals.cost \in Nat /\ recTotals.kwh \in Int
      BY DEF GcpRecTypeOK
    <2>2. rec.cost * recTotals.kwh \in Int
      BY <1>2, <2>1
    <2> QED
      BY <2>1, <2>2
  <1> HIDE DEF value
  <1>4. /\ DOMAIN gcpSavings' = DOMAIN gcpSavings \cup {rec} /\ IsFiniteSet(DOMAIN gcpSavings')
        /\ gcpSavings'[rec] = value /\ \A r \in DOMAIN gcpSavings : gcpSavings'[r] = gcpSavings[r]
        /\ DOMAIN gcpSavings' \subseteq recommended'
        /\ \A r \in DOMAIN gcpSavings' : gcpSavings'[r] \in Int \X (Nat \ {0})
        /\ \A p \in Projects : Of(p)' = Of(p) /\ KnownOf(p)' = KnownOf(p)
        /\ \A r \in DOMAIN gcpSavings : r.address => ByKnown(r)'
    BY <1>1, <1>3, OneMoreEstimate
  <1>5. GcpRecTypeOK'
    BY <1>1, <1>4 DEF GcpRecTypeOK
  <1>6. rec.address
    <2>1. KnownOf(rec.project) \subseteq DOMAIN gcpSavings
      BY <1>1, <1>2 DEF GcpInv, ProjectsInv, Settled
    <2>2. rec \in Of(rec.project)
      BY DEF Of
    <2> QED
      BY <1>1, <1>2, <2>1, <2>2 DEF KnownOf
  <1>7. Known' = Known /\ Known \subseteq DOMAIN gcpSavings
    BY <1>4, <1>6 DEF Known
  <1>8. Energies(Known)' = Energies(Known)
    BY <1>4, <1>7 DEF Energies
  <1>9. ByKnown(rec)'
    <2>1. KnownOf(rec.project) \subseteq Known
      BY <1>1, <1>2 DEF GcpInv, ProjectsInv, Settled, Known, KnownOf
    <2>2. recTotals.cost = SumFunction(Costs(Known)) /\ recTotals.kwh = SumFunction(Energies(Known))
      BY DEF GcpInv, SavingsInv
    <2>3. IF SumFunction(Costs(Known)) = 0 THEN gcpSavings'[rec][1] = 0
          ELSE gcpSavings'[rec] = <<rec.cost * SumFunction(Energies(Known)), SumFunction(Costs(Known))>>
      BY <1>4, <2>2 DEF value
    <2>4. Energies(Known') = Energies(Known)
      BY <1>7
    <2> DEFINE known == Known
    <2>5. /\ known \in SUBSET Known' /\ KnownOf(rec.project)' \subseteq known
          /\ [r \in known |-> gcpSavings'[r][1]] = Energies(known)
      BY <1>2, <1>4, <1>7, <2>1 DEF Energies
    <2> HIDE DEF known
    <2>6. IF SumFunction(Costs(known)) = 0 THEN gcpSavings'[rec][1] = 0
          ELSE gcpSavings'[rec] = <<rec.cost * SumFunction([r \in known |-> gcpSavings'[r][1]]), SumFunction(Costs(known))>>
      BY <2>3, <2>5 DEF known
    <2> QED
      BY <2>5, <2>6 DEF ByKnown, Costs, Energies, SumFunction
  <1>10. SavingsInv'
    <2>1. recTotals'.cost = SumFunction(Costs(Known')) /\ recTotals'.kwh = SumFunction(Energies(Known)')
      BY <1>1, <1>7, <1>8 DEF GcpInv, SavingsInv
    <2> QED
      BY <1>4, <1>9, <2>1 DEF SavingsInv, Costs, SumFunction
  <1>11. ProjectsInv'
    BY <1>1, <1>4 DEF GcpInv, ProjectsInv, Settled
  <1> QED
    BY <1>5, <1>10, <1>11 DEF GcpInv
\* A recommender answers a project that has estimated nothing yet.
LEMMA ListStep ==
    ASSUME GcpRecTypeOK, GcpInv, NEW p \in Projects, NEW z \in ComputeZones, ListRecommendations(p, z)
    PROVE  GcpRecTypeOK' /\ GcpInv'
  <1>1. /\ gcpRecPc = "projects" /\ projectPc[p] = "listing" /\ listed[p][z] < Recommenders
        /\ listed' = [listed EXCEPT ![p][z] = @ + 1]
        /\ UNCHANGED <<gcpRecPc, projectPc, gcpSavings, recTotals>>
    BY DEF ListRecommendations, InProject
  <1>2. PICK new \in SUBSET GcpRecs : recommended' = recommended \cup new /\ \A rec \in new : rec.project = p
    <2>1. CASE recommended' = recommended
      <3>1. recommended' = recommended \cup {} /\ {} \in SUBSET GcpRecs
        BY <2>1
      <3> QED
        BY <3>1
    <2>2. CASE recommended' # recommended
      BY <2>2 DEF ListRecommendations, ListedBy
    <2> QED
      BY <2>1, <2>2
  <1>3. listed' \in [Projects -> [ComputeZones -> 0 .. Recommenders]]
    <2>1. listed[p][z] + 1 \in 0 .. Recommenders
      BY <1>1, GcpRecommendationsAssumption DEF GcpRecTypeOK
    <2> QED
      BY <1>1, <2>1 DEF GcpRecTypeOK
  <1>4. GcpRecTypeOK'
    BY <1>1, <1>2, <1>3 DEF GcpRecTypeOK
  <1>5. \A q \in Projects : q # p => Of(q)' = Of(q) /\ KnownOf(q)' = KnownOf(q)
    BY <1>2 DEF Of, KnownOf
  <1>6. \A rec \in DOMAIN gcpSavings : rec.project \in Projects
    BY GcpRecFields DEF GcpRecTypeOK
  <1>7. \A rec \in DOMAIN gcpSavings : rec.address => KnownOf(rec.project)' = KnownOf(rec.project)
    BY <1>1, <1>5, <1>6 DEF GcpInv, ProjectsInv, Settled
  <1>8. SavingsInv'
    BY <1>1, <1>7, SavingsKept
  <1>9. ProjectsInv'
    BY <1>1, <1>5 DEF GcpInv, ProjectsInv, Settled
  <1> QED
    BY <1>4, <1>8, <1>9 DEF GcpInv

\* A project, or the whole search, goes on to what comes next.
LEMMA PhaseStep ==
    ASSUME GcpRecTypeOK, GcpInv, UNCHANGED <<listed, recommended, gcpSavings, recTotals>>,
           \/ GcpRecBegin \/ GcpRecFails \/ ZonesKnown \/ AllProjectsDone \/ UNCHANGED gcpRecVars
           \/ \E p \in Projects : ZonesForProject(p) \/ AllZonesListed(p) \/ AddressesBegin(p) \/ ProjectDone(p)
    PROVE  GcpRecTypeOK' /\ GcpInv'
  <1>1. \A p : Of(p)' = Of(p) /\ KnownOf(p)' = KnownOf(p)
    BY DEF Of, KnownOf
  <1>2. SavingsInv'
    BY <1>1, SavingsKept
  <1>3. SUFFICES GcpRecTypeOK' /\ ProjectsInv'
    BY <1>2 DEF GcpInv
  <1>4. \A rec \in DOMAIN gcpSavings : rec.project \in Projects
    BY GcpRecFields DEF GcpRecTypeOK
  <1>5. CASE GcpRecBegin \/ GcpRecFails \/ AllProjectsDone \/ UNCHANGED gcpRecVars
    BY <1>1, <1>5 DEF GcpRecBegin, GcpRecFails, AllProjectsDone, gcpRecVars, GcpRecTypeOK, GcpInv, ProjectsInv
  <1>6. CASE ZonesKnown
    <2>1. /\ gcpRecPc = "zones" /\ gcpRecPc' = "projects"
          /\ projectPc' = [p \in Projects |-> IF projectPc[p] = "found" THEN "listing" ELSE "skipped"]
      BY <1>6 DEF ZonesKnown
    <2>2. \A rec \in DOMAIN gcpSavings : ~rec.address
      BY <1>4, <2>1 DEF GcpInv, ProjectsInv, Settled
    <2>3. \A p \in Projects : projectPc'[p] \in {"listing", "skipped"}
      BY <2>1
    <2>4. GcpRecTypeOK'
      BY <2>1 DEF GcpRecTypeOK
    <2>5. ProjectsInv'
      BY <2>1, <2>2, <2>3 DEF ProjectsInv, Settled
    <2> QED
      BY <2>4, <2>5
  <1>7. ASSUME NEW p \in Projects, ZonesForProject(p)
        PROVE  GcpRecTypeOK' /\ ProjectsInv'
    <2>1. PICK to \in {"found", "skipped"} :
              gcpRecPc = "zones" /\ UNCHANGED gcpRecPc /\ projectPc' = [projectPc EXCEPT ![p] = to]
      BY <1>7 DEF ZonesForProject
    <2>2. GcpRecTypeOK'
      BY <2>1 DEF GcpRecTypeOK
    <2>3. \A q \in Projects : projectPc'[q] \in {"zones", "found", "skipped"}
      BY <2>1 DEF GcpInv, ProjectsInv, GcpRecTypeOK
    <2>4. \A rec \in DOMAIN gcpSavings : ~rec.address
      BY <1>4, <2>1 DEF GcpInv, ProjectsInv, Settled
    <2>5. ProjectsInv'
      BY <2>1, <2>3, <2>4 DEF ProjectsInv, Settled
    <2> QED
      BY <2>2, <2>5
  <1>8. ASSUME NEW p \in Projects, AllZonesListed(p) \/ AddressesBegin(p) \/ ProjectDone(p)
        PROVE  GcpRecTypeOK' /\ ProjectsInv'
    <2>1. PICK to \in {"estimating", "addresses", "done"} :
              /\ gcpRecPc = "projects" /\ UNCHANGED gcpRecPc /\ projectPc' = [projectPc EXCEPT ![p] = to]
              /\ projectPc[p] \in Settled => to \in Settled
              /\ to = "done" => Of(p) \subseteq DOMAIN gcpSavings
              /\ to \in Settled => KnownOf(p) \subseteq DOMAIN gcpSavings
      BY <1>8 DEF AllZonesListed, AddressesBegin, ProjectDone, InProject, AllEstimated, Open, KnownOf, Settled
    <2>2. GcpRecTypeOK'
      BY <2>1 DEF GcpRecTypeOK
    <2>3. projectPc'[p] = to /\ \A q \in Projects : q # p => projectPc'[q] = projectPc[q]
      BY <2>1 DEF GcpRecTypeOK
    <2>4. ASSUME NEW q \in Projects
          PROVE  /\ projectPc'[q] = "done" => Of(q)' \subseteq DOMAIN gcpSavings'
                 /\ projectPc'[q] \in Settled => KnownOf(q)' \subseteq DOMAIN gcpSavings'
                 /\ projectPc[q] \in Settled => projectPc'[q] \in Settled
      BY <1>1, <2>1, <2>3 DEF GcpInv, ProjectsInv
    <2>5. ProjectsInv'
      BY <1>4, <2>1, <2>4 DEF GcpInv, ProjectsInv
    <2> QED
      BY <2>2, <2>5
  <1> QED
    BY <1>5, <1>6, <1>7, <1>8

LEMMA GcpRecommendationsStep ==
    ASSUME GcpRecTypeOK, GcpInv, [Next]_vars
    PROVE  GcpRecTypeOK' /\ GcpInv'
  <1>1. ASSUME NEW p \in Projects, NEW z \in ComputeZones, ListRecommendations(p, z)
        PROVE  GcpRecTypeOK' /\ GcpInv'
    BY <1>1, ListStep
  <1>2. ASSUME NEW rec \in recommended,
               \/ EstimateRecommendation(rec, rec.kwh) \/ EstimateRecommendation(rec, 0) \/ EstimateAddress(rec)
        PROVE  GcpRecTypeOK' /\ GcpInv'
    <2>1. rec.kwh \in Int /\ 0 \in Int
      BY GcpRecFields DEF GcpRecTypeOK
    <2> QED
      BY <1>2, <2>1, EstimateStep, AddressStep
  <1>3. CASE \/ GcpRecBegin \/ GcpRecFails \/ ZonesKnown \/ AllProjectsDone \/ UNCHANGED gcpRecVars
             \/ \E p \in Projects : ZonesForProject(p) \/ AllZonesListed(p) \/ AddressesBegin(p) \/ ProjectDone(p)
    <2>1. UNCHANGED <<listed, recommended, gcpSavings, recTotals>>
      BY <1>3 DEF GcpRecBegin, GcpRecFails, ZonesKnown, AllProjectsDone, gcpRecVars, ZonesForProject,
                  AllZonesListed, AddressesBegin, ProjectDone
    <2> QED
      BY <1>3, <2>1, PhaseStep
  <1> QED
    BY <1>1, <1>2, <1>3, GcpRecMoves DEF GcpRecStep, GcpRecAnswers

(* However the projects overtake one another, an address is estimated with  *)
(* an average that includes all its own project knows, each recommendation  *)
(* once (Recommendations.ts, getFilteredRecommendations of packages/gcp).      *)
THEOREM SavingsByKnownHolds == Spec => []SavingsByKnown
  <1>1. Init => GcpRecTypeOK /\ GcpInv
    BY GcpRecStart
  <1>2. GcpRecTypeOK /\ GcpInv /\ [Next]_vars => (GcpRecTypeOK /\ GcpInv)'
    BY GcpRecommendationsStep
  <1>3. GcpInv => SavingsByKnown
    BY DEF GcpInv, SavingsInv, ByKnown, Known, Costs, Energies, SavingsByKnown
  <1> QED
    BY <1>1, <1>2, <1>3, PTL DEF Spec
-----------------------------------------------------------------------------
(* The call: a provider that was passed is done and stays so.               *)

\* Nothing goes on at CloudWatch's tasks when all log queries were read.
LambdaRests == lambdaPc = "done" => \A i \in Parts : task[i] \in {"off", "ready"}

\* Subscriptions are asked only while usage is read, and only those found.
AzureRests ==
    /\ azurePc # "usage" => \A s \in Subs : subPc[s] \in {"off", "done", "lost"}
    /\ azurePc \in {"idle", "account", "subscriptions"} => \A s \in Subs : subPc[s] = "off"
    /\ \A s \in Subs : s \notin found => subPc[s] = "off"
    /\ azurePc = "done" => \A s \in found : subPc[s] \in {"done", "lost"}

LEMMA LambdaRestsStep ==
    ASSUME LambdaTypeOK, LambdaInv, LambdaRests, [Next]_vars
    PROVE  LambdaRests' /\ (lambdaPc = "done" => lambdaPc' = "done")
  <1>1. CASE LambdaBegin \/ DescribeLogGroups
    <2>1. lambdaPc # "done"
      BY <1>1 DEF LambdaBegin, DescribeLogGroups
    <2>2. CASE lambdaPc' = "done"
      <3>1. LogGroups = 0
        BY <1>1, <2>2 DEF LambdaBegin, DescribeLogGroups, Enter
      <3>2. \A i \in Parts : task[i] = "off"
        <4>1. logGroup = 0
          BY <3>1 DEF LambdaTypeOK
        <4>2. ~(logGroup >= 1)
          BY <4>1
        <4> QED
          BY <4>2 DEF LambdaInv, TaskInv
      <3>3. UNCHANGED task
        BY <1>1, <3>1 DEF LambdaBegin, DescribeLogGroups
      <3> QED
        BY <2>1, <3>2, <3>3 DEF LambdaRests
    <2> QED
      BY <2>1, <2>2 DEF LambdaRests
  <1>2. CASE NextLogGroup
    <2>1. lambdaPc # "done" /\ AllReady
      BY <1>2 DEF NextLogGroup
    <2>2. lambdaPc' = "done" => UNCHANGED task
      BY <1>2 DEF NextLogGroup, Enter
    <2> QED
      BY <2>1, <2>2 DEF LambdaRests, AllReady
  <1>3. ASSUME NEW i \in Parts,
               CheckRunning(i) \/ CheckAgain(i) \/ StartLogQuery(i) \/ PollResults(i) \/ PollResultsAgain(i)
        PROVE  LambdaRests' /\ (lambdaPc = "done" => lambdaPc' = "done")
    <2>1. task[i] \notin {"off", "ready"}
      BY <1>3 DEF CheckRunning, CheckAgain, StartLogQuery, PollResults, PollResultsAgain, TaskMoves
    <2>2. lambdaPc' \in {lambdaPc, "failed"}
      BY <1>3 DEF CheckRunning, CheckAgain, StartLogQuery, PollResults, PollResultsAgain
    <2> QED
      BY <2>1, <2>2 DEF LambdaRests
  <1>4. CASE LambdaFails
    <2>1. lambdaPc # "done"
      BY <1>4 DEF LambdaFails, LambdaRests
    <2> QED
      BY <1>4, <2>1 DEF LambdaFails, LambdaRests
  <1>5. CASE (\E q \in Queries : LogQueryMoves(q)) \/ UNCHANGED lambdaVars
    BY <1>5 DEF LogQueryMoves, lambdaVars, LambdaRests
  <1> QED
    BY <1>1, <1>2, <1>3, <1>4, <1>5, LambdaMoves DEF LambdaProgress

\* A step of one subscription happens while usage is read.
LEMMA AzureRestsStep ==
    ASSUME AzureTypeOK, AzureRests, [Next]_vars
    PROVE  /\ AzureRests'
           /\ azurePc = "done" => azurePc' = "done" /\ UNCHANGED <<found, subPc>>
  <1>1. CASE AzureBegin \/ InitializeAccount \/ AzureFails
    BY <1>1 DEF AzureBegin, InitializeAccount, AzureFails, AzureRests
  <1>2. CASE GetSubscriptions
    BY <1>2 DEF GetSubscriptions, AzureRests
  <1>3. CASE NextChunk
    <2>1. /\ azurePc = "usage" /\ UNCHANGED found
          /\ azurePc' \in {"usage", "done"}
          /\ azurePc' = "done" => /\ UNCHANGED subPc
                                  /\ {s \in found : subPc[s] = "off"} = {}
                                  /\ \A s \in found : subPc[s] \in {"off", "done", "lost"}
      BY <1>3 DEF NextChunk
    <2>2. \A s \in Subs : s \notin found => subPc'[s] = "off"
      <3> TAKE s \in Subs
      <3>1. UNCHANGED subPc \/ \A t \in Subs : t \notin found => subPc'[t] = subPc[t]
        BY <1>3 DEF NextChunk
      <3> QED
        BY <3>1 DEF AzureRests
    <2>3. azurePc' = "done" => \A s \in Subs : subPc'[s] \in {"off", "done", "lost"}
      BY <2>1 DEF AzureRests
    <2>4. azurePc' = "done" => \A s \in found : subPc'[s] \in {"done", "lost"}
      BY <2>1
    <2> QED
      BY <2>1, <2>2, <2>3, <2>4 DEF AzureRests
  <1>4. CASE RenewLimit \/ UNCHANGED azureVars
    BY <1>4 DEF RenewLimit, azureVars, AzureRests
  <1>5. ASSUME NEW s \in Subs,
               \/ QueryUsage(s) \/ RetryAfter(s) \/ NextUsageRow(s) \/ SliceDone(s)
               \/ PageRefused(s) \/ SubscriptionFails(s)
        PROVE  /\ AzureRests'
               /\ azurePc = "done" => azurePc' = "done" /\ UNCHANGED <<found, subPc>>
    <2>1. subPc[s] \in {"try", "page", "wait"} /\ UNCHANGED <<azurePc, found>>
      BY <1>5 DEF QueryUsage, RetryAfter, NextUsageRow, SliceDone, PageRefused, SubscriptionFails
    <2>2. azurePc = "usage" /\ s \in found
      BY <2>1 DEF AzureRests
    <2>3. \A t \in Subs : t # s => subPc'[t] = subPc[t]
      BY <1>5 DEF QueryUsage, RetryAfter, NextUsageRow, SliceDone, PageRefused, SubscriptionFails, Lose, AzureTypeOK
    <2> QED
      BY <2>1, <2>2, <2>3 DEF AzureRests
  <1> QED
    BY <1>1, <1>2, <1>3, <1>4, <1>5, AzureMoves DEF AzureStep, AzureProgress
\* What is done stays done.
LEMMA DoneStays ==
    ASSUME [Next]_vars
    PROVE  /\ athenaPc = "done" => athenaPc' = "done"
           /\ bigQuery = "done" => bigQuery' = "done"
           /\ awsRecPc = "done" => awsRecPc' = "done"
           /\ gcpRecPc = "done" => gcpRecPc' = "done"
  <1>1. athenaPc = "done" => athenaPc' = "done"
    BY AthenaMoves DEF AthenaBegin, CheckColumn, StartQuery, AthenaFails, PollQuery, PollAgain, GetResultSet,
       ExecutionMoves, athenaVars
  <1>2. bigQuery = "done" => bigQuery' = "done"
    BY DEF Next, EstimatesNext, Begin, BigQueryStep, BillingCycle, BillingCycleFails, StageEnds,
           Athena, Lambda, AzureQueries, vars, estimateVars
  <1>3. awsRecPc = "done" => awsRecPc' = "done"
    BY AwsRecMoves DEF AwsRecBegin, AwsRecStep, AwsRecAnswers, AwsRecFails, ListBucketObjects, ReadObject,
       ObjectsDone, ReadPage, awsRecVars
  <1>4. gcpRecPc = "done" => gcpRecPc' = "done"
    BY GcpRecMoves DEF GcpRecBegin, GcpRecStep, GcpRecAnswers, GcpRecFails, ZonesKnown, AllProjectsDone,
       ZonesForProject, AllZonesListed, AddressesBegin, ProjectDone, ListRecommendations,
       EstimateRecommendation, EstimateAddress, InProject, gcpRecVars
  <1> QED
    BY <1>1, <1>2, <1>3, <1>4

\* The months asked for are the first ones, and each provider that was passed gave all it was asked for.
CyclesInv ==
    /\ cycles \in Seq(1 .. BillingCycles)
    /\ Len(cycles) <= BillingCycles /\ cycles = [c \in 1 .. Len(cycles) |-> c]

PassedInv ==
    /\ stage \in {"GCP", "AZURE", "ALI", "answered"} /\ "AWS" \in included =>
          (IF useBilling THEN athenaPc ELSE lambdaPc) = "done"
    /\ stage \in {"AZURE", "ALI", "answered"} /\ "GCP" \in included => bigQuery = "done"
    /\ stage \in {"ALI", "answered"} /\ "AZURE" \in included => azurePc = "done"
    /\ stage = "answered" /\ "ALI" \in included => Len(cycles) = BillingCycles

CallInv ==
    /\ stage \in DOMAIN AfterStage \cup {"none", "answered", "rejected"}
    /\ bigQuery \in {"idle", "create", "results", "done", "failed"}
    /\ CyclesInv /\ PassedInv

AdvisedInv ==
    /\ recStage \in {"none", "AWS", "GCP", "AZURE", "answered", "rejected"}
    /\ azureBilling \in BOOLEAN
    /\ advisor \in {"idle", "account", "subscriptions", "asking", "failed"}
    /\ advice \in [Advised -> {"waiting", "given", "lost"}]
    /\ recStage \in {"GCP", "AZURE", "answered"} => awsRecPc = "done"
    /\ recStage \in {"AZURE", "answered"} => gcpRecPc = "done"
    /\ recStage = "answered" /\ azureBilling => \A s \in Advised : advice[s] # "waiting"

\* The steps of the call itself, and those that leave it where it is.
LEMMA CallMoves ==
    ASSUME [Next]_vars
    PROVE  \/ Begin \/ BigQueryStep \/ BillingCycle \/ BillingCycleFails \/ StageEnds
           \/ UNCHANGED <<appVars, bigQuery, cycles>>
  BY DEF Next, EstimatesNext, Athena, Lambda, AzureQueries, vars, estimateVars

LEMMA CyclesStep ==
    ASSUME CyclesInv, [Next]_vars
    PROVE  CyclesInv' /\ (Len(cycles) = BillingCycles => cycles' = cycles)
  <1>1. CASE BillingCycle
    <2> DEFINE n == Len(cycles) + 1
    <2>1. Len(cycles) < BillingCycles /\ cycles' = Append(cycles, n) /\ Len(cycles) \in Nat
      BY <1>1 DEF BillingCycle, CyclesInv
    <2>2. n \in 1 .. BillingCycles
      BY <2>1, ProviderQueriesAssumption
    <2>3. cycles' \in Seq(1 .. BillingCycles) /\ Len(cycles') = n
      BY <2>1, <2>2 DEF CyclesInv
    <2>4. \A c \in 1 .. Len(cycles) : cycles[c] = c
      BY DEF CyclesInv
    <2>5. \A c \in 1 .. n : cycles'[c] = c
      BY <2>1, <2>4 DEF CyclesInv
    <2>6. cycles' = [c \in 1 .. n |-> cycles'[c]]
      BY <2>3
    <2>7. cycles' = [c \in 1 .. n |-> c]
      BY <2>5, <2>6
    <2> HIDE DEF n
    <2>8. CyclesInv'
      BY <2>2, <2>3, <2>7 DEF CyclesInv
    <2> QED
      BY <2>1, <2>8
  <1>2. CASE ~BillingCycle
    <2>1. cycles' = cycles
      BY <1>2, CallMoves DEF Begin, BigQueryStep, BillingCycleFails, StageEnds
    <2> QED
      BY <2>1 DEF CyclesInv
  <1> QED
    BY <1>1, <1>2

LEMMA CallStep ==
    ASSUME LambdaTypeOK, LambdaInv, LambdaRests, AzureTypeOK, AzureRests, CallInv, [Next]_vars
    PROVE  CallInv'
  <1>1. CyclesInv' /\ (Len(cycles) = BillingCycles => cycles' = cycles)
    BY CyclesStep DEF CallInv
  <1>2. /\ athenaPc = "done" => athenaPc' = "done"
        /\ lambdaPc = "done" => lambdaPc' = "done"
        /\ bigQuery = "done" => bigQuery' = "done"
        /\ azurePc = "done" => azurePc' = "done"
    BY DoneStays, LambdaRestsStep, AzureRestsStep
  <1>3. CASE StageEnds
    <2>1. /\ stage \in {"AWS", "GCP", "AZURE", "ALI"} /\ UNCHANGED <<included, useBilling, bigQuery, cycles>>
          /\ Outcome \in {"done", "failed"}
          /\ stage' = IF Outcome = "failed" THEN "rejected" ELSE AfterStage[stage]
      BY <1>3 DEF StageEnds, StageAfter, AfterStage
    <2>2. CASE Outcome = "failed"
      <3>1. stage' = "rejected"
        BY <2>1, <2>2
      <3> QED
        BY <1>1, <2>1, <3>1 DEF CallInv, PassedInv
    <2>3. CASE Outcome = "done"
      <3>1. CASE stage = "AWS"
        <4>1. stage' = "GCP" /\ ("AWS" \in included => (IF useBilling THEN athenaPc ELSE lambdaPc) = "done")
          BY <2>1, <2>3, <3>1 DEF AfterStage, Outcome
        <4> QED
          BY <1>1, <1>2, <2>1, <4>1 DEF CallInv, PassedInv, AfterStage
      <3>2. CASE stage = "GCP"
        <4>1. stage' = "AZURE" /\ ("GCP" \in included => bigQuery = "done")
          BY <2>1, <2>3, <3>2 DEF AfterStage, Outcome
        <4> QED
          BY <1>1, <1>2, <2>1, <3>2, <4>1 DEF CallInv, PassedInv, AfterStage
      <3>3. CASE stage = "AZURE"
        <4>1. stage' = "ALI" /\ ("AZURE" \in included => azurePc = "done")
          BY <2>1, <2>3, <3>3 DEF AfterStage, Outcome
        <4> QED
          BY <1>1, <1>2, <2>1, <3>3, <4>1 DEF CallInv, PassedInv, AfterStage
      <3>4. CASE stage = "ALI"
        <4>1. stage' = "answered" /\ ("ALI" \in included => Len(cycles) = BillingCycles)
          BY <2>1, <2>3, <3>4 DEF AfterStage, Outcome
        <4> QED
          BY <1>1, <1>2, <2>1, <3>4, <4>1 DEF CallInv, PassedInv, AfterStage
      <3> QED
        BY <2>1, <3>1, <3>2, <3>3, <3>4
    <2> QED
      BY <2>1, <2>2, <2>3
  <1>4. CASE BillingCycleFails
    <2>1. stage' = "rejected" /\ UNCHANGED bigQuery
      BY <1>4 DEF BillingCycleFails
    <2> QED
      BY <1>1, <2>1 DEF CallInv, PassedInv
  <1>5. CASE Begin \/ BigQueryStep \/ BillingCycle \/ UNCHANGED <<appVars, bigQuery, cycles>>
    <2>1. /\ UNCHANGED <<stage, included, useBilling>>
          /\ bigQuery' \in {bigQuery, "create", "results", "done", "failed"}
      BY <1>5 DEF Begin, BigQueryStep, BillingCycle, appVars
    <2> QED
      BY <1>1, <1>2, <2>1 DEF CallInv, PassedInv
  <1> QED
    BY <1>3, <1>4, <1>5, CallMoves

LEMMA AdvisedStep ==
    ASSUME AdvisedInv, [Next]_vars
    PROVE  AdvisedInv'
  <1>1. (awsRecPc = "done" => awsRecPc' = "done") /\ (gcpRecPc = "done" => gcpRecPc' = "done")
    BY DoneStays
  <1>2. CASE RecStageEnds
    BY <1>1, <1>2 DEF RecStageEnds, advisorVars, AllAdvised, AdvisedInv
  <1>3. CASE RecBegin \/ AccountStep
    BY <1>1, <1>3 DEF RecBegin, AccountStep, recCallVars, advisorVars, AdvisedInv
  <1>4. ASSUME NEW s \in Advised, AdvisorAnswers(s)
        PROVE  AdvisedInv'
    <2>1. PICK answer \in {"given", "lost"} : advice' = [advice EXCEPT ![s] = answer]
      BY <1>4 DEF AdvisorAnswers
    <2>2. /\ advice' \in [Advised -> {"waiting", "given", "lost"}]
          /\ \A t \in Advised : advice[t] # "waiting" => advice'[t] # "waiting"
      BY <2>1 DEF AdvisedInv
    <2>3. UNCHANGED <<recStage, azureBilling, advisor>>
      BY <1>4 DEF AdvisorAnswers, recCallVars
    <2> QED
      BY <1>1, <2>2, <2>3 DEF AdvisedInv
  <1>5. CASE UNCHANGED <<recCallVars, advisorVars>>
    BY <1>1, <1>5 DEF recCallVars, advisorVars, AdvisedInv
  <1> QED
    BY <1>2, <1>3, <1>4, <1>5 DEF Next, RecNext, RecCall, AwsRecs, GcpRec, vars, recVars

AllInv ==
    /\ AthenaTypeOK /\ PagesInv
    /\ LambdaTypeOK /\ LambdaInv /\ LambdaRests
    /\ AzureTypeOK /\ AzureInv /\ AzureRests
    /\ AwsRecTypeOK /\ AwsInv /\ GcpRecTypeOK /\ GcpInv
    /\ CallInv /\ AdvisedInv

LEMMA AllStart ==
    ASSUME Init
    PROVE  AllInv
  <1>1. AthenaTypeOK /\ PagesInv
    BY AthenaQueryAssumption DEF Init, AthenaInit, AthenaTypeOK, PagesInv, Before
  <1>2. LambdaTypeOK /\ LambdaInv /\ AzureTypeOK /\ AzureInv
    BY LogQueriesStart, UsageStart
  <1>3. AwsRecTypeOK /\ AwsInv /\ GcpRecTypeOK /\ GcpInv
    BY AwsRecStart, GcpRecStart
  <1>4. LambdaRests /\ AzureRests
    BY DEF Init, LambdaInit, AzureInit, LambdaRests, AzureRests
  <1>5. cycles = << >> /\ bigQuery = "idle" /\ stage \in {"AWS", "none"}
    BY DEF Init
  <1>6. CyclesInv
    BY <1>5, ProviderQueriesAssumption DEF CyclesInv
  <1>7. CallInv
    BY <1>5, <1>6 DEF CallInv, PassedInv, AfterStage
  <1>8. AdvisedInv
    BY DEF Init, RecInit, AdvisedInv
  <1> QED
    BY <1>1, <1>2, <1>3, <1>4, <1>7, <1>8 DEF AllInv

LEMMA AllStep ==
    ASSUME AllInv, [Next]_vars
    PROVE  AllInv'
  <1>1. AthenaTypeOK' /\ PagesInv'
    BY PagesStep DEF AllInv
  <1>2. LambdaTypeOK' /\ LambdaInv' /\ LambdaRests'
    BY LogQueriesStep, LambdaRestsStep DEF AllInv
  <1>3. AzureTypeOK' /\ AzureInv' /\ AzureRests'
    BY UsageStep, AzureRestsStep DEF AllInv
  <1>4. AwsRecTypeOK' /\ AwsInv'
    BY AwsRecommendationsStep DEF AllInv
  <1>5. GcpRecTypeOK' /\ GcpInv'
    BY GcpRecommendationsStep DEF AllInv
  <1>6. CallInv' /\ AdvisedInv'
    BY CallStep, AdvisedStep DEF AllInv
  <1> QED
    BY <1>1, <1>2, <1>3, <1>4, <1>5, <1>6 DEF AllInv

(* Every stage of a call is typed, in usage and in recommendations          *)
(* (App.ts, getCostAndEstimates and getRecommendations).                    *)
THEOREM TypeCorrect == Spec => []TypeOK
  <1>1. Init => AllInv
    BY AllStart
  <1>2. AllInv /\ [Next]_vars => AllInv'
    BY AllStep
  <1>3. AllInv => TypeOK
    BY DEF AllInv, CallInv, CyclesInv, AdvisedInv, RecTypeOK, TypeOK
  <1> QED
    BY <1>1, <1>2, <1>3, PTL DEF Spec

(* A call is answered only when every provider it includes gave all it was  *)
(* asked for, and a call for recommendations when no service owes any, with *)
(* the best of AWS's two (App.ts, getCostAndEstimates and                   *)
(* getRecommendations).                                                     *)
THEOREM AnsweredInFullHolds == Spec => []AnsweredInFull
  <1>1. Init => AllInv
    BY AllStart
  <1>2. AllInv /\ [Next]_vars => AllInv'
    BY AllStep
  <1>3. AllInv => AnsweredInFull
    <2> SUFFICES ASSUME AllInv PROVE AnsweredInFull
      OBVIOUS
    <2>1. ASSUME stage = "answered"
          PROVE  /\ "AWS" \in included => (IF useBilling THEN athenaPc ELSE lambdaPc) = "done"
                 /\ "GCP" \in included => bigQuery = "done"
                 /\ "AZURE" \in included => azurePc = "done" /\ \A s \in found : subPc[s] \in {"done", "lost"}
                 /\ "ALI" \in included => cycles = [c \in 1 .. BillingCycles |-> c]
      BY <2>1 DEF AllInv, CallInv, PassedInv, CyclesInv, AzureRests
    <2>2. ASSUME recStage = "answered"
          PROVE  RecommendedInFull
      <3>1. BestOfBoth
        BY BestIsAnswered DEF AllInv
      <3>2. gcpRecPc = "done" /\ (azureBilling => \A s \in Advised : advice[s] # "waiting")
        BY <2>2 DEF AllInv, AdvisedInv
      <3>3. \A p \in Projects : projectPc[p] = "skipped" \/ Of(p) \subseteq DOMAIN gcpSavings
        BY <3>2 DEF AllInv, GcpInv, ProjectsInv
      <3> QED
        BY <3>1, <3>2, <3>3 DEF RecommendedInFull
    <2> QED
      BY <2>1, <2>2 DEF AnsweredInFull
  <1> QED
    BY <1>1, <1>2, <1>3, PTL DEF Spec
================================================================================
