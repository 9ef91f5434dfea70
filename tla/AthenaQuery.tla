------------------------------- MODULE AthenaQuery -------------------------------
(***************************************************************************)
(* AWS usage from the cost and usage reports: one Athena query is started, *)
(* polled every second and its result sets are read page by page           *)
(* (CostAndUsageReports.ts and ServiceWrapper.ts of packages/aws).         *)
(***************************************************************************)
EXTENDS Naturals, Sequences

CONSTANT ResultPages   \* the pages of the query's result; a page names the next one

ASSUME AthenaQueryAssumption == ResultPages \in Nat \ {0}

VARIABLES
    athenaPc,     \* where getUsage is
    execution,    \* the state of the query at Athena
    resultSets    \* the pages read, in order

athenaVars == <<athenaPc, execution, resultSets>>

AthenaTypeOK ==
    /\ athenaPc \in {"idle", "schema", "start", "poll", "wait", "page", "done", "failed"}
    /\ execution \in {"none", "QUEUED", "RUNNING", "SUCCEEDED", "FAILED", "CANCELLED"}
    /\ resultSets \in Seq(1 .. ResultPages)

AthenaInit == athenaPc = "idle" /\ execution = "none" /\ resultSets = << >>

AthenaBegin == athenaPc = "idle" /\ athenaPc' = "schema" /\ UNCHANGED <<execution, resultSets>>

\* checkIfColumnExists: a schema that cannot be read leaves a column out, no more.
CheckColumn == athenaPc = "schema" /\ athenaPc' = "start" /\ UNCHANGED <<execution, resultSets>>

StartQuery ==
    /\ athenaPc = "start"
    /\ athenaPc' = "poll"
    /\ execution' = "QUEUED"
    /\ UNCHANGED resultSets

\* Any call to Athena may fail, and nothing catches it before the request.
AthenaFails ==
    /\ athenaPc \in {"start", "poll", "page"}
    /\ athenaPc' = "failed"
    /\ UNCHANGED <<execution, resultSets>>

EndsPolling(state) == state = "SUCCEEDED"

\* The state is compared with 'FAILED' || 'CANCELLED', which is 'FAILED'.
PollQuery ==
    /\ athenaPc = "poll"
    /\ athenaPc' = CASE execution = "FAILED"   -> "failed"
                     [] EndsPolling(execution) -> "page"
                     [] OTHER                  -> "wait"
    /\ UNCHANGED <<execution, resultSets>>

PollAgain == athenaPc = "wait" /\ athenaPc' = "poll" /\ UNCHANGED <<execution, resultSets>>

\* Mutant: every page is asked for twice, and the first answer is dropped.
PageAfterDropped(read) == 2 * Len(read) + 2

\* Mutant: after the first one, every second page is dropped.
PageAfterNext(read) == 2 * Len(read) + 1

\* The page a token leads to: the first one without a token.
PageAfter(read) == IF read = << >> THEN 1 ELSE read[Len(read)] + 1

\* A page is read; the last one carries no token. A query that is not over has no pages.
GetResultSet ==
    /\ athenaPc = "page"
    /\ IF execution = "SUCCEEDED"
       THEN /\ resultSets' = Append(resultSets, PageAfter(resultSets))
            /\ athenaPc' = IF PageAfter(resultSets) = ResultPages THEN "done" ELSE "page"
       ELSE athenaPc' = "failed" /\ UNCHANGED resultSets
    /\ UNCHANGED execution

\* Athena runs the query; it can be cancelled from outside while it is queued or runs.
ExecutionMoves ==
    /\ \/ execution = "QUEUED" /\ execution' \in {"RUNNING", "FAILED", "CANCELLED"}
       \/ execution = "RUNNING" /\ execution' \in {"SUCCEEDED", "FAILED", "CANCELLED"}
    /\ UNCHANGED <<athenaPc, resultSets>>

AthenaStep == CheckColumn \/ StartQuery \/ AthenaFails \/ PollQuery \/ PollAgain \/ GetResultSet

\* Calls are answered, timers run out and queries come to an end.
AthenaFairness ==
    /\ WF_athenaVars(CheckColumn \/ StartQuery \/ PollQuery \/ PollAgain \/ GetResultSet)
    /\ WF_athenaVars(ExecutionMoves)
=============================================================================
