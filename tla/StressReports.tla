---------------------------- MODULE StressReports ----------------------------
(***************************************************************************)
(* StressTestReportsService: reports are stored with an assessment, and a  *)
(* summary is made of two queries.                                         *)
(***************************************************************************)
EXTENDS Accounts

CONSTANTS
    Endpoints,
    Figures     \* the figures of a report considered

VARIABLE reports

\* successRate in percent, p99LatencyMs, timeouts and errors.
Figure == [successRate : 0 .. 100, p99 : Nat, timeouts : Nat, errors : Nat]
Assessment == {"PASSED", "WARNING", "FAILED"}

ASSUME FiguresAssumption == Figures \subseteq Figure

ReportsTypeOK ==
    reports \subseteq [id : Requests, endpoint : Endpoints, figures : Figures,
                       assessment : Assessment]

calculateAssessment(f) ==
    IF f.successRate >= 95 /\ f.p99 <= 1000 /\ f.timeouts = 0 THEN "PASSED"
    ELSE IF f.successRate >= 80 \/ (f.p99 <= 1500 /\ f.timeouts < 10) THEN "WARNING"
    ELSE "FAILED"

\* The issues assessmentMsg names.
generateAssessmentMsg(f) ==
    {i \in {"p99", "errors", "timeouts", "successRate"} :
        \/ i = "p99" /\ f.p99 > 1000
        \/ i = "errors" /\ f.errors > 0
        \/ i = "timeouts" /\ f.timeouts > 0
        \/ i = "successRate" /\ f.successRate < 80}

determineOverallAssessment(passed, total) ==
    CASE total = 0                                        -> "NO_DATA"
      [] total > 0 /\ passed * 100 >= 80 * total          -> "HEALTHY"
      [] total > 0 /\ passed * 100 \in 50 * total .. 80 * total - 1 -> "DEGRADED"
      [] OTHER                                            -> "CRITICAL"

-----------------------------------------------------------------------------
\* InternalAuthGuard, then one insert, of the assessment given if there is one.
CreateReport(r) ==
    /\ Handles(r, "createReport")
    /\ \/ Replies(r, "none", 401, NotCounted) /\ UNCHANGED reports
       \/ \E e \in Endpoints, f \in Figures, given \in Assessment \union {Undefined} :
            /\ Commits(r, "none", 201)
            /\ reports' = reports \union
                 {[id |-> r, endpoint |-> e, figures |-> f,
                   assessment |-> Or(given, calculateAssessment(f))]}

Count(R, e) == Cardinality({x \in R : x.endpoint = e})

\* The first groupBy of getSummary: an item for every endpoint with reports.
SummaryCounts(r) ==
    /\ Handles(r, "summary")
    /\ Awaits(r, "none", "summary.assess",
              [reportsCount |-> [e \in {x.endpoint : x \in reports} |-> Count(reports, e)]])
    /\ UNCHANGED reports

\* Variant: warnings are left out of the second groupBy.
SummaryAssessesRated(r) ==
    LET rated == {x \in reports : x.assessment # "WARNING"} IN
    /\ Awaits(r, "summary.assess", "summary.reply",
              [reportsCount |-> local[r].reportsCount,
               total  |-> [e \in DOMAIN local[r].reportsCount |-> Count(rated, e)],
               passed |-> [e \in DOMAIN local[r].reportsCount |->
                             Count({x \in rated : x.assessment = "PASSED"}, e)]])
    /\ UNCHANGED reports

\* The second groupBy, by assessment; more reports may have come.
SummaryAssesses(r) ==
    /\ Awaits(r, "summary.assess", "summary.reply",
              [reportsCount |-> local[r].reportsCount,
               total  |-> [e \in DOMAIN local[r].reportsCount |-> Count(reports, e)],
               passed |-> [e \in DOMAIN local[r].reportsCount |->
                             Count({x \in reports : x.assessment = "PASSED"}, e)]])
    /\ UNCHANGED reports

SummaryReplies(r) ==
    /\ Replies(r, "summary.reply", 200, 200)
    /\ UNCHANGED reports

ReportStep(r) ==
    CreateReport(r) \/ SummaryCounts(r) \/ SummaryAssesses(r) \/ SummaryReplies(r)

=============================================================================
