------------------------------ MODULE Backend ------------------------------
(***************************************************************************)
(* The API process: every request runs the handler of one operation, over  *)
(* the tables of SQLite the services share.  Its container is restarted    *)
(* with the seed script; the judge worker writes the verdicts.             *)
(***************************************************************************)
EXTENDS SeedScript, StressReports, Views

tables == <<users, problemTables, interviewTables, reports>>
vars == <<frameVars, requestVars, gone, tables>>

\* The state in which the seed script has left the database, with interviews
\* made since, each of one candidate without a window.
Init ==
    /\ RequestsInit
    /\ users = SeededUsers
    /\ problem = [p \in ProblemIds |->
         IF p \in SeededProblems
         THEN [state |-> "live", difficulty |-> AbsentProblem.difficulty, tests |-> TestCases]
         ELSE AbsentProblem]
    /\ assigned = SampleAssignments /\ submitted = SampleSubmissions
    /\ gone = [r \in Requests |-> {}]
    /\ interviews = SeededInterviews
    /\ \E host \in [SeededInterviews -> {u.id : u \in {v \in users : hasUserRole(v, "CANDIDATE")}}] :
         candidates = {[id |-> i, jobId |-> i, userId |-> host[i],
                        startTime |-> Null, endTime |-> Null] : i \in SeededInterviews}
    /\ assignments = {} /\ reports = {}

GuardedRoutes ==
    UNION {{<<op, roles[op]>> : op \in DOMAIN roles} :
             roles \in {ProblemRoles, SubmissionRoles, InterviewRoles, CandidateRoles,
                        AssignmentRoles, ListRoles}}

\* Every request is answered and the container is up.
Rest ==
    /\ boot = "up"
    /\ \A r \in Requests : at[r] = "done" \/ at[r] = "none"
    /\ UNCHANGED vars

Next ==
    \/ \E r \in Requests :
         \/ AccountStep(r) /\ UNCHANGED <<gone, problemTables, interviewTables, reports>>
         \/ ProblemStep(r) /\ UNCHANGED <<users, interviewTables, reports>>
         \/ /\ InterviewStep(r) \/ CandidateStep(r) \/ AssignmentStep(r)
            /\ UNCHANGED <<users, problemTables, reports>>
         \/ ViewStep(r) /\ UNCHANGED reports
         \/ ReportStep(r) /\ UNCHANGED <<gone, users, problemTables, interviewTables>>
         \/ \E route \in GuardedRoutes :
              /\ RefuseCaller(r, route[1], route[2])
              /\ UNCHANGED <<gone, problemTables, interviewTables, reports>>
    \/ \E s \in submitted : StatusWritten(s) /\ UNCHANGED <<interviewTables, reports>>
    \/ SeedStep /\ UNCHANGED reports
    \/ Rest

Spec == Init /\ [][Next]_vars

-----------------------------------------------------------------------------
\* Every variable has its type, and a settled request keeps nothing.
BackendTypeOK ==
    /\ RequestsTypeOK
    /\ boot \in DOMAIN After \union {"up"}
    /\ users \subseteq UserRow
    /\ ProblemsTypeOK /\ InterviewsTypeOK /\ ReportsTypeOK

UniqueBy(R, Key(_)) == \A x, y \in R : Key(x) = Key(y) => x = y

\* Whatever requests run at once, whatever the seed script has been stopped
\* at: no row refers to one that is not there, no key is there twice.
TablesConsistent ==
    /\ \A c \in candidates : c.jobId \in interviews /\ UserById(c.userId) # {}
    /\ \A a \in assignments :
         a.jobId \in interviews /\ UserById(a.userId) # {} /\ Exists(a.problemId)
    /\ \A s \in submitted : Exists(s.problem)
    /\ \A x \in assigned : Exists(x.problem) /\ UserById(x.user) # {}
    /\ UniqueBy(candidates, LAMBDA c : <<c.jobId, c.userId>>)
    /\ UniqueBy(assignments, LAMBDA a : <<a.jobId, a.userId, a.problemId>>)
    /\ UniqueBy(users, LAMBDA u : u.name)
    /\ UniqueBy({u \in users : u.email # NoEmail}, LAMBDA u : u.email)

\* A request during which no other one writes is never answered 500: what the
\* handlers leave uncaught (P2002, P2003, P2025) takes a race.
ServerErrorsAreRaces ==
    [][\A r \in Requests : answer'[r] >= 500 /\ answer'[r] # answer[r] => raced[r]]_vars

\* A request that comes after the deletion of a problem makes no row for it.
\* (One that has found the problem before may: nobody looks again.)
DeletedProblemsRest ==
    /\ \A a \in assignments : a.problemId \notin gone[a.id]
    /\ \A s \in submitted : s.id \in Requests => s.problem \notin gone[s.id]
    /\ \A r \in Requests : at[r] = "assign.write" => local[r].problem \notin gone[r]

\* Out of the seed script no problem lacks test cases, though they are replaced
\* while submissions are judged and candidates read them in two queries.
TestsNeverEmpty ==
    /\ boot = "up" => \A p \in ProblemIds : Exists(p) => problem[p].tests # {}
    /\ \A r \in Requests : at[r] = "testcases.reply" => local[r].tests # {}

RowsOf(r, T) == {x \in T : x.id = r}

\* P is made of as many problems for each difficulty as counts says.
AsManyAsAsked(P, counts) ==
    \E of \in [Difficulties -> SUBSET P] :
      /\ P = UNION {of[d] : d \in Difficulties}
      /\ \A d \in Difficulties : Cardinality(of[d]) = counts[d]
      /\ \A d, e \in Difficulties : d # e => of[d] \intersect of[e] = {}

\* An interview answered with 201 has the candidate and as many problems as
\* were asked for, though problems are deleted and their difficulty changes
\* between the draws; one answered with an error leaves no row at all.
InterviewIsWhole ==
    [][\A r \in Requests : at[r] = "interview.write" /\ at'[r] = "done" /\ boot' = "up" =>
         IF answer'[r] = 201
         THEN /\ r \in interviews'
              /\ \E c \in candidates' : c.id = r /\ c.userId = local[r].user
              /\ \A a \in RowsOf(r, assignments') : a.jobId = r /\ a.userId = local[r].user
              /\ AsManyAsAsked({a.problemId : a \in RowsOf(r, assignments')}, local[r].counts)
         ELSE /\ r \notin interviews'
              /\ RowsOf(r, candidates' \union assignments') = {}]_vars

ValidWindow(c) == validateTimeRange(c.startTime, c.endTime)

CoherentStatus(c) ==
    \A now \in Times :
      LET s == getTimeStatus(c, now) IN
        s.status # "NOT_SCHEDULED" =>
          /\ s.remaining + s.elapsed = s.duration
          /\ s.remaining >= 0 /\ s.elapsed >= 0

\* A window never becomes invalid but by an update whose request had read the
\* row before another changed it.  Even then the time a candidate is told to
\* have left and the time elapsed add up to the duration, and none is negative.
WindowNeedsStaleRead ==
    [][\A d \in candidates' :
         /\ ~ValidWindow(d) =>
              \/ d \in candidates
              \/ \E r \in Requests :
                   /\ at[r] = "time.write" /\ at'[r] = "done"
                   /\ local[r].row.id = d.id
                   /\ local[r].row \notin candidates
         /\ CoherentStatus(d)]_vars

\* No foreign key ever blocks a wipe of the seed script, and a script that ends
\* has left the seeded rows and no other ones, whatever requests had written
\* and however often it was stopped and started again.
SeedRestores ==
    [][/\ boot = "problem" => ~BlocksProblems
       /\ boot = "user" => ~BlocksUsers
       /\ boot # "up" /\ boot' = "up" =>
            /\ users' = SeededUsers
            /\ \A p \in ProblemIds :
                 IF p \in SeededProblems
                 THEN problem'[p].state = "live" /\ problem'[p].tests = TestCases
                 ELSE problem'[p] = AbsentProblem
            /\ submitted' = SampleSubmissions /\ assigned' = SampleAssignments
            /\ interviews' = {} /\ candidates' = {} /\ assignments' = {}]_vars

NoWorse(f, g) ==
    f.successRate >= g.successRate /\ f.p99 <= g.p99 /\ f.timeouts <= g.timeouts
Rank == [PASSED |-> 0, WARNING |-> 1, FAILED |-> 2]

\* Reports may come between the two queries of the summary: an endpoint it lists
\* is assessed, over no fewer reports than it counts.  And a report as good as
\* another in every figure is assessed as well; one that FAILED names an issue.
SummaryIsCovered ==
    /\ \A r \in Requests : at[r] = "summary.reply" =>
         \A e \in DOMAIN local[r].reportsCount :
           /\ local[r].total[e] >= local[r].reportsCount[e]
           /\ local[r].passed[e] <= local[r].total[e]
           /\ determineOverallAssessment(local[r].passed[e], local[r].total[e]) # "NO_DATA"
    /\ \A x \in reports :
         LET assessed == calculateAssessment(x.figures) IN
         /\ \A y \in reports : NoWorse(x.figures, y.figures) =>
              Rank[assessed] <= Rank[calculateAssessment(y.figures)]
         /\ assessed = "FAILED" => generateAssessmentMsg(x.figures) # {}

\* A page is the part of the total its parameters name, unless another request
\* wrote between the two queries.  A problem's analytics show no submission and
\* no assignment that is not there, all of them unless another request wrote,
\* and no submission twice, though its status may be written at any time.
ViewsAreConsistent ==
    \A r \in Requests :
      /\ at[r] = "list.reply" =>
           /\ local[r].items <= local[r].by.limit
           /\ ~raced[r] => local[r].items = PageSize(local[r].total, local[r].by)
      /\ at[r] = "view.reply" =>
           LET shown == local[r].analytics
               now == getProblemAnalytics(local[r].problem) IN
           /\ shown.submittedCount <= now.submittedCount
           /\ local[r].assignedCount <= AssignedCount(local[r].problem)
           /\ ~raced[r] => /\ shown.submittedCount = now.submittedCount
                           /\ local[r].assignedCount = AssignedCount(local[r].problem)
           /\ shown.acceptedCount + shown.failedCount <= shown.submittedCount

-----------------------------------------------------------------------------
(* What the documentation says, and the code does not keep.                *)

\* A response of the server's own failure is counted with its status code.
ErrorsAreCounted ==
    \A r \in Requests : answer[r] >= 500 => counted[r] = answer[r]

=============================================================================
