-------------------------------- MODULE Views --------------------------------
(***************************************************************************)
(* The handlers that only read: pages of problems, users, rankings,        *)
(* interviews and submissions, a problem with its analytics, and single    *)
(* rows.  A page and its total are two queries at once, Promise.all.       *)
(***************************************************************************)
EXTENDS Interviews, Integers

CONSTANTS
    GivenPages, GivenLimits,    \* what the query parameters page and limit parse to
    DefaultLimit, MaxLimit      \* 20 and 100

\* parseInt: any integer, also a negative one.
ASSUME PaginationAssumption ==
    /\ (GivenPages \union GivenLimits) \ {Undefined} \subseteq Int
    /\ DefaultLimit \in Nat \ {0} /\ MaxLimit \in Nat \ {0}

Lesser(m, n) == IF m < n THEN m ELSE n
Greater(m, n) == IF m > n THEN m ELSE n

\* What does not parse, and 0, is taken for not given.
parsePagination(page, limit) ==
    [page  |-> Greater(1, IF page = Undefined THEN 1 ELSE page),
     limit |-> Lesser(MaxLimit, Greater(1, IF limit \in {Undefined, 0} THEN DefaultLimit
                                           ELSE limit))]

Skipped(pagination) == (pagination.page - 1) * pagination.limit

\* How many of n rows findMany returns with skip and take.
PageSize(n, pagination) == Lesser(pagination.limit, Greater(0, n - Skipped(pagination)))

ListRoles ==
    [listProblems |-> Anyone, leaderboard |-> Anyone,
     listUsers |-> {"EXAMINER"}, listInterviews |-> {"EXAMINER"}]

Listed(op) ==
    CASE op = "listProblems"   -> {p \in ProblemIds : Live(p)}
      [] op = "leaderboard"    -> {u \in users : hasUserRole(u, "CANDIDATE")}
      [] op = "listUsers"      -> users
      [] op = "listInterviews" -> interviews

ListStarts(r) ==
    \E op \in DOMAIN ListRoles, page \in GivenPages, limit \in GivenLimits :
        /\ Arrives(r, op, ListRoles[op])
        /\ Awaits(r, "none", "list.read",
                  [list |-> op, by |-> parsePagination(page, limit)])

\* One of the queries named by fields is done; after the last of them the
\* handler goes on.
Keeping(r, from, to, fields, field, value) ==
    /\ at[r] = from
    /\ field \notin DOMAIN local[r]
    /\ Awaits(r, from, IF fields \subseteq DOMAIN local[r] \union {field} THEN to ELSE from,
              [f \in DOMAIN local[r] \union {field} |->
                  IF f = field THEN value ELSE local[r][f]])
    /\ UNCHANGED gone

PageQuery(r, field, value) ==
    Keeping(r, "list.read", "list.reply", {"total", "items"}, field, value)

ListCounts(r) ==
    /\ at[r] = "list.read"
    /\ PageQuery(r, "total", Cardinality(Listed(local[r].list)))

ListTakes(r) ==
    /\ at[r] = "list.read"
    /\ PageQuery(r, "items", PageSize(Cardinality(Listed(local[r].list)), local[r].by))

\* The problems of a page get their analytics first, one step more.
ListReplies(r) ==
    /\ at[r] = "list.reply"
    /\ Replies(r, "list.reply", 200, 200)
    /\ UNCHANGED gone

-----------------------------------------------------------------------------
FAILED_SUBMISSION_STATUSES ==
    {"WRONG_ANSWER", "TLE", "MLE", "RUNTIME_ERROR", "COMPILE_ERROR"}

\* The submissions of a problem, grouped by status in one query.
getProblemAnalytics(p) ==
    LET OfStatus(S) == Cardinality({s \in submitted : s.problem = p /\ s.status \in S}) IN
    [submittedCount |-> OfStatus(SubmissionStatus),
     acceptedCount  |-> OfStatus({"ACCEPTED"}),
     failedCount    |-> OfStatus(FAILED_SUBMISSION_STATUSES)]

AssignedCount(p) == Cardinality({a \in assigned : a.problem = p})

ViewFindsProblem(r) ==
    /\ Arrives(r, "viewProblem", Anyone)
    /\ \E p \in ProblemIds :
         IF Live(p) THEN Awaits(r, "none", "view.count", [problem |-> p])
                    ELSE Replies(r, "none", 404, 200)

AnalyticsQuery(r, field, value) ==
    Keeping(r, "view.count", "view.reply", {"assignedCount", "analytics"}, field, value)

ViewCountsAssigned(r) ==
    /\ at[r] = "view.count"
    /\ AnalyticsQuery(r, "assignedCount", AssignedCount(local[r].problem))

\* Variant: the failed ones are counted by a query of their own.
ViewCountsApart(r) ==
    /\ at[r] = "view.count"
    /\ LET analytics == getProblemAnalytics(local[r].problem) IN
       IF "failed" \notin DOMAIN local[r]
       THEN Keeping(r, "view.count", "view.count", {"failed"}, "failed", analytics.failedCount)
       ELSE AnalyticsQuery(r, "analytics", [analytics EXCEPT !.failedCount = local[r].failed])

ViewCounts(r) ==
    /\ at[r] = "view.count"
    /\ AnalyticsQuery(r, "analytics", getProblemAnalytics(local[r].problem))

ViewReplies(r) ==
    /\ at[r] = "view.reply"
    /\ Replies(r, "view.reply", 200, 200)
    /\ UNCHANGED gone

-----------------------------------------------------------------------------
ViewStep(r) ==
    /\ \/ ListStarts(r) \/ ListCounts(r) \/ ListTakes(r) \/ ListReplies(r)
       \/ ViewFindsProblem(r) \/ ViewCountsAssigned(r) \/ ViewCounts(r) \/ ViewReplies(r)
    /\ UNCHANGED <<users, problemTables, interviewTables>>

=============================================================================
