------------------------- MODULE BackendCountProofs -------------------------
(***************************************************************************)
(* Theorems about what Backend counts, for every number of requests and    *)
(* any data: the problems drawn for an interview, the pages and totals of  *)
(* the listings, the analytics of a problem, the summary of the reports.   *)
(* What a request has counted is compared with what the tables hold by     *)
(* the time it answers, whatever other requests have written since.        *)
(***************************************************************************)
EXTENDS BackendProofs, FiniteSetTheorems

-----------------------------------------------------------------------------
(* What a request is sure of that has counted.                             *)

\* Rows are only made one by one, or by the seed script, so every query counts
\* finitely many.
Existing == {p \in ProblemIds : Exists(p)}
TablesFinite ==
    /\ IsFiniteSet(users) /\ IsFiniteSet(Existing) /\ IsFiniteSet(interviews)
    /\ IsFiniteSet(assigned) /\ IsFiniteSet(submitted) /\ IsFiniteSet(reports)

SubmittedOnce == \A s, t \in submitted : s.id = t.id => s = t

\* What the difficulties draw: so many problems each as were asked for.
DrawsCounted(r) ==
    at[r] \in {"interview.draw", "interview.write"} =>
      /\ local[r].counts \in Counts
      /\ \A d \in DOMAIN local[r].drawn :
           IsFiniteSet(local[r].drawn[d]) /\ Cardinality(local[r].drawn[d]) = local[r].counts[d]

\* The two queries of a page, until another request writes.
ListCounted(r) ==
    at[r] \in {"list.read", "list.reply"} =>
      /\ {"list", "by"} \subseteq DOMAIN local[r]
      /\ local[r].list \in DOMAIN ListRoles
      /\ local[r].by.page \in Nat \ {0} /\ local[r].by.limit \in Nat \ {0}
      /\ at[r] = "list.reply" => {"total", "items"} \subseteq DOMAIN local[r]
      /\ "total" \in DOMAIN local[r] /\ ~raced[r] =>
           local[r].total = Cardinality(Listed(local[r].list))
      /\ "items" \in DOMAIN local[r] =>
           /\ local[r].items <= local[r].by.limit
           /\ ~raced[r] => local[r].items = PageSize(Cardinality(Listed(local[r].list)), local[r].by)

\* The submissions of a problem with a status of S.
OfStatus(p, S) == {s \in submitted : s.problem = p /\ s.status \in S}
SubmittedTo(p) == Cardinality(OfStatus(p, SubmissionStatus))

\* What is shown of a problem to which n submissions have been made.
Below(shown, n) ==
    /\ shown.submittedCount \in Nat /\ shown.acceptedCount \in Nat /\ shown.failedCount \in Nat
    /\ shown.submittedCount <= n
    /\ shown.acceptedCount + shown.failedCount <= shown.submittedCount

\* The two counts of a problem, right until another request writes, and never
\* too large: rows are only added, whatever becomes of the status of one.
ViewCounted(r) ==
    at[r] \in {"view.count", "view.reply"} =>
      /\ "problem" \in DOMAIN local[r]
      /\ at[r] = "view.reply" => {"assignedCount", "analytics"} \subseteq DOMAIN local[r]
      /\ "analytics" \in DOMAIN local[r] =>
           /\ Below(local[r].analytics, SubmittedTo(local[r].problem))
           /\ ~raced[r] => local[r].analytics.submittedCount = SubmittedTo(local[r].problem)
      /\ "assignedCount" \in DOMAIN local[r] =>
           /\ local[r].assignedCount \in Nat
           /\ local[r].assignedCount <= AssignedCount(local[r].problem)
           /\ ~raced[r] => local[r].assignedCount = AssignedCount(local[r].problem)

SummaryCounted(r) ==
    /\ at[r] = "summary.assess" =>
         \A e \in DOMAIN local[r].reportsCount :
           /\ local[r].reportsCount[e] \in Nat \ {0}
           /\ local[r].reportsCount[e] <= Count(reports, e)
    /\ at[r] = "summary.reply" =>
         \A e \in DOMAIN local[r].reportsCount :
           /\ local[r].total[e] >= local[r].reportsCount[e]
           /\ local[r].passed[e] <= local[r].total[e]
           /\ determineOverallAssessment(local[r].passed[e], local[r].total[e]) # "NO_DATA"

Counted(r) == DrawsCounted(r) /\ ListCounted(r) /\ ViewCounted(r) /\ SummaryCounted(r)

CountInv == TablesFinite /\ SubmittedOnce /\ \A r \in Requests : Counted(r)

-----------------------------------------------------------------------------
(* The shapes of a step: it counts, looks at rows, or writes some.         *)

CountedPlaces ==
    {"interview.draw", "interview.write", "list.read", "list.reply",
     "view.count", "view.reply", "summary.assess", "summary.reply"}

Counting(r) ==
    \/ InterviewFindsUser(r) \/ DrawProblems(r)
    \/ ListStarts(r) \/ ListCounts(r) \/ ListTakes(r)
    \/ ViewFindsProblem(r) \/ ViewCountsAssigned(r) \/ ViewCounts(r)
    \/ SummaryCounts(r) \/ SummaryAssesses(r)

Uncounted(to) == to \in Awaiting \ CountedPlaces
Elsewhere(from) == from # "done" /\ from # "interview.write"
Looked(r) ==
    \E from : Elsewhere(from) /\
      \/ \E to, keeps : Uncounted(to) /\ Awaits(r, from, to, keeps)
      \/ \E code, success : code \in Nat /\ success \in Nat /\ Replies(r, from, code, success)
Wrote(r) == \E from, code : Elsewhere(from) /\ code \in Nat /\ Commits(r, from, code)

TablesKept ==
    UNCHANGED <<users, problem, assigned, submitted, interviews, candidates, assignments, reports>>

OneMore(T, T2) == \E x : T2 \subseteq T \union {x}
TablesGrow ==
    /\ OneMore(users, users') /\ OneMore(Existing, Existing') /\ OneMore(interviews, interviews')
    /\ OneMore(assigned, assigned') /\ OneMore(submitted, submitted') /\ OneMore(reports, reports')
    /\ assigned \subseteq assigned' /\ submitted \subseteq submitted' /\ reports \subseteq reports'

LEMMA SameIsOneMore == \A T : OneMore(T, T)
  BY DEF OneMore

LEMMA ExistingRows ==
    /\ problem' = problem => Existing' = Existing
    /\ \A p : (\A q \in ProblemIds \ {p} : problem'[q] = problem[q]) => OneMore(Existing, Existing')
<1>1. problem' = problem => Existing' = Existing
  BY DEF Existing, Exists
<1>2. ASSUME NEW p, \A q \in ProblemIds \ {p} : problem'[q] = problem[q]
      PROVE  OneMore(Existing, Existing')
  <2>1. Existing' \subseteq Existing \union {p}
    BY <1>2 DEF Existing, Exists
  <2> QED BY <2>1 DEF OneMore
<1> QED BY <1>1, <1>2

LEMMA KeptTablesGrow ==
    ASSUME TablesKept
    PROVE  TablesGrow
  BY SameIsOneMore, ExistingRows DEF TablesKept, TablesGrow

\* A step that looks, and the tables of whose module are as they were.
LEMMA Shapes ==
    ASSUME NEW r
    PROVE  /\ \A from, to, keeps :
                Elsewhere(from) /\ Uncounted(to) /\ Awaits(r, from, to, keeps) => Looked(r)
           /\ \A from, code, success :
                Elsewhere(from) /\ code \in Nat /\ success \in Nat /\ Replies(r, from, code, success)
                => Looked(r)
           /\ \A from, code : Elsewhere(from) /\ code \in Nat /\ Commits(r, from, code) => Wrote(r)
  BY Zenon DEF Looked, Wrote

LEMMA AwaitsElsewhere ==
    /\ Elsewhere("none") /\ Elsewhere("list.reply") /\ Elsewhere("view.reply")
    /\ Elsewhere("summary.reply")
    /\ \A to : Uncounted(to) => Elsewhere(to)
    /\ Uncounted("signup.hash")
    /\ Uncounted("update.write") /\ Uncounted("remove.write") /\ Uncounted("assign.user")
    /\ Uncounted("assign.write") /\ Uncounted("submit.write")
    /\ Uncounted("testcases.read") /\ Uncounted("testcases.reply")
    /\ Uncounted("candidate.user") /\ Uncounted("candidate.write")
    /\ Uncounted("candidate.delete") /\ Uncounted("time.write")
    /\ Uncounted("assignment.user") /\ Uncounted("assignment.problem")
    /\ Uncounted("assignment.write") /\ Uncounted("assignment.delete")
  BY DEF Awaiting, CountedPlaces, Elsewhere, Uncounted

\* The users a step leaves: the same, or one more.
LEMMA AccountShapes ==
    ASSUME NEW r \in Requests, AccountStep(r)
    PROVE  \/ Looked(r) /\ users' = users
           \/ Wrote(r) /\ \E x : users' = users \union {x}
<1> USE Shapes, AwaitsElsewhere
<1>1. SignupChecks(r) => Looked(r) /\ users' = users
  BY SMT DEF SignupChecks
<1>2. Login(r) => Looked(r) /\ users' = users
  BY SMT DEF Login
<1>3. ASSUME SignupInserts(r)
      PROVE  \/ Looked(r) /\ users' = users
             \/ Wrote(r) /\ \E x : users' = users \union {x}
  <2>1. \/ Replies(r, "signup.hash", 500, 201) /\ users' = users
        \/ /\ Commits(r, "signup.hash", 201)
           /\ users' = users \union {[id |-> r, name |-> local[r].name,
                                      email |-> local[r].email, role |-> "CANDIDATE"]}
    BY <1>3, Zenon DEF SignupInserts
  <2>2. Commits(r, "signup.hash", 201) => Wrote(r)
    OBVIOUS
  <2>3. Replies(r, "signup.hash", 500, 201) => Looked(r)
    OBVIOUS
  <2> QED BY <2>1, <2>2, <2>3
<1> QED BY <1>1, <1>2, <1>3, Zenon DEF AccountStep

\* The tables of the problems, likewise.
ProblemTablesGrow ==
    /\ OneMore(Existing, Existing') /\ OneMore(assigned, assigned') /\ OneMore(submitted, submitted')
    /\ assigned \subseteq assigned' /\ submitted \subseteq submitted'

LEMMA ProblemShapes ==
    ASSUME NEW r \in Requests, ProblemStep(r), ProblemsTypeOK
    PROVE  \/ Looked(r) /\ UNCHANGED problemTables
           \/ Wrote(r) /\ ProblemTablesGrow
<1> USE Shapes, AwaitsElsewhere
<1>1. CreateProblem(r) => \/ Looked(r) /\ UNCHANGED problemTables
                          \/ Wrote(r) /\ ProblemTablesGrow
  <2> SUFFICES ASSUME CreateProblem(r)
               PROVE  \/ Looked(r) /\ UNCHANGED problemTables
                      \/ Wrote(r) /\ ProblemTablesGrow
    OBVIOUS
  <2>1. /\ assigned' = assigned /\ submitted' = submitted
        /\ \/ Replies(r, "none", 400, 201) /\ problem' = problem
           \/ Commits(r, "none", 201) /\ \E row : problem' = [problem EXCEPT ![r] = row]
    BY Zenon DEF CreateProblem
  <2>2. (\E row : problem' = [problem EXCEPT ![r] = row]) => OneMore(Existing, Existing')
    BY ExistingRows DEF ProblemsTypeOK
  <2> QED BY <2>1, <2>2, SameIsOneMore DEF ProblemTablesGrow, problemTables
<1>2. UpdateFindsProblem(r) => Looked(r) /\ UNCHANGED problemTables
  BY SMT DEF UpdateFindsProblem
<1>3. UpdateWritesProblem(r) => Wrote(r) /\ ProblemTablesGrow
  <2> SUFFICES ASSUME UpdateWritesProblem(r) PROVE Wrote(r) /\ ProblemTablesGrow
    OBVIOUS
  <2>1. /\ assigned' = assigned /\ submitted' = submitted /\ Commits(r, "update.write", 200)
        /\ \A q \in ProblemIds \ {local[r].problem} : problem'[q] = problem[q]
    BY DEF UpdateWritesProblem, ProblemsTypeOK
  <2> QED BY <2>1, ExistingRows, SameIsOneMore DEF ProblemTablesGrow
<1>4. RemoveFindsProblem(r) => Looked(r) /\ UNCHANGED problemTables
  BY SMT DEF RemoveFindsProblem
<1>5. RemoveWritesProblem(r) => Wrote(r) /\ ProblemTablesGrow
  <2> SUFFICES ASSUME RemoveWritesProblem(r) PROVE Wrote(r) /\ ProblemTablesGrow
    OBVIOUS
  <2>1. /\ assigned' = assigned /\ submitted' = submitted /\ Commits(r, "remove.write", 204)
        /\ \A q \in ProblemIds \ {local[r].problem} : problem'[q] = problem[q]
    BY DEF RemoveWritesProblem, ProblemsTypeOK
  <2> QED BY <2>1, ExistingRows, SameIsOneMore DEF ProblemTablesGrow
<1>6. AssignFindsProblem(r) => Looked(r) /\ UNCHANGED problemTables
  BY SMT DEF AssignFindsProblem
<1>7. AssignFindsUser(r) => Looked(r) /\ UNCHANGED problemTables
  <2> SUFFICES ASSUME AssignFindsUser(r) PROVE Looked(r) /\ UNCHANGED problemTables
    OBVIOUS
  <2>1. \/ Replies(r, "assign.user", 404, 200) \/ Replies(r, "assign.user", 400, 200)
        \/ \E keeps : Awaits(r, "assign.user", "assign.write", keeps)
    BY Zenon DEF AssignFindsUser
  <2>2. UNCHANGED problemTables
    BY Zenon DEF AssignFindsUser, problemTables
  <2> QED BY <2>1, <2>2
<1>8. AssignUpserts(r) => Wrote(r) /\ ProblemTablesGrow
  BY SameIsOneMore, ExistingRows DEF AssignUpserts, ProblemTablesGrow, OneMore
<1>9. SubmitFindsProblem(r) => Looked(r) /\ UNCHANGED problemTables
  BY SMT DEF SubmitFindsProblem
<1>10. SubmitInserts(r) => Wrote(r) /\ ProblemTablesGrow
  BY SameIsOneMore, ExistingRows DEF SubmitInserts, ProblemTablesGrow, OneMore
<1>11. ReaderFindsProblem(r) => Looked(r) /\ UNCHANGED problemTables
  BY SMT DEF ReaderFindsProblem
<1>12. ReaderReadsTestCases(r) => Looked(r) /\ UNCHANGED problemTables
  BY SMT DEF ReaderReadsTestCases
<1>13. ReaderReplies(r) => Looked(r) /\ UNCHANGED problemTables
  BY SMT DEF ReaderReplies
<1> QED BY <1>1, <1>2, <1>3, <1>4, <1>5, <1>6, <1>7, <1>8, <1>9, <1>10, <1>11, <1>12, <1>13, Zenon
        DEF ProblemStep

LEMMA InterviewShapes ==
    ASSUME NEW r \in Requests, InterviewStep(r) \/ CandidateStep(r) \/ AssignmentStep(r)
    PROVE  \/ (InterviewFindsUser(r) \/ DrawProblems(r)) /\ UNCHANGED interviewTables
           \/ InterviewWrites(r)
           \/ Looked(r) /\ UNCHANGED interviewTables
           \/ Wrote(r) /\ OneMore(interviews, interviews')
<1> USE Shapes, AwaitsElsewhere, SameIsOneMore
<1> DEFINE Kept == Looked(r) /\ UNCHANGED interviewTables
           Grown == Wrote(r) /\ OneMore(interviews, interviews')
<1>1. CreateInterviewAlone(r) => Kept \/ Grown
  BY SMT DEF CreateInterviewAlone, interviewTables, OneMore
<1>2. RenameInterview(r) => Kept \/ Grown
  BY SMT DEF RenameInterview, interviewTables
<1>3. RemoveInterview(r) => Kept \/ Grown
  <2> SUFFICES ASSUME RemoveInterview(r) PROVE Kept \/ Grown
    OBVIOUS
  <2>1. \/ Replies(r, "none", 404, 204) /\ UNCHANGED interviewTables
        \/ Commits(r, "none", 204) /\ \E i : interviews' = interviews \ {i}
    BY Zenon DEF RemoveInterview
  <2> QED BY <2>1 DEF OneMore
<1>4. CandidateFindsInterview(r) => Kept
  BY SMT DEF CandidateFindsInterview
<1>5. CandidateFindsUser(r) => Kept
  BY SMT DEF CandidateFindsUser, interviewTables
<1>6. CandidateInserts(r) => Kept \/ Grown
  BY SMT DEF CandidateInserts, interviewTables
<1>7. UpdateTimeFinds(r) => Kept
  <2> SUFFICES ASSUME UpdateTimeFinds(r) PROVE Kept
    OBVIOUS
  <2>1. \/ Replies(r, "none", 404, 200) \/ Replies(r, "none", 400, 200)
        \/ Replies(r, "none", 200, 200)
        \/ \E keeps : Awaits(r, "none", "time.write", keeps)
    BY Zenon DEF UpdateTimeFinds
  <2>2. UNCHANGED interviewTables
    BY Zenon DEF UpdateTimeFinds
  <2> QED BY <2>1, <2>2
<1>8. UpdateTimeWrites(r) => Kept \/ Grown
  <2> SUFFICES ASSUME UpdateTimeWrites(r) PROVE Kept \/ Grown
    OBVIOUS
  <2>1. /\ \/ Replies(r, "time.write", 500, 200) /\ candidates' = candidates
           \/ Commits(r, "time.write", 200)
        /\ interviews' = interviews /\ assignments' = assignments
    BY Zenon DEF UpdateTimeWrites
  <2> QED BY <2>1 DEF interviewTables
<1>9. RemoveFindsCandidate(r) => Kept
  <2> SUFFICES ASSUME RemoveFindsCandidate(r) PROVE Kept
    OBVIOUS
  <2>1. \/ Replies(r, "none", 404, 204)
        \/ \E keeps : Awaits(r, "none", "candidate.delete", keeps)
    BY Zenon DEF RemoveFindsCandidate
  <2>2. UNCHANGED interviewTables
    BY Zenon DEF RemoveFindsCandidate
  <2> QED BY <2>1, <2>2
<1>10. DeletesCandidate(r) => Kept \/ Grown
  BY SMT DEF DeletesCandidate, interviewTables
<1>11. AssignmentFindsInterview(r) => Kept
  BY SMT DEF AssignmentFindsInterview
<1>12. AssignmentFindsUser(r) => Kept
  BY SMT DEF AssignmentFindsUser, interviewTables
<1>13. AssignmentFindsProblem(r) => Kept
  BY SMT DEF AssignmentFindsProblem, interviewTables
<1>14. AssignmentInserts(r) => Kept \/ Grown
  BY SMT DEF AssignmentInserts, interviewTables
<1>15. RemoveFindsAssignment(r) => Kept
  <2> SUFFICES ASSUME RemoveFindsAssignment(r) PROVE Kept
    OBVIOUS
  <2>1. \/ Replies(r, "none", 404, 204)
        \/ \E keeps : Awaits(r, "none", "assignment.delete", keeps)
    BY Zenon DEF RemoveFindsAssignment
  <2>2. UNCHANGED interviewTables
    BY Zenon DEF RemoveFindsAssignment
  <2> QED BY <2>1, <2>2
<1>16. DeletesAssignment(r) => Kept \/ Grown
  BY SMT DEF DeletesAssignment, interviewTables
<1>17. InterviewFindsUser(r) \/ DrawProblems(r) => UNCHANGED interviewTables
  BY Zenon DEF InterviewFindsUser, DrawProblems, interviewTables
<1> HIDE DEF Kept, Grown
<1> QED
  <2>1. InterviewStep(r) => \/ Kept \/ Grown \/ InterviewWrites(r)
                            \/ InterviewFindsUser(r) \/ DrawProblems(r)
    BY <1>1, <1>2, <1>3, Zenon DEF InterviewStep
  <2>2. CandidateStep(r) => Kept \/ Grown
    BY <1>4, <1>5, <1>6, <1>7, <1>8, <1>9, <1>10, Zenon DEF CandidateStep
  <2>3. AssignmentStep(r) => Kept \/ Grown
    BY <1>11, <1>12, <1>13, <1>14, <1>15, <1>16, Zenon DEF AssignmentStep
  <2> QED BY <2>1, <2>2, <2>3, <1>17, Zenon DEF Kept, Grown

LEMMA ViewShapes ==
    ASSUME NEW r \in Requests, ViewStep(r)
    PROVE  (Counting(r) \/ Looked(r)) /\ UNCHANGED <<users, problemTables, interviewTables>>
<1> USE Shapes, AwaitsElsewhere
<1>1. ListReplies(r) => Looked(r)
  BY SMT DEF ListReplies
<1>2. ViewReplies(r) => Looked(r)
  BY SMT DEF ViewReplies
<1> QED BY <1>1, <1>2, Zenon DEF ViewStep, Counting

LEMMA ReportShapes ==
    ASSUME NEW r \in Requests, ReportStep(r)
    PROVE  \/ (Counting(r) \/ Looked(r)) /\ reports' = reports
           \/ Wrote(r) /\ \E x : reports' = reports \union {x}
<1> USE Shapes, AwaitsElsewhere
<1>1. SummaryReplies(r) => Looked(r) /\ reports' = reports
  BY SMT DEF SummaryReplies
<1>2. SummaryCounts(r) \/ SummaryAssesses(r) => Counting(r) /\ reports' = reports
  BY Zenon DEF SummaryCounts, SummaryAssesses, Counting
<1>3. ASSUME CreateReport(r)
      PROVE  \/ Looked(r) /\ reports' = reports
             \/ Wrote(r) /\ \E x : reports' = reports \union {x}
  <2>1. \/ Replies(r, "none", 401, NotCounted) /\ reports' = reports
        \/ Commits(r, "none", 201) /\ \E x : reports' = reports \union {x}
    BY <1>3, Zenon DEF CreateReport
  <2>2. Replies(r, "none", 401, NotCounted) => Looked(r)
    BY DEF NotCounted
  <2>3. Commits(r, "none", 201) => Wrote(r)
    OBVIOUS
  <2> QED BY <2>1, <2>2, <2>3, Zenon
<1> QED BY <1>1, <1>2, <1>3, Zenon DEF ReportStep

LEMMA RefusalShapes ==
    ASSUME NEW r \in Requests, NEW op, NEW roles, RefuseCaller(r, op, roles)
    PROVE  Looked(r) /\ users' = users
<1>1. PICK code \in {401} \union {403 : u \in {v \in users : ~canActivate(v, roles)}} :
         Replies(r, "none", code, NotCounted)
  BY DEF RefuseCaller
<1>2. code \in Nat
  OBVIOUS
<1> QED BY <1>1, <1>2, Shapes, AwaitsElsewhere DEF RefuseCaller, NotCounted

\* Every step of a request has one of the shapes.
LEMMA StepShapes ==
    ASSUME Inv, NEW r \in Requests, RequestStep(r)
    PROVE  \/ Counting(r) /\ TablesKept
           \/ InterviewWrites(r) /\ UNCHANGED <<users, problem, assigned, submitted, reports>>
           \/ Looked(r) /\ TablesKept
           \/ Wrote(r) /\ TablesGrow
<1> USE SameIsOneMore, ExistingRows
<1>0. ProblemsTypeOK
  BY DEF Inv, BackendTypeOK
<1>1. CASE AccountStep(r) /\ UNCHANGED <<gone, problemTables, interviewTables, reports>>
  <2>1. UNCHANGED <<problem, assigned, submitted, interviews, candidates, assignments, reports>>
    BY <1>1 DEF problemTables, interviewTables
  <2>2. (\E x : users' = users \union {x}) => OneMore(users, users')
    BY DEF OneMore
  <2> QED BY <1>1, <2>1, <2>2, AccountShapes DEF TablesKept, TablesGrow
<1>2. CASE ProblemStep(r) /\ UNCHANGED <<users, interviewTables, reports>>
  <2>1. UNCHANGED <<users, interviews, candidates, assignments, reports>>
    BY <1>2 DEF interviewTables
  <2> QED BY <1>0, <1>2, <2>1, ProblemShapes DEF TablesKept, TablesGrow, ProblemTablesGrow, problemTables
<1>3. CASE /\ InterviewStep(r) \/ CandidateStep(r) \/ AssignmentStep(r)
           /\ UNCHANGED <<users, problemTables, reports>>
  <2>1. UNCHANGED <<users, problem, assigned, submitted, reports>>
    BY <1>3 DEF problemTables
  <2> QED BY <1>3, <2>1, InterviewShapes DEF TablesKept, TablesGrow, interviewTables, Counting
<1>4. CASE ViewStep(r) /\ UNCHANGED reports
  BY <1>4, ViewShapes DEF TablesKept, problemTables, interviewTables
<1>5. CASE ReportStep(r) /\ UNCHANGED <<gone, users, problemTables, interviewTables>>
  <2>1. UNCHANGED <<users, problem, assigned, submitted, interviews, candidates, assignments>>
    BY <1>5 DEF problemTables, interviewTables
  <2>2. (\E x : reports' = reports \union {x}) => OneMore(reports, reports') /\ reports \subseteq reports'
    BY DEF OneMore
  <2> QED BY <1>5, <2>1, <2>2, ReportShapes DEF TablesKept, TablesGrow
<1>6. CASE \E route \in GuardedRoutes :
             /\ RefuseCaller(r, route[1], route[2])
             /\ UNCHANGED <<gone, problemTables, interviewTables, reports>>
  <2>1. Looked(r) /\ users' = users
    BY <1>6, RefusalShapes
  <2> QED BY <1>6, <2>1 DEF TablesKept, problemTables, interviewTables
<1> QED BY <1>1, <1>2, <1>3, <1>4, <1>5, <1>6 DEF RequestStep

LEMMA LookedMoves ==
    ASSUME Inv, NEW r \in Requests, Looked(r)
    PROVE  /\ Moves(r) /\ at[r] # "interview.write" /\ at'[r] \notin CountedPlaces
           /\ \A q \in Requests \ {r} : raced'[q] = raced[q]
<1>h. Handlers
  BY DEF Inv
<1>1. ASSUME NEW from, NEW to, NEW keeps, Elsewhere(from), Uncounted(to), Awaits(r, from, to, keeps)
      PROVE  /\ Moves(r) /\ at[r] # "interview.write" /\ at'[r] \notin CountedPlaces
             /\ \A q \in Requests \ {r} : raced'[q] = raced[q]
  <2>1. to \in Places /\ to \notin {"none", "done"} /\ to \notin CountedPlaces
    BY <1>1 DEF Uncounted, Places, Awaiting
  <2>2. from # "done" /\ from # "interview.write"
    BY <1>1 DEF Elsewhere
  <2>3. Moves(r) /\ at[r] = from /\ at'[r] = to /\ raced' = raced
    BY <1>h, <1>1, <2>1, <2>2, AwaitsMoves
  <2> QED BY <2>1, <2>2, <2>3
<1>2. ASSUME NEW from, NEW code \in Nat, NEW success \in Nat, Elsewhere(from),
             Replies(r, from, code, success)
      PROVE  /\ Moves(r) /\ at[r] # "interview.write" /\ at'[r] \notin CountedPlaces
             /\ \A q \in Requests \ {r} : raced'[q] = raced[q]
  <2>2. from # "done" /\ from # "interview.write"
    BY <1>2 DEF Elsewhere
  <2>3. /\ Moves(r) /\ at[r] = from /\ at'[r] = "done"
        /\ \A q \in Requests \ {r} : raced'[q] = raced[q]
    BY <1>h, <1>2, <2>2, RepliesMoves
  <2> QED BY <2>2, <2>3 DEF CountedPlaces
<1> QED BY <1>1, <1>2 DEF Looked

LEMMA WroteMoves ==
    ASSUME Inv, NEW r \in Requests, Wrote(r)
    PROVE  /\ Moves(r) /\ at[r] # "interview.write" /\ at'[r] \notin CountedPlaces
           /\ \A q \in Requests \ {r} : InFlight(q) => raced'[q]
<1>h. Handlers
  BY DEF Inv
<1>2. PICK from, code : Elsewhere(from) /\ code \in Nat /\ Commits(r, from, code)
  BY DEF Wrote
<1>3. from # "done" /\ from # "interview.write"
  BY <1>2 DEF Elsewhere
<1>4. /\ Moves(r) /\ at[r] = from /\ at'[r] = "done"
      /\ \A q \in Requests \ {r} : InFlight(q) => raced'[q]
  BY <1>h, <1>2, <1>3, CommitsMoves
<1> QED BY <1>3, <1>4 DEF CountedPlaces

-----------------------------------------------------------------------------
(* The tables stay finite, and what is counted in them only grows.         *)

LEMMA OneMoreFinite ==
    ASSUME NEW T, NEW T2, IsFiniteSet(T), OneMore(T, T2)
    PROVE  IsFiniteSet(T2)
<1>1. PICK x : T2 \subseteq T \union {x}
  BY DEF OneMore
<1>2. IsFiniteSet(T \union {x})
  BY FS_AddElement
<1> QED BY <1>1, <1>2, FS_Subset

LEMMA PartOfFinite ==
    ASSUME NEW T, IsFiniteSet(T), NEW S \in SUBSET T
    PROVE  IsFiniteSet(S) /\ Cardinality(S) \in Nat /\ Cardinality(S) <= Cardinality(T)
  BY FS_Subset, FS_CardinalityType

LEMMA GrowingFinite ==
    ASSUME TablesFinite, TablesGrow
    PROVE  TablesFinite'
  BY OneMoreFinite DEF TablesFinite, TablesGrow

\* A page never has more rows than its limit.
LEMMA PageIsLimited ==
    ASSUME NEW n \in Nat, NEW by, by.page \in Nat \ {0}, by.limit \in Nat \ {0}
    PROVE  PageSize(n, by) \in Nat /\ PageSize(n, by) <= by.limit
<1>1. Skipped(by) \in Int
  BY DEF Skipped
<1>2. Greater(0, n - Skipped(by)) \in Nat
  BY <1>1 DEF Greater
<1> QED BY <1>2 DEF PageSize, Lesser

LEMMA PageIsGiven ==
    ASSUME NEW page \in GivenPages, NEW limit \in GivenLimits
    PROVE  /\ parsePagination(page, limit).page \in Nat \ {0}
           /\ parsePagination(page, limit).limit \in Nat \ {0}
  BY PaginationAssumption DEF parsePagination, Greater, Lesser

LEMMA ListedFinite ==
    ASSUME TablesFinite, NEW op \in DOMAIN ListRoles
    PROVE  Cardinality(Listed(op)) \in Nat
<1>1. \/ op = "listProblems" \/ op = "leaderboard" \/ op = "listUsers" \/ op = "listInterviews"
  BY DEF ListRoles
<1>2. CASE op = "listProblems"
  <2>1. Listed(op) = {p \in ProblemIds : Live(p)}
    BY <1>2 DEF Listed
  <2>2. {p \in ProblemIds : Live(p)} \in SUBSET Existing
    BY DEF Live, Existing, Exists
  <2> QED BY <2>1, <2>2, PartOfFinite DEF TablesFinite
<1>3. CASE op = "leaderboard"
  <2>1. Listed(op) = {u \in users : hasUserRole(u, "CANDIDATE")}
    BY <1>3 DEF Listed
  <2> QED BY <2>1, PartOfFinite DEF TablesFinite
<1>4. CASE op = "listUsers"
  <2>1. Listed(op) = users
    BY <1>4 DEF Listed
  <2> QED BY <2>1, FS_CardinalityType DEF TablesFinite
<1>5. CASE op = "listInterviews"
  <2>1. Listed(op) = interviews
    BY <1>5 DEF Listed
  <2> QED BY <2>1, FS_CardinalityType DEF TablesFinite
<1> QED BY <1>1, <1>2, <1>3, <1>4, <1>5

LEMMA AnalyticsOf ==
    ASSUME NEW p
    PROVE  getProblemAnalytics(p) =
             [submittedCount |-> SubmittedTo(p),
              acceptedCount  |-> Cardinality(OfStatus(p, {"ACCEPTED"})),
              failedCount    |-> Cardinality(OfStatus(p, FAILED_SUBMISSION_STATUSES))]
  BY DEF getProblemAnalytics, OfStatus, SubmittedTo

\* The counts of one query: none of them is larger than the number of all.
LEMMA AnalyticsAddUp ==
    ASSUME IsFiniteSet(submitted), NEW p
    PROVE  /\ Below(getProblemAnalytics(p), SubmittedTo(p))
           /\ getProblemAnalytics(p).submittedCount = SubmittedTo(p)
<1> DEFINE all == OfStatus(p, SubmissionStatus)
           accepted == OfStatus(p, {"ACCEPTED"})
           failed == OfStatus(p, FAILED_SUBMISSION_STATUSES)
<1>1. /\ all \in SUBSET submitted /\ accepted \in SUBSET all /\ failed \in SUBSET all
      /\ accepted \intersect failed = {}
  BY DEF OfStatus, SubmissionStatus, FAILED_SUBMISSION_STATUSES
<1>2. /\ SubmittedTo(p) = Cardinality(all)
      /\ getProblemAnalytics(p) = [submittedCount |-> Cardinality(all),
                                   acceptedCount  |-> Cardinality(accepted),
                                   failedCount    |-> Cardinality(failed)]
  BY AnalyticsOf DEF SubmittedTo
<1> HIDE DEF all, accepted, failed
<1>3. /\ IsFiniteSet(all) /\ Cardinality(all) \in Nat
      /\ IsFiniteSet(accepted) /\ Cardinality(accepted) \in Nat
      /\ IsFiniteSet(failed) /\ Cardinality(failed) \in Nat
  BY <1>1, PartOfFinite
<1>4. Cardinality(accepted \union failed) = Cardinality(accepted) + Cardinality(failed)
  <2>1. Cardinality(accepted \union failed) =
          Cardinality(accepted) + Cardinality(failed) - Cardinality(accepted \intersect failed)
    BY <1>3, FS_Union
  <2>2. Cardinality(accepted \intersect failed) = 0
    BY <1>1, FS_EmptySet
  <2> QED BY <2>1, <2>2, <1>3
<1>5. Cardinality(accepted \union failed) <= Cardinality(all)
  <2>1. accepted \union failed \in SUBSET all
    BY <1>1
  <2> QED BY <2>1, <1>3, PartOfFinite
<1> QED BY <1>2, <1>3, <1>4, <1>5 DEF Below

-----------------------------------------------------------------------------
(* A step keeps what the requests have counted.                            *)

LEMMA NothingCounted ==
    ASSUME NEW q, at'[q] \notin CountedPlaces
    PROVE  Counted(q)'
  BY DEF CountedPlaces, Counted, DrawsCounted, ListCounted, ViewCounted, SummaryCounted

\* What has been counted for a view or a summary: the rows are still there.
RowsStay ==
    /\ \A p : AssignedCount(p) \in Nat /\ AssignedCount(p)' \in Nat
              /\ AssignedCount(p) <= AssignedCount(p)'
    /\ \A p : SubmittedTo(p) \in Nat /\ SubmittedTo(p)' \in Nat /\ SubmittedTo(p) <= SubmittedTo(p)'
    /\ \A e : Count(reports, e) \in Nat /\ Count(reports', e) \in Nat
              /\ Count(reports, e) <= Count(reports', e)

LEMMA GrowingRowsStay ==
    ASSUME TablesFinite, TablesFinite',
           assigned \subseteq assigned', submitted \subseteq submitted', reports \subseteq reports'
    PROVE  RowsStay
<1>1. /\ IsFiniteSet(assigned) /\ IsFiniteSet(assigned') /\ IsFiniteSet(submitted)
      /\ IsFiniteSet(submitted') /\ IsFiniteSet(reports) /\ IsFiniteSet(reports')
  BY DEF TablesFinite
<1>2. ASSUME NEW p
      PROVE  /\ AssignedCount(p) \in Nat /\ AssignedCount(p)' \in Nat
             /\ AssignedCount(p) <= AssignedCount(p)'
  <2> DEFINE S == {a \in assigned : a.problem = p}
             T == {a \in assigned' : a.problem = p}
  <2>1. S \in SUBSET assigned /\ T \in SUBSET assigned' /\ S \in SUBSET T
    OBVIOUS
  <2>2. AssignedCount(p) = Cardinality(S) /\ AssignedCount(p)' = Cardinality(T)
    BY DEF AssignedCount
  <2> HIDE DEF S, T
  <2>3. IsFiniteSet(T)
    BY <1>1, <2>1, PartOfFinite
  <2> QED BY <1>1, <2>1, <2>2, <2>3, PartOfFinite
<1>3. ASSUME NEW e
      PROVE  /\ Count(reports, e) \in Nat /\ Count(reports', e) \in Nat
             /\ Count(reports, e) <= Count(reports', e)
  <2> DEFINE S == {x \in reports : x.endpoint = e}
             T == {x \in reports' : x.endpoint = e}
  <2>1. S \in SUBSET reports /\ T \in SUBSET reports' /\ S \in SUBSET T
    OBVIOUS
  <2>2. Count(reports, e) = Cardinality(S) /\ Count(reports', e) = Cardinality(T)
    BY DEF Count
  <2> HIDE DEF S, T
  <2>3. IsFiniteSet(T)
    BY <1>1, <2>1, PartOfFinite
  <2> QED BY <1>1, <2>1, <2>2, <2>3, PartOfFinite
<1>4. ASSUME NEW p
      PROVE  SubmittedTo(p) \in Nat /\ SubmittedTo(p)' \in Nat /\ SubmittedTo(p) <= SubmittedTo(p)'
  <2> DEFINE S == OfStatus(p, SubmissionStatus)
             T == {s \in submitted' : s.problem = p /\ s.status \in SubmissionStatus}
  <2>1. S \in SUBSET submitted /\ T \in SUBSET submitted' /\ S \in SUBSET T
    BY DEF OfStatus
  <2>2. SubmittedTo(p) = Cardinality(S) /\ SubmittedTo(p)' = Cardinality(T)
    BY DEF SubmittedTo, OfStatus, SubmissionStatus
  <2> HIDE DEF S, T
  <2>3. IsFiniteSet(T)
    BY <1>1, <2>1, PartOfFinite
  <2> QED BY <1>1, <2>1, <2>2, <2>3, PartOfFinite
<1> QED BY <1>2, <1>3, <1>4 DEF RowsStay

\* A step after which everything counted is as it was.
CountsKept ==
    /\ UNCHANGED <<users, problem, interviews>>
    /\ \A p : AssignedCount(p)' = AssignedCount(p) /\ SubmittedTo(p)' = SubmittedTo(p)

LEMMA SameRowsSameCounts ==
    ASSUME UNCHANGED <<users, problem, interviews, assigned, submitted>>
    PROVE  CountsKept
  BY DEF CountsKept, AssignedCount, SubmittedTo, OfStatus, SubmissionStatus

ListOrView == {"list.read", "list.reply", "view.count", "view.reply"}

\* A request that stays where it is, whose counts the step either leaves true or
\* marks as raced.
LEMMA OthersCounted ==
    ASSUME NEW q, Counted(q), at'[q] = at[q], local'[q] = local[q], RowsStay,
           \/ at[q] \in ListOrView => raced'[q]
           \/ raced'[q] = raced[q] /\ CountsKept
    PROVE  Counted(q)'
<1> DEFINE L == local[q]
<1>1. DrawsCounted(q)'
  BY DEF Counted, DrawsCounted
<1>2. ListCounted(q)'
  <2>1. CASE at[q] \in ListOrView => raced'[q]
    BY <2>1 DEF Counted, ListCounted, ListOrView
  <2>2. CASE raced'[q] = raced[q] /\ CountsKept
    <3>1. \A op : Listed(op)' = Listed(op)
      BY <2>2 DEF CountsKept, Listed, Live, hasUserRole
    <3> QED BY <2>2, <3>1 DEF Counted, ListCounted
  <2> QED BY <2>1, <2>2
<1>3. ViewCounted(q)'
  <2> SUFFICES ASSUME at[q] \in {"view.count", "view.reply"}
               PROVE  /\ "problem" \in DOMAIN L
                      /\ at[q] = "view.reply" => {"assignedCount", "analytics"} \subseteq DOMAIN L
                      /\ "analytics" \in DOMAIN L =>
                           /\ Below(L.analytics, SubmittedTo(L.problem)')
                           /\ ~raced'[q] => L.analytics.submittedCount = SubmittedTo(L.problem)'
                      /\ "assignedCount" \in DOMAIN L =>
                           /\ L.assignedCount \in Nat
                           /\ L.assignedCount <= AssignedCount(L.problem)'
                           /\ ~raced'[q] => L.assignedCount = AssignedCount(L.problem)'
    BY DEF ViewCounted, Below
  <2>1. /\ "problem" \in DOMAIN L
        /\ at[q] = "view.reply" => {"assignedCount", "analytics"} \subseteq DOMAIN L
        /\ "analytics" \in DOMAIN L =>
             /\ Below(L.analytics, SubmittedTo(L.problem))
             /\ ~raced[q] => L.analytics.submittedCount = SubmittedTo(L.problem)
        /\ "assignedCount" \in DOMAIN L =>
             /\ L.assignedCount \in Nat /\ L.assignedCount <= AssignedCount(L.problem)
             /\ ~raced[q] => L.assignedCount = AssignedCount(L.problem)
    BY DEF Counted, ViewCounted
  <2>2. L' = L
    OBVIOUS
  <2>3. /\ \A p : p = L.problem' => AssignedCount(p)' = AssignedCount(L.problem)'
        /\ \A p : p = L.problem' => SubmittedTo(p)' = SubmittedTo(L.problem)'
    BY DEF AssignedCount, SubmittedTo, OfStatus, SubmissionStatus
  <2>4. \/ raced'[q]
        \/ /\ raced'[q] = raced[q]
           /\ \A p : AssignedCount(p)' = AssignedCount(p) /\ SubmittedTo(p)' = SubmittedTo(p)
    BY DEF CountsKept, ListOrView
  <2> HIDE DEF L
  <2>5. \A shown : \A m, n \in Nat : m <= n /\ Below(shown, m) => Below(shown, n)
    BY DEF Below
  <2> QED BY <2>1, <2>2, <2>3, <2>4, <2>5 DEF RowsStay
<1>4. SummaryCounted(q)'
  <2>1. SummaryCounted(q)
    BY DEF Counted
  <2>2. at[q] = "summary.assess" =>
          \A e \in DOMAIN L.reportsCount :
            L.reportsCount[e] \in Nat \ {0} /\ L.reportsCount[e] <= Count(reports', e)
    <3> SUFFICES ASSUME at[q] = "summary.assess", NEW e \in DOMAIN L.reportsCount
                 PROVE  L.reportsCount[e] \in Nat \ {0} /\ L.reportsCount[e] <= Count(reports', e)
      OBVIOUS
    <3>1. L.reportsCount[e] \in Nat \ {0} /\ L.reportsCount[e] <= Count(reports, e)
      BY <2>1 DEF SummaryCounted
    <3>2. /\ Count(reports, e) \in Nat /\ Count(reports', e) \in Nat
          /\ Count(reports, e) <= Count(reports', e)
      BY DEF RowsStay
    <3> HIDE DEF L
    <3> QED BY <3>1, <3>2
  <2> QED BY <2>1, <2>2 DEF SummaryCounted, determineOverallAssessment
<1> QED BY <1>1, <1>2, <1>3, <1>4 DEF Counted

\* A step after which nobody else has more reason to doubt what it has counted.
Quiet(r) ==
    /\ Moves(r) /\ at[r] # "interview.write"
    /\ \A q \in Requests \ {r} : raced'[q] = raced[q]

LEMMA AwaitsQuietly ==
    ASSUME Inv, NEW r \in Requests, NEW from, NEW to \in CountedPlaces, NEW keeps,
           from # "done", from # "interview.write", Awaits(r, from, to, keeps)
    PROVE  /\ Quiet(r) /\ at[r] = from /\ at'[r] = to /\ local'[r] = keeps
           /\ raced'[r] = raced[r]
<1>1. to \in Places /\ to \notin {"none", "done"}
  BY DEF CountedPlaces, Places, Awaiting
<1>2. Handlers
  BY DEF Inv
<1>3. /\ Moves(r) /\ at[r] = from /\ at'[r] = to /\ local'[r] = keeps
      /\ raced' = raced /\ answer' = answer
  BY <1>1, <1>2, AwaitsMoves
<1> QED BY <1>3 DEF Quiet

LEMMA RepliesQuietly ==
    ASSUME Inv, NEW r \in Requests, NEW from, NEW code \in Nat, NEW success \in Nat,
           from # "done", from # "interview.write", Replies(r, from, code, success)
    PROVE  Quiet(r) /\ Counted(r)'
<1>1. Handlers
  BY DEF Inv
<1>2. /\ Moves(r) /\ at[r] = from /\ at'[r] = "done"
      /\ \A q \in Requests \ {r} : raced'[q] = raced[q]
  BY <1>1, RepliesMoves
<1>3. at'[r] \notin CountedPlaces
  BY <1>2 DEF CountedPlaces
<1> QED BY <1>2, <1>3, NothingCounted DEF Quiet

\* A field more of what the handler has, the others as they were.
LEMMA KeepingOneMore ==
    ASSUME Inv, NEW r \in Requests, NEW from, NEW to, NEW fields, NEW field, NEW value,
           from \in CountedPlaces, to \in CountedPlaces, from # "interview.write",
           Keeping(r, from, to, fields, field, value)
    PROVE  /\ Quiet(r) /\ at[r] = from /\ raced'[r] = raced[r]
           /\ field \notin DOMAIN local[r]
           /\ DOMAIN local'[r] = DOMAIN local[r] \union {field}
           /\ local'[r][field] = value
           /\ \A f \in DOMAIN local[r] : local'[r][f] = local[r][f]
           /\ at'[r] \in {from, to}
           /\ at'[r] = from \/ fields \subseteq DOMAIN local'[r]
<1> DEFINE next == IF fields \subseteq DOMAIN local[r] \union {field} THEN to ELSE from
           keeps == [f \in DOMAIN local[r] \union {field} |->
                       IF f = field THEN value ELSE local[r][f]]
<1>1. /\ at[r] = from /\ Awaits(r, from, next, keeps) /\ next \in CountedPlaces
      /\ field \notin DOMAIN local[r]
  BY DEF Keeping
<1>2. /\ DOMAIN keeps = DOMAIN local[r] \union {field} /\ keeps[field] = value
      /\ \A f \in DOMAIN local[r] : f # field => keeps[f] = local[r][f]
  OBVIOUS
<1>3. next \in {from, to} /\ (next = from \/ fields \subseteq DOMAIN local[r] \union {field})
  OBVIOUS
<1> HIDE DEF next, keeps
<1>4. from # "done"
  BY DEF CountedPlaces
<1>5. /\ Quiet(r) /\ at'[r] = next /\ local'[r] = keeps /\ raced'[r] = raced[r]
  BY <1>1, <1>4, AwaitsQuietly
<1> QED BY <1>1, <1>2, <1>3, <1>5

\* What a step that writes nothing counts is what there is after it.
LEMMA SameCounts ==
    ASSUME TablesKept
    PROVE  /\ \A op : Listed(op)' = Listed(op)
           /\ \A p : AssignedCount(p)' = AssignedCount(p)
           /\ \A p : SubmittedTo(p)' = SubmittedTo(p)
           /\ reports' = reports
  BY DEF TablesKept, Listed, Live, hasUserRole, AssignedCount, SubmittedTo, OfStatus, SubmissionStatus

LEMMA ListStartsCounts ==
    ASSUME Inv, NEW r \in Requests, TablesKept, ListStarts(r)
    PROVE  Quiet(r) /\ Counted(r)'
<1>1. PICK op \in DOMAIN ListRoles, page \in GivenPages, limit \in GivenLimits :
        Awaits(r, "none", "list.read", [list |-> op, by |-> parsePagination(page, limit)])
  BY DEF ListStarts
<1> DEFINE by == parsePagination(page, limit)
           keeps == [list |-> op, by |-> by]
<1>2. by.page \in Nat \ {0} /\ by.limit \in Nat \ {0}
  BY PageIsGiven
<1> HIDE DEF by
<1>3. /\ DOMAIN keeps = {"list", "by"} /\ keeps.list = op /\ keeps.by = by
      /\ "total" \notin DOMAIN keeps /\ "items" \notin DOMAIN keeps
  OBVIOUS
<1>4. Awaits(r, "none", "list.read", keeps) /\ "list.read" \in CountedPlaces
  BY <1>1 DEF CountedPlaces, by
<1> HIDE DEF keeps
<1>5. Quiet(r) /\ at'[r] = "list.read" /\ local'[r] = keeps
  BY <1>4, AwaitsQuietly
<1>6. ListCounted(r)'
  BY <1>2, <1>3, <1>5 DEF ListCounted
<1> QED BY <1>5, <1>6 DEF Counted, DrawsCounted, ViewCounted, SummaryCounted

LEMMA ListCountsCounts ==
    ASSUME Inv, TablesFinite, NEW r \in Requests, Counted(r), TablesKept, ListCounts(r) \/ ListTakes(r)
    PROVE  Quiet(r) /\ Counted(r)'
<1> DEFINE L == local[r]
           number == Cardinality(Listed(L.list))
<1>1. PICK field \in {"total", "items"} :
        /\ at[r] = "list.read"
        /\ PageQuery(r, field, IF field = "total" THEN number ELSE PageSize(number, L.by))
  BY DEF ListCounts, ListTakes
<1> DEFINE value == IF field = "total" THEN number ELSE PageSize(number, L.by)
<1>2. Keeping(r, "list.read", "list.reply", {"total", "items"}, field, value)
  BY <1>1 DEF PageQuery
<1> HIDE DEF value
<1>3. "list.read" \in CountedPlaces /\ "list.reply" \in CountedPlaces
  BY DEF CountedPlaces
<1>4. /\ Quiet(r) /\ raced'[r] = raced[r]
      /\ field \notin DOMAIN L
      /\ DOMAIN local'[r] = DOMAIN L \union {field}
      /\ local'[r][field] = value
      /\ \A f \in DOMAIN L : local'[r][f] = L[f]
      /\ at'[r] \in {"list.read", "list.reply"}
      /\ at'[r] = "list.read" \/ {"total", "items"} \subseteq DOMAIN local'[r]
  BY <1>2, <1>3, KeepingOneMore
<1>5. /\ {"list", "by"} \subseteq DOMAIN L /\ L.list \in DOMAIN ListRoles
      /\ L.by.page \in Nat \ {0} /\ L.by.limit \in Nat \ {0}
      /\ "total" \in DOMAIN L /\ ~raced[r] => L.total = number
      /\ "items" \in DOMAIN L =>
           /\ L.items <= L.by.limit
           /\ ~raced[r] => L.items = PageSize(number, L.by)
  BY <1>1 DEF Counted, ListCounted
<1>6. number \in Nat
  BY <1>5, ListedFinite
<1>7. \A op : Listed(op)' = Listed(op)
  BY SameCounts
<1>8. PICK M : M = local'[r]
  OBVIOUS
<1>9. M.list = L.list /\ M.by = L.by /\ {"list", "by"} \subseteq DOMAIN M
  BY <1>4, <1>5, <1>8
<1>10. /\ "total" \in DOMAIN M /\ ~raced[r] => M.total = number
       /\ "items" \in DOMAIN M =>
            /\ M.items <= L.by.limit
            /\ ~raced[r] => M.items = PageSize(number, L.by)
  <2>1. CASE field = "total"
    <3>1. value = number /\ (("items" \in DOMAIN M) <=> ("items" \in DOMAIN L))
      BY <1>4, <1>8, <2>1 DEF value
    <3>2. M.total = number /\ ("items" \in DOMAIN L => M.items = L.items)
      BY <1>4, <1>8, <2>1, <3>1
    <3> QED BY <1>5, <3>1, <3>2
  <2>2. CASE field = "items"
    <3>1. value = PageSize(number, L.by) /\ (("total" \in DOMAIN M) <=> ("total" \in DOMAIN L))
      BY <1>4, <1>8, <2>2 DEF value
    <3>2. M.items = PageSize(number, L.by) /\ ("total" \in DOMAIN L => M.total = L.total)
      BY <1>4, <1>8, <2>2, <3>1
    <3>3. PageSize(number, L.by) <= L.by.limit
      BY <1>5, <1>6, PageIsLimited
    <3> QED BY <1>5, <3>1, <3>2, <3>3
  <2> QED BY <1>1, <2>1, <2>2
<1>11. Cardinality(Listed(M.list)') = number /\ PageSize(number, M.by) = PageSize(number, L.by)
  BY <1>7, <1>9
<1> HIDE DEF L, number
<1>12. ListCounted(r)'
  <2>1. local'[r] = M /\ raced'[r] = raced[r]
        /\ (at'[r] = "list.reply" => {"total", "items"} \subseteq DOMAIN M)
    BY <1>4, <1>8
  <2>2. \A op, by, n : op = M.list /\ by = M.by /\ n = number =>
           Cardinality(Listed(op)') = n /\ PageSize(n, by)' = PageSize(n, M.by)
    BY <1>11 DEF PageSize, Skipped, Lesser, Greater
  <2> QED BY <1>5, <1>9, <1>10, <1>11, <2>1, <2>2 DEF ListCounted
<1> QED BY <1>4, <1>12 DEF Counted, DrawsCounted, ViewCounted, SummaryCounted

LEMMA ViewFindsCounts ==
    ASSUME Inv, NEW r \in Requests, TablesKept, ViewFindsProblem(r)
    PROVE  Quiet(r) /\ Counted(r)'
<1>1. PICK p \in ProblemIds : \/ Awaits(r, "none", "view.count", [problem |-> p])
                              \/ Replies(r, "none", 404, 200)
  BY DEF ViewFindsProblem
<1>2. CASE Replies(r, "none", 404, 200)
  BY <1>2, RepliesQuietly
<1>3. CASE Awaits(r, "none", "view.count", [problem |-> p])
  <2> DEFINE keeps == [problem |-> p]
  <2>1. /\ "problem" \in DOMAIN keeps
        /\ "assignedCount" \notin DOMAIN keeps /\ "analytics" \notin DOMAIN keeps
    OBVIOUS
  <2>2. Awaits(r, "none", "view.count", keeps) /\ "view.count" \in CountedPlaces
    BY <1>3 DEF CountedPlaces
  <2> HIDE DEF keeps
  <2>3. Quiet(r) /\ at'[r] = "view.count" /\ local'[r] = keeps
    BY <2>2, AwaitsQuietly
  <2>4. ViewCounted(r)'
    BY <2>1, <2>3 DEF ViewCounted
  <2> QED BY <2>3, <2>4 DEF Counted, DrawsCounted, ListCounted, SummaryCounted
<1> QED BY <1>1, <1>2, <1>3

LEMMA ViewCountsCounts ==
    ASSUME Inv, TablesFinite, NEW r \in Requests, Counted(r), TablesKept,
           ViewCountsAssigned(r) \/ ViewCounts(r)
    PROVE  Quiet(r) /\ Counted(r)'
<1> DEFINE L == local[r]
           known == AssignedCount(L.problem)
           shown == getProblemAnalytics(L.problem)
           all == SubmittedTo(L.problem)
<1>1. PICK field \in {"assignedCount", "analytics"} :
        /\ at[r] = "view.count"
        /\ AnalyticsQuery(r, field, IF field = "analytics" THEN shown ELSE known)
  BY DEF ViewCountsAssigned, ViewCounts
<1> DEFINE value == IF field = "analytics" THEN shown ELSE known
<1>2. Keeping(r, "view.count", "view.reply", {"assignedCount", "analytics"}, field, value)
  BY <1>1 DEF AnalyticsQuery
<1> HIDE DEF value
<1>3. "view.count" \in CountedPlaces /\ "view.reply" \in CountedPlaces
  BY DEF CountedPlaces
<1>4. /\ Quiet(r) /\ raced'[r] = raced[r]
      /\ field \notin DOMAIN L
      /\ DOMAIN local'[r] = DOMAIN L \union {field}
      /\ local'[r][field] = value
      /\ \A f \in DOMAIN L : local'[r][f] = L[f]
      /\ at'[r] \in {"view.count", "view.reply"}
      /\ at'[r] = "view.count" \/ {"assignedCount", "analytics"} \subseteq DOMAIN local'[r]
  BY <1>2, <1>3, KeepingOneMore
<1>5. /\ "problem" \in DOMAIN L
      /\ "analytics" \in DOMAIN L =>
           /\ Below(L.analytics, all)
           /\ ~raced[r] => L.analytics.submittedCount = all
      /\ "assignedCount" \in DOMAIN L =>
           /\ L.assignedCount \in Nat /\ L.assignedCount <= known
           /\ ~raced[r] => L.assignedCount = known
  BY <1>1 DEF Counted, ViewCounted
<1>6. Below(shown, all) /\ shown.submittedCount = all /\ known \in Nat
  <2>1. IsFiniteSet(submitted) /\ IsFiniteSet(assigned)
    BY DEF TablesFinite
  <2>2. {a \in assigned : a.problem = L.problem} \in SUBSET assigned
    OBVIOUS
  <2>3. known \in Nat
    BY <2>1, <2>2, PartOfFinite DEF AssignedCount
  <2> QED BY <2>1, <2>3, AnalyticsAddUp
<1>7. \A p : AssignedCount(p)' = AssignedCount(p) /\ SubmittedTo(p)' = SubmittedTo(p)
  BY SameCounts
<1>8. PICK M : M = local'[r]
  OBVIOUS
<1>9. M.problem = L.problem /\ "problem" \in DOMAIN M
  BY <1>4, <1>5, <1>8
<1>10. AssignedCount(M.problem)' = known /\ SubmittedTo(M.problem)' = all
  BY <1>7, <1>9
<1> HIDE DEF L, known, shown, all
<1>11. /\ "analytics" \in DOMAIN M =>
            /\ Below(M.analytics, all)
            /\ ~raced[r] => M.analytics.submittedCount = all
       /\ "assignedCount" \in DOMAIN M =>
            /\ M.assignedCount \in Nat /\ M.assignedCount <= known
            /\ ~raced[r] => M.assignedCount = known
  <2>1. CASE field = "analytics"
    <3>1. value = shown /\ (("assignedCount" \in DOMAIN M) <=> ("assignedCount" \in DOMAIN L))
      BY <1>4, <1>8, <2>1 DEF value
    <3>2. M.analytics = shown /\ ("assignedCount" \in DOMAIN L => M.assignedCount = L.assignedCount)
      BY <1>4, <1>8, <2>1, <3>1
    <3> QED BY <1>5, <1>6, <3>1, <3>2
  <2>2. CASE field = "assignedCount"
    <3>1. value = known /\ (("analytics" \in DOMAIN M) <=> ("analytics" \in DOMAIN L))
      BY <1>4, <1>8, <2>2 DEF value
    <3>2. M.assignedCount = known /\ ("analytics" \in DOMAIN L => M.analytics = L.analytics)
      BY <1>4, <1>8, <2>2, <3>1
    <3>3. known <= known
      BY <1>6
    <3> QED BY <1>5, <1>6, <3>1, <3>2, <3>3
  <2> QED BY <1>1, <2>1, <2>2
<1>12. ViewCounted(r)'
  <2>1. local'[r] = M /\ raced'[r] = raced[r]
        /\ (at'[r] = "view.reply" => {"assignedCount", "analytics"} \subseteq DOMAIN M)
    BY <1>4, <1>8
  <2>2. \A p : p = M.problem => AssignedCount(p)' = known /\ SubmittedTo(p)' = all
    BY <1>10 DEF AssignedCount, SubmittedTo, OfStatus, SubmissionStatus
  <2>3. \A shown0, n : Below(shown0, n)' = Below(shown0, n)
    BY DEF Below
  <2> QED BY <1>9, <1>11, <2>1, <2>2, <2>3 DEF ViewCounted, Below
<1> QED BY <1>4, <1>12 DEF Counted, DrawsCounted, ListCounted, SummaryCounted

LEMMA SummaryCountsCounts ==
    ASSUME Inv, TablesFinite, NEW r \in Requests, TablesKept, SummaryCounts(r)
    PROVE  Quiet(r) /\ Counted(r)'
<1> DEFINE listed == {x.endpoint : x \in reports}
           keeps == [reportsCount |-> [e \in listed |-> Count(reports, e)]]
<1>1. Awaits(r, "none", "summary.assess", keeps) /\ "summary.assess" \in CountedPlaces
  BY DEF SummaryCounts, CountedPlaces
<1>2. ASSUME NEW e \in listed PROVE Count(reports, e) \in Nat \ {0}
  <2> DEFINE S == {x \in reports : x.endpoint = e}
  <2>1. Count(reports, e) = Cardinality(S) /\ S \in SUBSET reports /\ S # {}
    BY DEF Count
  <2>2. IsFiniteSet(reports)
    BY DEF TablesFinite
  <2> HIDE DEF S
  <2> QED BY <2>1, <2>2, PartOfFinite, FS_EmptySet
<1>3. DOMAIN keeps.reportsCount = listed /\ \A e \in listed : keeps.reportsCount[e] = Count(reports, e)
  OBVIOUS
<1> HIDE DEF keeps, listed
<1>4. Quiet(r) /\ at'[r] = "summary.assess" /\ local'[r] = keeps
  BY <1>1, AwaitsQuietly
<1>5. SummaryCounted(r)'
  <2>1. reports' = reports
    BY DEF TablesKept
  <2>2. \A e \in DOMAIN keeps.reportsCount :
          /\ keeps.reportsCount[e] \in Nat \ {0}
          /\ keeps.reportsCount[e] <= Count(reports, e)
    BY <1>2, <1>3
  <2> QED BY <1>4, <2>1, <2>2 DEF SummaryCounted
<1> QED BY <1>4, <1>5 DEF Counted, DrawsCounted, ListCounted, ViewCounted

LEMMA SummaryAssessesCounts ==
    ASSUME Inv, TablesFinite, NEW r \in Requests, Counted(r), TablesKept, SummaryAssesses(r)
    PROVE  Quiet(r) /\ Counted(r)'
<1> DEFINE listed == DOMAIN local[r].reportsCount
           good == {x \in reports : x.assessment = "PASSED"}
           keeps == [reportsCount |-> local[r].reportsCount,
                     total  |-> [e \in listed |-> Count(reports, e)],
                     passed |-> [e \in listed |-> Count(good, e)]]
<1>1. /\ at[r] = "summary.assess" /\ Awaits(r, "summary.assess", "summary.reply", keeps)
      /\ "summary.reply" \in CountedPlaces
  BY DEF SummaryAssesses, Awaits, Goes, CountedPlaces
<1>2. \A e \in listed : /\ local[r].reportsCount[e] \in Nat \ {0}
                        /\ local[r].reportsCount[e] <= Count(reports, e)
  BY <1>1 DEF Counted, SummaryCounted
<1>3. ASSUME NEW e \in listed
      PROVE  Count(reports, e) \in Nat /\ Count(good, e) \in Nat /\ Count(good, e) <= Count(reports, e)
  <2> DEFINE S == {x \in reports : x.endpoint = e}
             T == {x \in good : x.endpoint = e}
  <2>1. /\ Count(reports, e) = Cardinality(S) /\ Count(good, e) = Cardinality(T)
        /\ S \in SUBSET reports /\ T \in SUBSET S
    BY DEF Count
  <2>2. IsFiniteSet(reports)
    BY DEF TablesFinite
  <2> HIDE DEF S, T
  <2> QED BY <2>1, <2>2, PartOfFinite
<1>4. /\ keeps.reportsCount = local[r].reportsCount
      /\ \A e \in listed : keeps.total[e] = Count(reports, e) /\ keeps.passed[e] = Count(good, e)
  OBVIOUS
<1>5. \A passed, total \in Nat : total # 0 => determineOverallAssessment(passed, total) # "NO_DATA"
  BY DEF determineOverallAssessment
<1> HIDE DEF keeps, good
<1>6. \A e \in listed :
        /\ keeps.total[e] >= keeps.reportsCount[e]
        /\ keeps.passed[e] <= keeps.total[e]
        /\ determineOverallAssessment(keeps.passed[e], keeps.total[e]) # "NO_DATA"
  BY <1>2, <1>3, <1>4, <1>5
<1>7. Quiet(r) /\ at'[r] = "summary.reply" /\ local'[r] = keeps
  BY <1>1, AwaitsQuietly
<1>8. SummaryCounted(r)'
  BY <1>4, <1>6, <1>7 DEF SummaryCounted, determineOverallAssessment
<1> QED BY <1>7, <1>8 DEF Counted, DrawsCounted, ListCounted, ViewCounted

LEMMA InterviewFindsCounts ==
    ASSUME Inv, NEW r \in Requests, InterviewFindsUser(r)
    PROVE  Quiet(r) /\ Counted(r)'
<1>1. PICK id \in UserIds, counts \in Counts :
        \/ Replies(r, "none", 404, 201)
        \/ Awaits(r, "none", DrawOrWrite(UndrawnOf(counts)),
                  [user |-> id, counts |-> counts,
                   drawn |-> [d \in Difficulties \ UndrawnOf(counts) |-> {}]])
  BY DEF InterviewFindsUser
<1>2. CASE Replies(r, "none", 404, 201)
  BY <1>2, RepliesQuietly
<1>3. CASE ~Replies(r, "none", 404, 201)
  <2> DEFINE drawn == [d \in Difficulties \ UndrawnOf(counts) |-> {}]
             keeps == [user |-> id, counts |-> counts, drawn |-> drawn]
             to == DrawOrWrite(UndrawnOf(counts))
  <2>1. Awaits(r, "none", to, keeps)
    BY <1>1, <1>3
  <2>2. keeps.counts = counts /\ keeps.drawn = drawn
    OBVIOUS
  <2>3. to \in {"interview.draw", "interview.write"} /\ to \in CountedPlaces
    BY DEF DrawOrWrite, CountedPlaces
  <2>4. ASSUME NEW d \in DOMAIN drawn
        PROVE  IsFiniteSet(drawn[d]) /\ Cardinality(drawn[d]) = counts[d]
    <3>1. drawn[d] = {} /\ d \in Difficulties /\ ~(counts[d] > 0)
      BY DEF UndrawnOf
    <3>2. counts \in [Difficulties -> Nat]
      BY InterviewsAssumption DEF Counts
    <3>3. counts[d] = 0
      BY <3>1, <3>2
    <3> HIDE DEF drawn
    <3> QED BY <3>1, <3>3, FS_EmptySet
  <2> HIDE DEF drawn, keeps, to
  <2>5. Quiet(r) /\ at'[r] = to /\ local'[r] = keeps
    BY <2>1, <2>3, AwaitsQuietly
  <2>6. DrawsCounted(r)'
    BY <2>2, <2>4, <2>5 DEF DrawsCounted, Counts
  <2> QED BY <2>3, <2>5, <2>6 DEF Counted, ListCounted, ViewCounted, SummaryCounted
<1> QED BY <1>2, <1>3

LEMMA DrawsAreCounted ==
    ASSUME Inv, TablesFinite, NEW r \in Requests, Counted(r), DrawProblems(r)
    PROVE  Quiet(r) /\ Counted(r)'
<1> DEFINE L == local[r]
<1>0. at[r] = "interview.draw"
  BY DEF DrawProblems
<1>1. PICK d \in Difficulties \ DOMAIN L.drawn :
        IF Cardinality(Drawable(d)) < L.counts[d]
        THEN Replies(r, "interview.draw", 400, 201)
        ELSE \E picks \in SUBSET Drawable(d) :
               /\ Cardinality(picks) = L.counts[d]
               /\ LET drawn == [e \in DOMAIN L.drawn \union {d} |->
                                  IF e = d THEN picks ELSE L.drawn[e]]
                  IN Awaits(r, "interview.draw",
                       DrawOrWrite(Difficulties \ DOMAIN drawn),
                       [L EXCEPT !.drawn = drawn])
  BY DEF DrawProblems
<1>2. CASE Replies(r, "interview.draw", 400, 201)
  BY <1>2, RepliesQuietly
<1>3. CASE ~Replies(r, "interview.draw", 400, 201)
  <2>1. PICK picks \in SUBSET Drawable(d) :
          /\ Cardinality(picks) = L.counts[d]
          /\ LET drawn == [e \in DOMAIN L.drawn \union {d} |->
                             IF e = d THEN picks ELSE L.drawn[e]]
             IN Awaits(r, "interview.draw", DrawOrWrite(Difficulties \ DOMAIN drawn),
                       [L EXCEPT !.drawn = drawn])
    BY <1>1, <1>3
  <2> DEFINE drawn == [e \in DOMAIN L.drawn \union {d} |-> IF e = d THEN picks ELSE L.drawn[e]]
             keeps == [L EXCEPT !.drawn = drawn]
             to == DrawOrWrite(Difficulties \ DOMAIN drawn)
  <2>2. Awaits(r, "interview.draw", to, keeps)
    BY <2>1
  <2>3. /\ DOMAIN drawn = DOMAIN L.drawn \union {d} /\ drawn[d] = picks
        /\ \A e \in DOMAIN drawn : e # d => e \in DOMAIN L.drawn /\ drawn[e] = L.drawn[e]
    OBVIOUS
  <2>4. to \in {"interview.draw", "interview.write"} /\ to \in CountedPlaces
    BY DEF DrawOrWrite, CountedPlaces
  <2> HIDE DEF drawn, to
  <2>5. L = [user |-> L.user, counts |-> L.counts, drawn |-> L.drawn]
    BY <1>0 DEF Inv, Knows, KnowsDraws
  <2>6. keeps.counts = L.counts /\ keeps.drawn = drawn
    BY <2>5
  <2>7. IsFiniteSet(picks)
    <3>1. picks \in SUBSET Existing
      BY DEF Drawable, Live, Existing, Exists
    <3> QED BY <3>1, PartOfFinite DEF TablesFinite
  <2>8. /\ L.counts \in Counts
        /\ \A e \in DOMAIN L.drawn :
             IsFiniteSet(L.drawn[e]) /\ Cardinality(L.drawn[e]) = L.counts[e]
    BY <1>0 DEF Counted, DrawsCounted
  <2> HIDE DEF keeps, L
  <2>9. \A e \in DOMAIN drawn : IsFiniteSet(drawn[e]) /\ Cardinality(drawn[e]) = L.counts[e]
    BY <2>1, <2>3, <2>7, <2>8
  <2>10. Quiet(r) /\ at'[r] = to /\ local'[r] = keeps
    BY <2>2, <2>4, AwaitsQuietly
  <2>11. DrawsCounted(r)'
    BY <2>6, <2>8, <2>9, <2>10 DEF DrawsCounted, Counts
  <2> QED BY <2>4, <2>10, <2>11 DEF Counted, ListCounted, ViewCounted, SummaryCounted
<1> QED BY <1>2, <1>3

\* Whatever a request counts, it is right about.
LEMMA CountingCounts ==
    ASSUME Inv, TablesFinite, NEW r \in Requests, Counted(r), TablesKept, Counting(r)
    PROVE  Quiet(r) /\ Counted(r)'
  BY InterviewFindsCounts, DrawsAreCounted, ListStartsCounts, ListCountsCounts, ViewFindsCounts,
     ViewCountsCounts, SummaryCountsCounts, SummaryAssessesCounts DEF Counting

\* The transaction of an interview, whether it is rolled back or not.
LEMMA WritingInterview ==
    ASSUME Inv, NEW r \in Requests, InterviewWrites(r),
           UNCHANGED <<users, problem, assigned, submitted, reports>>
    PROVE  /\ Moves(r) /\ at[r] = "interview.write" /\ at'[r] = "done"
           /\ \/ CountsKept /\ interviews' = interviews /\ \A q \in Requests \ {r} : raced'[q] = raced[q]
              \/ TablesGrow /\ \A q \in Requests \ {r} : InFlight(q) => raced'[q]
<1>h. Handlers
  BY DEF Inv
<1>1. CASE DrawnTwice(r)
  <2>1. Replies(r, "interview.write", 500, 201) /\ interviews' = interviews
    BY <1>1 DEF InterviewWrites, interviewTables
  <2>2. /\ Moves(r) /\ at[r] = "interview.write" /\ at'[r] = "done"
        /\ \A q \in Requests \ {r} : raced'[q] = raced[q]
    BY <1>h, <2>1, RepliesMoves
  <2> QED BY <2>1, <2>2, SameRowsSameCounts
<1>2. CASE ~DrawnTwice(r)
  <2>1. Commits(r, "interview.write", 201) /\ interviews' = interviews \union {r}
    BY <1>2 DEF InterviewWrites
  <2>2. TablesGrow
    BY <2>1, SameIsOneMore, ExistingRows DEF TablesGrow, OneMore
  <2>3. /\ Moves(r) /\ at[r] = "interview.write" /\ at'[r] = "done"
        /\ \A q \in Requests \ {r} : InFlight(q) => raced'[q]
    BY <1>h, <2>1, CommitsMoves
  <2> QED BY <2>2, <2>3
<1> QED BY <1>1, <1>2

\* The rest of CountInv but for the ids of the submissions.
LEMMA RequestCounts ==
    ASSUME Inv, TablesFinite, \A q \in Requests : Counted(q), NEW r \in Requests, RequestStep(r)
    PROVE  TablesFinite' /\ \A q \in Requests : Counted(q)'
<1>1. TablesGrow
  <2>1. CASE InterviewWrites(r) /\ UNCHANGED <<users, problem, assigned, submitted, reports>>
    <3>1. interviews' = interviews => TablesGrow
      BY <2>1, SameIsOneMore, ExistingRows DEF TablesGrow
    <3> QED BY <2>1, <3>1, WritingInterview
  <2> QED BY <2>1, StepShapes, KeptTablesGrow
<1>2. TablesFinite'
  BY <1>1, GrowingFinite
<1>3. RowsStay
  BY <1>1, <1>2, GrowingRowsStay DEF TablesGrow
<1>4. /\ Moves(r) /\ Counted(r)'
      /\ \/ CountsKept /\ \A q \in Requests \ {r} : raced'[q] = raced[q]
         \/ \A q \in Requests \ {r} : InFlight(q) => raced'[q]
  <2>1. CASE Counting(r) /\ TablesKept
    BY <2>1, CountingCounts, SameRowsSameCounts DEF Quiet, TablesKept
  <2>2. CASE InterviewWrites(r) /\ UNCHANGED <<users, problem, assigned, submitted, reports>>
    <3>1. at'[r] = "done" => at'[r] \notin CountedPlaces
      BY DEF CountedPlaces
    <3>2. /\ Moves(r) /\ at'[r] = "done"
          /\ \/ CountsKept /\ \A q \in Requests \ {r} : raced'[q] = raced[q]
             \/ TablesGrow /\ \A q \in Requests \ {r} : InFlight(q) => raced'[q]
      BY <2>2, WritingInterview
    <3> QED BY <2>2, <3>1, <3>2, NothingCounted
  <2>3. CASE Looked(r) /\ TablesKept
    BY <2>3, LookedMoves, NothingCounted, SameRowsSameCounts DEF TablesKept
  <2>4. CASE Wrote(r) /\ TablesGrow
    BY <2>4, WroteMoves, NothingCounted
  <2> QED BY <2>1, <2>2, <2>3, <2>4, StepShapes
<1>5. ASSUME NEW q \in Requests \ {r} PROVE Counted(q)'
  <2>1. at'[q] = at[q] /\ local'[q] = local[q] /\ Counted(q)
    BY <1>4 DEF Moves
  <2>2. at[q] \in ListOrView => InFlight(q)
    BY DEF InFlight, ListOrView
  <2> QED BY <1>3, <1>4, <2>1, <2>2, OthersCounted
<1> QED BY <1>2, <1>4, <1>5

\* No request makes a second submission: the first was its answer.
LEMMA RequestSubmitsOnce ==
    ASSUME Inv, SubmittedOnce, NEW r \in Requests, RequestStep(r)
    PROVE  SubmittedOnce'
<1>1. CASE submitted' = submitted
  BY <1>1 DEF SubmittedOnce
<1>2. CASE SubmitInserts(r)
  <2>1. submitted' = submitted \union {[id |-> r, problem |-> local[r].problem, status |-> "PENDING"]}
    BY <1>2 DEF SubmitInserts
  <2>2. at[r] = "submit.write"
    BY <1>2 DEF SubmitInserts, Commits, Goes
  <2>3. \A s \in submitted : s.id # r
    BY <2>2 DEF Inv, Makers
  <2> QED BY <2>1, <2>3 DEF SubmittedOnce
<1>3. submitted' = submitted \/ SubmitInserts(r)
  <2>1. ProblemStep(r) => submitted' = submitted \/ SubmitInserts(r)
    BY SMT DEF ProblemStep, problemTables, CreateProblem, UpdateFindsProblem, UpdateWritesProblem,
           RemoveFindsProblem, RemoveWritesProblem, AssignFindsProblem, AssignFindsUser,
           AssignUpserts, SubmitFindsProblem, ReaderFindsProblem, ReaderReadsTestCases, ReaderReplies
  <2> QED BY <2>1, Zenon DEF RequestStep, ViewStep, problemTables
<1> QED BY <1>1, <1>2, <1>3

\* A row whose status is written takes the place of what it was: no problem has
\* more submissions or fewer.
LEMMA StatusCounts ==
    ASSUME Inv, IsFiniteSet(submitted), SubmittedOnce, NEW s \in submitted, StatusWritten(s)
    PROVE  /\ IsFiniteSet(submitted') /\ SubmittedOnce'
           /\ \A p : SubmittedTo(p) \in Nat /\ SubmittedTo(p)' = SubmittedTo(p)
<1>1. PICK status \in SubmissionStatus :
        submitted' = (submitted \ {s}) \union {[s EXCEPT !.status = status]}
  BY StatusBecomes DEF Becomes
<1>2. s \in [id : SubmissionIds, problem : ProblemIds, status : SubmissionStatus]
  BY DEF Inv, BackendTypeOK, ProblemsTypeOK
<1> DEFINE t == [s EXCEPT !.status = status]
<1>3. /\ t.id = s.id /\ t.problem = s.problem
      /\ s.status \in SubmissionStatus /\ t.status \in SubmissionStatus
  BY <1>2
<1>4. submitted' = (submitted \ {s}) \union {t}
  BY <1>1
<1> HIDE DEF t
<1>5. t \notin submitted \ {s}
  BY <1>3 DEF SubmittedOnce
<1>6. SubmittedOnce'
  BY <1>3, <1>4 DEF SubmittedOnce
<1>7. IsFiniteSet(submitted')
  BY <1>4, FS_AddElement, FS_RemoveElement
<1>8. ASSUME NEW p PROVE SubmittedTo(p) \in Nat /\ SubmittedTo(p)' = SubmittedTo(p)
  <2> DEFINE S == OfStatus(p, SubmissionStatus)
             T == {x \in submitted' : x.problem = p /\ x.status \in SubmissionStatus}
  <2>1. SubmittedTo(p) = Cardinality(S) /\ SubmittedTo(p)' = Cardinality(T)
    BY DEF SubmittedTo, OfStatus, SubmissionStatus
  <2>2. S \in SUBSET submitted
    BY DEF OfStatus
  <2>3. IsFiniteSet(S) /\ Cardinality(S) \in Nat
    BY <2>2, PartOfFinite
  <2>4. CASE s.problem # p
    <3>1. T = S
      BY <1>3, <1>4, <2>4 DEF OfStatus
    <3> QED BY <2>1, <2>3, <3>1
  <2>5. CASE s.problem = p
    <3>1. s \in S /\ t \notin S \ {s} /\ T = (S \ {s}) \union {t}
      BY <1>3, <1>4, <1>5, <2>5 DEF OfStatus
    <3> HIDE DEF S, T
    <3>2. IsFiniteSet(S \ {s}) /\ Cardinality(S \ {s}) = Cardinality(S) - 1
      BY <2>3, <3>1, FS_RemoveElement
    <3>3. Cardinality((S \ {s}) \union {t}) = Cardinality(S \ {s}) + 1
      BY <3>1, <3>2, FS_AddElement
    <3> QED BY <2>1, <2>3, <3>1, <3>2, <3>3
  <2> QED BY <2>4, <2>5
<1> QED BY <1>6, <1>7, <1>8

LEMMA StatusKeepsCounts ==
    ASSUME Inv, CountInv, NEW s \in submitted, StatusWritten(s), UNCHANGED <<interviewTables, reports>>
    PROVE  CountInv'
<1>1. UNCHANGED <<at, local, raced, users, problem, assigned, interviews, reports>>
  BY StatusBecomes DEF Becomes, requestVars, interviewTables
<1>2. TablesFinite /\ SubmittedOnce /\ IsFiniteSet(submitted)
  BY DEF CountInv, TablesFinite
<1>3. /\ IsFiniteSet(submitted') /\ SubmittedOnce'
      /\ \A p : SubmittedTo(p) \in Nat /\ SubmittedTo(p)' = SubmittedTo(p)
  BY <1>2, StatusCounts
<1>4. TablesFinite'
  <2>1. Existing' = Existing
    BY <1>1, ExistingRows
  <2> QED BY <1>1, <1>2, <1>3, <2>1 DEF TablesFinite
<1>5. /\ \A p : AssignedCount(p)' = AssignedCount(p)
      /\ \A e : Count(reports', e) = Count(reports, e)
  BY <1>1 DEF AssignedCount
<1>6. \A p, e : AssignedCount(p) \in Nat /\ Count(reports, e) \in Nat
  <2> TAKE p, e
  <2>1. IsFiniteSet(assigned) /\ IsFiniteSet(reports)
    BY <1>2 DEF TablesFinite
  <2>2. /\ {a \in assigned : a.problem = p} \in SUBSET assigned
        /\ {x \in reports : x.endpoint = e} \in SUBSET reports
    OBVIOUS
  <2> QED BY <2>1, <2>2, PartOfFinite DEF AssignedCount, Count
<1>7. RowsStay /\ CountsKept
  BY <1>1, <1>3, <1>5, <1>6 DEF RowsStay, CountsKept
<1>8. ASSUME NEW q \in Requests PROVE Counted(q)'
  <2>1. Counted(q)
    BY DEF CountInv
  <2> QED BY <1>1, <1>7, <2>1, OthersCounted
<1> QED BY <1>3, <1>4, <1>8 DEF CountInv

\* The tables after a call of the script, and who is in flight.
SeedWrites ==
    /\ users' \subseteq users \union SeededUsers
    /\ Existing' \subseteq Existing \union SeededProblems
    /\ interviews' \subseteq interviews
    /\ assigned' \subseteq assigned \union SampleAssignments
    /\ \/ submitted' \subseteq submitted
       \/ /\ boot = "createSubmissions"
          /\ submitted' \subseteq submitted \union SampleSubmissions

LEMMA SeedStepWrites ==
    ASSUME Inv, SeedStep
    PROVE  SeedWrites /\ \A r \in Requests : at'[r] \notin CountedPlaces
<1>0. AbsentProblem.state = "absent" /\ ProblemIds' = ProblemIds
  BY DEF AbsentProblem, ProblemIds
<1>1. ASSUME NEW step \in DOMAIN After, Calls(step)
      PROVE  \A r \in Requests : at'[r] \notin CountedPlaces
  <2>1. boot = step /\ boot # "up" /\ at' = at
    BY <1>1 DEF Calls, After, requestVars
  <2> QED BY <2>1 DEF Inv, SeedInv, InFlight, CountedPlaces
<1>2. CASE ApiStops
  <2>1. /\ at' = [r \in Requests |-> IF InFlight(r) THEN "done" ELSE at[r]]
        /\ UNCHANGED <<users, problem, assigned, submitted, interviews>>
    BY <1>2 DEF ApiStops, problemTables, interviewTables
  <2>2. \A r \in Requests : at'[r] \notin CountedPlaces
    BY <2>1 DEF InFlight, CountedPlaces
  <2> QED BY <2>1, <2>2, ExistingRows DEF SeedWrites
<1>3. CASE SeedStops
  <2>1. boot # "up" /\ at' = at /\ UNCHANGED <<users, problem, assigned, submitted, interviews>>
    BY <1>3 DEF SeedStops, requestVars, problemTables, interviewTables
  <2>2. \A r \in Requests : at'[r] \notin CountedPlaces
    BY <2>1 DEF Inv, SeedInv, InFlight, CountedPlaces
  <2> QED BY <2>1, <2>2, ExistingRows DEF SeedWrites
<1>4. CASE SeedWipesSubmissions \/ SeedWipesAssignments \/ SeedWipesCandidates \/ SeedWipesInterviews
  <2>1. /\ UNCHANGED <<users, problem>> /\ assigned' \in {assigned, {}}
        /\ submitted' \in {submitted, {}} /\ interviews' \in {interviews, {}}
        /\ \E step \in DOMAIN After : Seeding(step)
    BY <1>4 DEF SeedWipesSubmissions, SeedWipesAssignments, SeedWipesCandidates,
                SeedWipesInterviews, interviewTables, problemTables, After
  <2> QED BY <1>1, <2>1, ExistingRows, SeedingCalls DEF SeedWrites
<1>5. CASE SeedWipesTestCases \/ SeedWipesProblems
  <2>1. /\ UNCHANGED <<users, submitted, interviews>> /\ assigned' \in {assigned, {}}
        /\ \E step \in DOMAIN After : Seeding(step)
    BY <1>5 DEF SeedWipesTestCases, SeedWipesProblems, interviewTables, problemTables, After
  <2>2. Existing' \subseteq Existing
    <3>1. CASE SeedWipesTestCases
      <4>1. \A p \in ProblemIds : problem'[p] = [problem[p] EXCEPT !.tests = {}]
        BY <3>1 DEF SeedWipesTestCases
      <4>2. \A p \in ProblemIds : problem[p] \in ProblemRow
        BY SeedTypes
      <4>3. \A p \in ProblemIds : problem'[p].state = problem[p].state
        BY <4>1, <4>2 DEF ProblemRow
      <4> QED BY <1>0, <4>3 DEF Existing, Exists
    <3>2. CASE SeedWipesProblems
      BY <1>0, <3>2 DEF SeedWipesProblems, NoProblem, Existing, Exists
    <3> QED BY <1>5, <3>1, <3>2
  <2> QED BY <1>1, <2>1, <2>2, SeedingCalls DEF SeedWrites
<1>6. CASE SeedWipesUsers
  <2>1. /\ users' = {} /\ UNCHANGED <<problem, assigned, submitted, interviews>>
        /\ Seeding("user") /\ "user" \in DOMAIN After
    BY <1>6 DEF SeedWipesUsers, problemTables, After
  <2> QED BY <1>1, <2>1, ExistingRows, SeedingCalls DEF SeedWrites
<1>7. CASE SeedCreatesUser
  <2>1. /\ \E u \in SeededUsers : users' = users \union {u}
        /\ UNCHANGED <<problem, assigned, submitted, interviews>>
        /\ \E left : Creating("createUsers", left)
        /\ "createUsers" \in DOMAIN After
    BY <1>7 DEF SeedCreatesUser, problemTables, interviewTables, After
  <2>2. \A r \in Requests : at'[r] \notin CountedPlaces
    BY <1>1, <2>1, CreatingCalls
  <2> QED BY <2>1, <2>2, ExistingRows DEF SeedWrites
<1>8. CASE SeedCreatesProblem \/ SeedCreatesTestCases
  <2>1. /\ UNCHANGED <<users, assigned, submitted, interviews>>
        /\ \E step \in DOMAIN After : \E left : Creating(step, left)
    BY <1>8 DEF SeedCreatesProblem, SeedCreatesTestCases, interviewTables, After
  <2>2. \A p \in ProblemIds \ SeededProblems : problem'[p] = problem[p]
    BY <1>8, SeedTypes DEF SeedCreatesProblem, SeedCreatesTestCases
  <2>3. Existing' \subseteq Existing \union SeededProblems
    BY <1>0, <2>2 DEF Existing, Exists
  <2>4. \A r \in Requests : at'[r] \notin CountedPlaces
    BY <1>1, <2>1, CreatingCalls
  <2> QED BY <2>1, <2>3, <2>4 DEF SeedWrites
<1>9. CASE SeedCreatesSubmission
  <2>1. /\ UNCHANGED <<users, problem, assigned, interviews>>
        /\ \E s \in SampleSubmissions : submitted' = submitted \union {s}
        /\ boot = "createSubmissions" /\ \E left : Creating("createSubmissions", left)
        /\ "createSubmissions" \in DOMAIN After
    BY <1>9 DEF SeedCreatesSubmission, Creating, interviewTables, After
  <2>2. \A r \in Requests : at'[r] \notin CountedPlaces
    BY <1>1, <2>1, CreatingCalls
  <2> QED BY <2>1, <2>2, ExistingRows DEF SeedWrites
<1>10. CASE SeedCreatesAssignment
  <2>1. /\ UNCHANGED <<users, problem, submitted, interviews>>
        /\ \E a \in SampleAssignments : assigned' = assigned \union {a}
        /\ \E left : Creating("createAssignments", left)
        /\ "createAssignments" \in DOMAIN After
    BY <1>10 DEF SeedCreatesAssignment, interviewTables, After
  <2>2. \A r \in Requests : at'[r] \notin CountedPlaces
    BY <1>1, <2>1, CreatingCalls
  <2> QED BY <2>1, <2>2, ExistingRows DEF SeedWrites
<1> QED BY <1>2, <1>3, <1>4, <1>5, <1>6, <1>7, <1>8, <1>9, <1>10, Zenon DEF SeedStep

LEMMA SeedCounts ==
    ASSUME Inv, Restored, CountInv, SeedStep, UNCHANGED reports
    PROVE  CountInv'
<1>1. SeedWrites /\ \A r \in Requests : at'[r] \notin CountedPlaces
  BY SeedStepWrites
<1>2. \A r \in Requests : Counted(r)'
  BY <1>1, NothingCounted
<1>3. /\ TablesFinite /\ SubmittedOnce
      /\ IsFiniteSet(SeededProblems) /\ IsFiniteSet(SeededUsers)
      /\ IsFiniteSet(SampleSubmissions) /\ IsFiniteSet(SampleAssignments)
  BY ProblemsAssumption, AccountsAssumption DEF CountInv
<1>4. TablesFinite'
  <2>1. /\ IsFiniteSet(users \union SeededUsers) /\ IsFiniteSet(Existing \union SeededProblems)
        /\ IsFiniteSet(assigned \union SampleAssignments)
        /\ IsFiniteSet(submitted \union SampleSubmissions)
    BY <1>3, FS_Union DEF TablesFinite
  <2>2. /\ users' \subseteq users \union SeededUsers
        /\ Existing' \subseteq Existing \union SeededProblems
        /\ interviews' \subseteq interviews
        /\ assigned' \subseteq assigned \union SampleAssignments
        /\ submitted' \subseteq submitted \union SampleSubmissions
    BY <1>1 DEF SeedWrites
  <2>3. /\ IsFiniteSet(users') /\ IsFiniteSet(Existing') /\ IsFiniteSet(assigned')
        /\ IsFiniteSet(submitted')
    BY <2>1, <2>2, FS_Subset
  <2>4. IsFiniteSet(interviews')
    BY <1>3, <2>2, FS_Subset DEF TablesFinite
  <2> QED BY <1>3, <2>3, <2>4 DEF TablesFinite
<1>5. SubmittedOnce'
  <2>1. CASE submitted' \subseteq submitted
    BY <1>3, <2>1 DEF SubmittedOnce
  <2>2. CASE boot = "createSubmissions" /\ submitted' \subseteq submitted \union SampleSubmissions
    <3>1. submitted' \subseteq SampleSubmissions
      BY <2>2 DEF Restored
    <3>2. \A s, t \in SampleSubmissions : s.id = t.id => s = t
      BY ProblemsAssumption
    <3> QED BY <3>1, <3>2 DEF SubmittedOnce
  <2> QED BY <1>1, <2>1, <2>2 DEF SeedWrites
<1> QED BY <1>2, <1>4, <1>5 DEF CountInv

LEMMA StutterCounts ==
    ASSUME CountInv, UNCHANGED vars
    PROVE  CountInv'
<1>1. UNCHANGED <<at, local, raced, users, problem, assigned, submitted, interviews, reports>>
  BY DEF vars, requestVars, tables, problemTables, interviewTables
<1>2. TablesFinite' /\ SubmittedOnce'
  <2>1. Existing' = Existing
    BY <1>1, ExistingRows
  <2> QED BY <1>1, <2>1 DEF CountInv, TablesFinite, SubmittedOnce
<1>3. RowsStay
  BY <1>1, <1>2, GrowingRowsStay DEF CountInv
<1>4. \A q \in Requests : Counted(q)'
  BY <1>1, <1>3, OthersCounted, SameRowsSameCounts DEF CountInv
<1> QED BY <1>2, <1>4 DEF CountInv

LEMMA InitCounts ==
    ASSUME Init
    PROVE  CountInv
<1>1. /\ at = [r \in Requests |-> "none"] /\ users = SeededUsers /\ interviews = SeededInterviews
      /\ assigned = SampleAssignments /\ submitted = SampleSubmissions /\ reports = {}
  BY DEF Init, RequestsInit
<1>2. Existing \subseteq SeededProblems
  BY DEF Init, Existing, Exists, AbsentProblem
<1>3. IsFiniteSet(Existing)
  BY <1>2, ProblemsAssumption, FS_Subset
<1>4. TablesFinite /\ SubmittedOnce
  BY <1>1, <1>3, AccountsAssumption, ProblemsAssumption, InterviewsAssumption, FS_EmptySet
     DEF TablesFinite, SubmittedOnce
<1>5. \A r \in Requests : Counted(r)
  BY <1>1 DEF Counted, DrawsCounted, ListCounted, ViewCounted, SummaryCounted
<1> QED BY <1>4, <1>5 DEF CountInv

LEMMA CountNext ==
    ASSUME Inv, Restored, CountInv, [Next]_vars
    PROVE  CountInv'
<1>1. ASSUME NEW r \in Requests, RequestStep(r) PROVE CountInv'
  BY <1>1, RequestCounts, RequestSubmitsOnce DEF CountInv
<1>2. ASSUME NEW s \in submitted, StatusWritten(s) /\ UNCHANGED <<interviewTables, reports>>
      PROVE  CountInv'
  BY <1>2, StatusKeepsCounts
<1>3. CASE SeedStep /\ UNCHANGED reports
  BY <1>3, SeedCounts
<1>4. CASE UNCHANGED vars
  BY <1>4, StutterCounts
<1>5. Rest => UNCHANGED vars
  BY DEF Rest
<1> QED BY <1>1, <1>2, <1>3, <1>4, <1>5 DEF Next, RequestStep

\* The rows of the candidates and the state of the seed script are needed too.
LEMMA CountsAlways == Spec => [](Inv /\ CandidatesInv /\ Restored /\ CountInv)
<1>1. Init => CandidatesInv /\ Restored /\ CountInv
  <2> SUFFICES ASSUME Init PROVE CandidatesInv /\ Restored /\ CountInv
    OBVIOUS
  <2>1. PICK host : candidates = {[id |-> i, jobId |-> i, userId |-> host[i],
                                   startTime |-> Null, endTime |-> Null] : i \in SeededInterviews}
    BY DEF Init
  <2>2. CandidatesInv
    BY <2>1, InterviewsAssumption DEF CandidatesInv
  <2>3. Restored
    BY DEF Init, RequestsInit, Restored, Filling
  <2> QED BY <2>2, <2>3, InitCounts
<1>2. Inv /\ CandidatesInv /\ Restored /\ CountInv /\ [Next]_vars
        => CandidatesInv' /\ Restored' /\ CountInv'
  BY WindowNext, RestoreNext, CountNext
<1> QED BY <1>1, <1>2, InvAlways, PTL DEF Spec

-----------------------------------------------------------------------------
(* The properties of what is counted.                                      *)

\* A report as good as another in every figure is assessed as well, and one
\* that FAILED has an issue to name.
LEMMA AssessmentsAreFair ==
    ASSUME NEW f \in Figure, NEW g \in Figure
    PROVE  /\ NoWorse(f, g) => Rank[calculateAssessment(f)] <= Rank[calculateAssessment(g)]
           /\ calculateAssessment(f) = "FAILED" => generateAssessmentMsg(f) # {}
<1>1. /\ f.successRate \in Int /\ f.p99 \in Nat /\ f.timeouts \in Nat
      /\ g.successRate \in Int /\ g.p99 \in Nat /\ g.timeouts \in Nat
  BY DEF Figure
<1>2. Rank["PASSED"] = 0 /\ Rank["WARNING"] = 1 /\ Rank["FAILED"] = 2
  BY DEF Rank
<1>3. /\ calculateAssessment(f) \in {"PASSED", "WARNING", "FAILED"}
      /\ calculateAssessment(g) \in {"PASSED", "WARNING", "FAILED"}
  BY DEF calculateAssessment
<1>4. NoWorse(f, g) /\ calculateAssessment(g) = "PASSED" => calculateAssessment(f) = "PASSED"
  BY <1>1 DEF NoWorse, calculateAssessment
<1>5. NoWorse(f, g) /\ calculateAssessment(g) = "WARNING" => calculateAssessment(f) # "FAILED"
  BY <1>1 DEF NoWorse, calculateAssessment
<1>6. calculateAssessment(f) = "FAILED" => "successRate" \in generateAssessmentMsg(f)
  BY <1>1 DEF calculateAssessment, generateAssessmentMsg
<1> QED BY <1>2, <1>3, <1>4, <1>5, <1>6

\* However many reports come between the two queries of a summary, an endpoint
\* it lists is assessed over no fewer than it counts, and no figure of a report
\* that is better makes its assessment worse.
THEOREM SummariesAreCovered == Spec => []SummaryIsCovered
<1>1. Inv /\ CountInv => SummaryIsCovered
  <2> SUFFICES ASSUME Inv, CountInv PROVE SummaryIsCovered
    OBVIOUS
  <2>1. ASSUME NEW r \in Requests, at[r] = "summary.reply", NEW e \in DOMAIN local[r].reportsCount
        PROVE  /\ local[r].total[e] >= local[r].reportsCount[e]
               /\ local[r].passed[e] <= local[r].total[e]
               /\ determineOverallAssessment(local[r].passed[e], local[r].total[e]) # "NO_DATA"
    BY <2>1 DEF CountInv, Counted, SummaryCounted
  <2>2. \A x \in reports : x.figures \in Figure
    BY FiguresAssumption DEF Inv, BackendTypeOK, ReportsTypeOK
  <2> QED BY <2>1, <2>2, AssessmentsAreFair DEF SummaryIsCovered
<1> QED BY <1>1, CountsAlways, PTL

\* A page has the rows its parameters name of the total it shows, unless another
\* request wrote in between.  The analytics of a problem show no submission and
\* no assignment that is not there, all of them unless another request wrote, and
\* count no submission twice, whatever status is written to it meanwhile: also
\* when a verdict is taken back.
THEOREM ViewsStayConsistent == Spec => []ViewsAreConsistent
<1>1. CountInv => ViewsAreConsistent
  <2> SUFFICES ASSUME CountInv, NEW r \in Requests
               PROVE  /\ at[r] = "list.reply" =>
                           /\ local[r].items <= local[r].by.limit
                           /\ ~raced[r] => local[r].items = PageSize(local[r].total, local[r].by)
                      /\ at[r] = "view.reply" =>
                           LET shown == local[r].analytics
                               now == getProblemAnalytics(local[r].problem) IN
                           /\ shown.submittedCount <= now.submittedCount
                           /\ local[r].assignedCount <= AssignedCount(local[r].problem)
                           /\ ~raced[r] => /\ shown.submittedCount = now.submittedCount
                                           /\ local[r].assignedCount = AssignedCount(local[r].problem)
                           /\ shown.acceptedCount + shown.failedCount <= shown.submittedCount
    BY DEF ViewsAreConsistent
  <2>1. ListCounted(r) /\ ViewCounted(r)
    BY DEF CountInv, Counted
  <2>2. at[r] = "list.reply" =>
          /\ local[r].items <= local[r].by.limit
          /\ ~raced[r] => local[r].items = PageSize(local[r].total, local[r].by)
    BY <2>1 DEF ListCounted
  <2>3. at[r] = "view.reply" =>
          /\ Below(local[r].analytics, SubmittedTo(local[r].problem))
          /\ local[r].assignedCount <= AssignedCount(local[r].problem)
          /\ ~raced[r] => /\ local[r].analytics.submittedCount = SubmittedTo(local[r].problem)
                          /\ local[r].assignedCount = AssignedCount(local[r].problem)
    BY <2>1 DEF ViewCounted
  <2>4. getProblemAnalytics(local[r].problem).submittedCount = SubmittedTo(local[r].problem)
    BY AnalyticsOf
  <2> QED BY <2>2, <2>3, <2>4 DEF Below
<1> QED BY <1>1, CountsAlways, PTL

-----------------------------------------------------------------------------
(* The rows of an interview.                                               *)

\* As many problems are drawn of each difficulty as were asked for, and of no two
\* difficulties the same one, unless the transaction fails.
LEMMA DrawsAsAsked ==
    ASSUME NEW r \in Requests, at[r] = "interview.write", Counted(r), ~DrawnTwice(r),
           DOMAIN local[r].drawn = Difficulties
    PROVE  AsManyAsAsked(Drawn(r), local[r].counts)
<1> DEFINE of == [d \in Difficulties |-> local[r].drawn[d]]
<1>1. of \in [Difficulties -> SUBSET Drawn(r)] /\ Drawn(r) = UNION {of[d] : d \in Difficulties}
  BY DEF Drawn
<1>2. \A d \in Difficulties : Cardinality(of[d]) = local[r].counts[d]
  BY DEF Counted, DrawsCounted
<1>3. \A d, e \in Difficulties : d # e => of[d] \intersect of[e] = {}
  BY DEF DrawnTwice
<1> HIDE DEF of
<1> QED BY <1>1, <1>2, <1>3 DEF AsManyAsAsked

\* InterviewIsWhole, of one request and one step.
Whole(r) ==
    IF answer'[r] = 201
    THEN /\ r \in interviews'
         /\ \E c \in candidates' : c.id = r /\ c.userId = local[r].user
         /\ \A a \in RowsOf(r, assignments') : a.jobId = r /\ a.userId = local[r].user
         /\ AsManyAsAsked({a.problemId : a \in RowsOf(r, assignments')}, local[r].counts)
    ELSE /\ r \notin interviews'
         /\ RowsOf(r, candidates' \union assignments') = {}

LEMMA WrittenWhole ==
    ASSUME Inv, CandidatesInv, CountInv, NEW r \in Requests, InterviewWrites(r)
    PROVE  Whole(r)
<1> DEFINE L == local[r]
<1>0. at[r] = "interview.write" /\ Handlers
  BY DEF InterviewWrites, Inv
<1>1. /\ r \notin interviews
      /\ \A c \in candidates : c.id # r
      /\ \A a \in assignments : a.id # r
  BY <1>0 DEF Inv, Makers, CandidatesInv
<1>2. CASE DrawnTwice(r)
  <2>1. Replies(r, "interview.write", 500, 201) /\ UNCHANGED <<interviews, candidates, assignments>>
    BY <1>2 DEF InterviewWrites, interviewTables
  <2>2. answer'[r] = 500
    <3>1. \A from : from # "done" /\ Replies(r, from, 500, 201) => answer'[r] = 500
      BY <1>0, RepliesMoves
    <3> QED BY <2>1, <3>1
  <2> QED BY <1>1, <2>1, <2>2 DEF Whole, RowsOf
<1>3. CASE ~DrawnTwice(r)
  <2> DEFINE seat == [id |-> r, jobId |-> r, userId |-> L.user, startTime |-> Null, endTime |-> Null]
             tasks == {[id |-> r, jobId |-> r, userId |-> L.user, problemId |-> p] : p \in Drawn(r)}
  <2>1. /\ Commits(r, "interview.write", 201)
        /\ interviews' = interviews \union {r}
        /\ candidates' = candidates \union {seat}
        /\ assignments' = assignments \union tasks
    BY <1>3 DEF InterviewWrites
  <2>2. answer'[r] = 201
    BY <1>0, <2>1, CommitsMoves
  <2>3. seat.id = r /\ seat.userId = L.user
    OBVIOUS
  <2>4. \A a \in tasks : a.id = r /\ a.jobId = r /\ a.userId = L.user
    OBVIOUS
  <2>5. RowsOf(r, assignments') = tasks
    BY <1>1, <2>1, <2>4 DEF RowsOf
  <2>6. DOMAIN L.drawn = Difficulties
    BY <1>0 DEF Inv, Knows, KnowsDraws
  <2>7. Counted(r)
    BY DEF CountInv
  <2>8. {a.problemId : a \in tasks} = Drawn(r)
    <3>1. \A a \in tasks : a.problemId \in Drawn(r)
      OBVIOUS
    <3>2. \A p \in Drawn(r) : \E a \in tasks : a.problemId = p
      <4> TAKE p \in Drawn(r)
      <4> DEFINE a == [id |-> r, jobId |-> r, userId |-> L.user, problemId |-> p]
      <4>1. a \in tasks /\ a.problemId = p
        OBVIOUS
      <4> HIDE DEF a
      <4> QED BY <4>1
    <3> HIDE DEF tasks
    <3> QED BY <3>1, <3>2
  <2>9. AsManyAsAsked(Drawn(r), L.counts)
    BY <1>0, <1>3, <2>6, <2>7, DrawsAsAsked
  <2> HIDE DEF seat, tasks
  <2> QED BY <2>1, <2>2, <2>3, <2>4, <2>5, <2>8, <2>9 DEF Whole
<1> QED BY <1>2, <1>3

LEMMA WholeNext ==
    ASSUME Inv, CandidatesInv, CountInv, [Next]_vars, NEW r \in Requests,
           at[r] = "interview.write", at'[r] = "done", boot' = "up"
    PROVE  Whole(r)
<1>1. ASSUME NEW q \in Requests, RequestStep(q) PROVE Whole(r)
  <2>1. at \in [Requests -> Places] /\ TablesFinite /\ Counted(q)
    BY DEF Inv, Handlers, RequestsTypeOK, Places, CountInv
  <2>2. Answers(q)
    BY <1>1, <2>1, RequestAnswers DEF RequestStep
  <2>3. q = r
    BY <2>1, <2>2 DEF Answers
  <2>4. CASE InterviewWrites(q)
    BY <2>3, <2>4, WrittenWhole
  <2>5. CASE Counting(q) /\ TablesKept
    BY <2>1, <2>3, <2>5, CountingCounts DEF Quiet
  <2>6. CASE Looked(q)
    BY <2>3, <2>6, LookedMoves
  <2>7. CASE Wrote(q)
    BY <2>3, <2>7, WroteMoves
  <2> QED BY <1>1, <2>4, <2>5, <2>6, <2>7, StepShapes
<1>2. CASE SeedStep
  <2>1. InFlight(r) => boot = "up"
    BY DEF Inv, SeedInv
  <2>2. boot = "up" /\ at' # at
    BY <2>1 DEF InFlight
  <2>3. \A step \in DOMAIN After : ~Seeding(step)
    BY <2>2 DEF Seeding, requestVars
  <2>4. ~SeedStops /\ \A step \in DOMAIN After : \A left : ~Creating(step, left)
    BY <2>2 DEF SeedStops, Creating, requestVars
  <2>5. ~ApiStops
    BY DEF ApiStops
  <2> QED BY <1>2, <2>3, <2>4, <2>5
          DEF SeedStep, After, SeedWipesSubmissions, SeedWipesAssignments, SeedWipesCandidates,
              SeedWipesInterviews, SeedWipesTestCases, SeedWipesProblems, SeedWipesUsers,
              SeedCreatesUser, SeedCreatesProblem, SeedCreatesTestCases,
              SeedCreatesSubmission, SeedCreatesAssignment
<1>3. CASE at' = at
  BY <1>3
<1>4. ASSUME NEW s \in submitted, StatusWritten(s) PROVE at' = at
  BY <1>4, StatusBecomes DEF Becomes, requestVars
<1>5. UNCHANGED vars => at' = at
  BY DEF vars, requestVars
<1>6. Rest => UNCHANGED vars
  BY DEF Rest
<1> QED BY <1>1, <1>2, <1>3, <1>4, <1>5, <1>6 DEF Next, RequestStep

\* An interview answered with 201 has its candidate and as many different problems
\* as were asked for, whatever number of each difficulty that is, and one answered
\* with an error has left no row, however problems are changed between its draws
\* and whatever else is being written.
THEOREM InterviewsAreWhole == Spec => InterviewIsWhole
<1> DEFINE Step ==
      \A r \in Requests : at[r] = "interview.write" /\ at'[r] = "done" /\ boot' = "up" => Whole(r)
<1>1. Inv /\ CandidatesInv /\ CountInv /\ [Next]_vars => Step
  BY WholeNext
<1> HIDE DEF Step
<1>2. Spec => [][Step]_vars
  BY <1>1, CountsAlways, PTL DEF Spec
<1> QED BY <1>2 DEF InterviewIsWhole, Step, Whole

=============================================================================
