----------------------------- MODULE Interviews -----------------------------
(***************************************************************************)
(* The interviews with their candidates and assignments: InterviewsService,*)
(* InterviewCandidatesService and AssignmentsService.  Candidates and      *)
(* assignments go with their interview (onDelete: Cascade).                *)
(***************************************************************************)
EXTENDS Problems

CONSTANTS
    SeededInterviews,   \* interviews that are there from the start
    Times,              \* seconds
    GivenCounts,        \* how many problems of a difficulty a request may ask for
    Null                \* a column without a value

VARIABLES
    interviews,     \* ids
    candidates,     \* InterviewCandidate: unique by jobId and userId
    assignments     \* InterviewAssignment: unique by jobId, userId and problemId

interviewTables == <<interviews, candidates, assignments>>

InterviewIds == SeededInterviews \union Requests
Columns == Times \union {Null}
Counts == [Difficulties -> GivenCounts]

ASSUME InterviewsAssumption ==
    /\ IsFiniteSet(SeededInterviews) /\ SeededInterviews \intersect Requests = {}
    /\ Times \subseteq Nat /\ GivenCounts \subseteq Nat
    /\ Null \notin Times /\ Undefined \notin Times /\ Undefined # Null

InterviewsTypeOK ==
    /\ interviews \subseteq InterviewIds
    /\ candidates \subseteq [id : InterviewIds, jobId : InterviewIds, userId : UserIds,
                             startTime : Columns, endTime : Columns]
    /\ assignments \subseteq [id : Requests, jobId : InterviewIds, userId : UserIds,
                              problemId : ProblemIds]

InterviewRoles ==
    [createInterview  |-> {"EXAMINER"},
     renameInterview  |-> {"EXAMINER"},
     removeInterview  |-> {"EXAMINER"}]
CandidateRoles ==
    [addCandidate     |-> {"EXAMINER"},
     updateTime       |-> {"EXAMINER"},
     removeCandidate  |-> {"EXAMINER"}]
AssignmentRoles ==
    [addAssignment    |-> {"EXAMINER", "QUESTIONER"},
     removeAssignment |-> {"EXAMINER", "QUESTIONER"}]

-----------------------------------------------------------------------------
(* InterviewsService.                                                      *)

\* getRequestedProblemCount is not 0.
ProblemsRequested(counts) == \E d \in Difficulties : counts[d] > 0

\* Without a candidate: one insert, or 400 if problems are asked for.
CreateInterviewAlone(r) ==
    /\ Arrives(r, "createInterview", InterviewRoles.createInterview)
    /\ \E counts \in Counts :
         IF ProblemsRequested(counts)
         THEN Replies(r, "none", 400, 201) /\ UNCHANGED interviews
         ELSE Commits(r, "none", 201) /\ interviews' = interviews \union {r}
    /\ UNCHANGED <<candidates, assignments>>

\* A difficulty of which no problem is asked for is not read.
UndrawnOf(counts) == {d \in Difficulties : counts[d] > 0}
DrawOrWrite(left) == IF left = {} THEN "interview.write" ELSE "interview.draw"

\* The candidate exists; which role the user has is not looked at.
InterviewFindsUser(r) ==
    /\ Arrives(r, "createInterview", InterviewRoles.createInterview)
    /\ \E id \in UserIds, counts \in Counts :
         IF UserById(id) = {}
         THEN Replies(r, "none", 404, 201)
         ELSE Awaits(r, "none", DrawOrWrite(UndrawnOf(counts)),
                     [user |-> id, counts |-> counts,
                      drawn |-> [d \in Difficulties \ UndrawnOf(counts) |-> {}]])
    /\ UNCHANGED interviewTables

Drawable(d) == {p \in ProblemIds : Live(p) /\ problem[p].difficulty = d}

\* Variant: as many are drawn as there are.
DrawAvailable(r) ==
    /\ at[r] = "interview.draw"
    /\ \E d \in Difficulties \ DOMAIN local[r].drawn, picks \in SUBSET ProblemIds :
         /\ picks \subseteq Drawable(d)
         /\ \/ Cardinality(picks) = local[r].counts[d]
            \/ picks = Drawable(d) /\ Cardinality(picks) < local[r].counts[d]
         /\ LET drawn == [e \in DOMAIN local[r].drawn \union {d} |->
                            IF e = d THEN picks ELSE local[r].drawn[e]]
            IN Awaits(r, "interview.draw", DrawOrWrite(Difficulties \ DOMAIN drawn),
                      [local[r] EXCEPT !.drawn = drawn])
    /\ UNCHANGED <<interviewTables, gone>>

\* findAssignableProblems: one findMany per difficulty, each of which draws its
\* count at random; all of them run before the transaction.
DrawProblems(r) ==
    /\ at[r] = "interview.draw"
    /\ \E d \in Difficulties \ DOMAIN local[r].drawn :
         IF Cardinality(Drawable(d)) < local[r].counts[d]
         THEN Replies(r, "interview.draw", 400, 201)
         ELSE \E picks \in SUBSET Drawable(d) :
                /\ Cardinality(picks) = local[r].counts[d]
                /\ LET drawn == [e \in DOMAIN local[r].drawn \union {d} |->
                                   IF e = d THEN picks ELSE local[r].drawn[e]]
                   IN Awaits(r, "interview.draw",
                        DrawOrWrite(Difficulties \ DOMAIN drawn),
                        [local[r] EXCEPT !.drawn = drawn])
    /\ UNCHANGED <<interviewTables, gone>>

Drawn(r) == UNION {local[r].drawn[d] : d \in Difficulties}
DrawnTwice(r) ==
    \E d, e \in Difficulties : d # e /\ local[r].drawn[d] \intersect local[r].drawn[e] # {}

\* The transaction: all or nothing.  A problem whose difficulty changed between
\* two of the draws may be in both: P2002, which is not caught.
InterviewWrites(r) ==
    /\ at[r] = "interview.write"
    /\ IF DrawnTwice(r)
       THEN Replies(r, "interview.write", 500, 201) /\ UNCHANGED interviewTables
       ELSE /\ Commits(r, "interview.write", 201)
            /\ interviews' = interviews \union {r}
            /\ candidates' = candidates \union
                 {[id |-> r, jobId |-> r, userId |-> local[r].user,
                   startTime |-> Null, endTime |-> Null]}
            /\ assignments' = assignments \union
                 {[id |-> r, jobId |-> r, userId |-> local[r].user, problemId |-> p] :
                      p \in Drawn(r)}
    /\ UNCHANGED gone

\* update of jobRole, which is not modelled; P2025 is a 404.
RenameInterview(r) ==
    /\ Arrives(r, "renameInterview", InterviewRoles.renameInterview)
    /\ \E i \in InterviewIds :
         IF i \in interviews THEN Commits(r, "none", 200) ELSE Replies(r, "none", 404, 200)
    /\ UNCHANGED interviewTables

\* Variant: the rows of the interview stay.
RemoveInterviewOnly(r) ==
    /\ Arrives(r, "removeInterview", InterviewRoles.removeInterview)
    /\ \E i \in InterviewIds :
         IF i \in interviews
         THEN Commits(r, "none", 204) /\ interviews' = interviews \ {i}
         ELSE Replies(r, "none", 404, 204) /\ UNCHANGED interviews
    /\ UNCHANGED <<candidates, assignments>>

\* delete with its cascade; P2025 is a 404.
RemoveInterview(r) ==
    /\ Arrives(r, "removeInterview", InterviewRoles.removeInterview)
    /\ \E i \in InterviewIds :
         IF i \in interviews
         THEN /\ Commits(r, "none", 204)
              /\ interviews' = interviews \ {i}
              /\ candidates' = {c \in candidates : c.jobId # i}
              /\ assignments' = {a \in assignments : a.jobId # i}
         ELSE Replies(r, "none", 404, 204) /\ UNCHANGED interviewTables

-----------------------------------------------------------------------------
(* InterviewCandidatesService.                                             *)

validateTimeRange(start, end) == start = Null \/ end = Null \/ start <= end

\* The window, the interview and then the user are checked.
CandidateFindsInterview(r) ==
    /\ Arrives(r, "addCandidate", CandidateRoles.addCandidate)
    /\ \E i \in InterviewIds, start, end \in Columns :
         IF ~validateTimeRange(start, end) THEN Replies(r, "none", 400, 201)
         ELSE IF i \notin interviews THEN Replies(r, "none", 404, 201)
         ELSE Awaits(r, "none", "candidate.user",
                     [jobId |-> i, startTime |-> start, endTime |-> end])
    /\ UNCHANGED interviewTables

CandidateFindsUser(r) ==
    /\ at[r] = "candidate.user"
    /\ \E id \in UserIds :
         IF UserById(id) = {} THEN Replies(r, "candidate.user", 404, 201)
         ELSE IF \A u \in UserById(id) : ~hasUserRole(u, "CANDIDATE")
         THEN Replies(r, "candidate.user", 400, 201)
         ELSE Awaits(r, "candidate.user", "candidate.write",
                     [jobId |-> local[r].jobId, userId |-> id,
                      startTime |-> local[r].startTime, endTime |-> local[r].endTime])
    /\ UNCHANGED <<interviewTables, gone>>

\* Variant: P2002 is not caught.
CandidateInsertsUncaught(r) ==
    /\ at[r] = "candidate.write"
    /\ IF \/ local[r].jobId \notin interviews
          \/ \E c \in candidates : c.jobId = local[r].jobId /\ c.userId = local[r].userId
       THEN Replies(r, "candidate.write", 500, 201) /\ UNCHANGED candidates
       ELSE /\ Commits(r, "candidate.write", 201)
            /\ candidates' = candidates \union
                 {[id |-> r, jobId |-> local[r].jobId, userId |-> local[r].userId,
                   startTime |-> local[r].startTime, endTime |-> local[r].endTime]}
    /\ UNCHANGED <<interviews, assignments, gone>>

\* P2003, the interview is gone: not caught.  P2002: 409.
CandidateInserts(r) ==
    /\ at[r] = "candidate.write"
    /\ IF local[r].jobId \notin interviews
       THEN Replies(r, "candidate.write", 500, 201) /\ UNCHANGED candidates
       ELSE IF \E c \in candidates : c.jobId = local[r].jobId /\ c.userId = local[r].userId
       THEN Replies(r, "candidate.write", 409, 201) /\ UNCHANGED candidates
       ELSE /\ Commits(r, "candidate.write", 201)
            /\ candidates' = candidates \union
                 {[id |-> r, jobId |-> local[r].jobId, userId |-> local[r].userId,
                   startTime |-> local[r].startTime, endTime |-> local[r].endTime]}
    /\ UNCHANGED <<interviews, assignments, gone>>

\* Variant: only what is given is checked.
UpdateTimeFindsUnmerged(r) ==
    /\ Arrives(r, "updateTime", CandidateRoles.updateTime)
    /\ \E c \in candidates, start, end \in Columns \union {Undefined} :
         IF ~validateTimeRange(Or(start, Null), Or(end, Null))
         THEN Replies(r, "none", 400, 200)
         ELSE Awaits(r, "none", "time.write", [row |-> c, startTime |-> start, endTime |-> end])
    /\ UNCHANGED interviewTables

\* The row is read and the window it would have is checked; without a field
\* nothing is written.
UpdateTimeFinds(r) ==
    /\ Arrives(r, "updateTime", CandidateRoles.updateTime)
    /\ \/ Replies(r, "none", 404, 200)
       \/ \E c \in candidates, start, end \in Columns \union {Undefined} :
            IF ~validateTimeRange(Or(start, c.startTime), Or(end, c.endTime))
            THEN Replies(r, "none", 400, 200)
            ELSE IF start = Undefined /\ end = Undefined THEN Replies(r, "none", 200, 200)
            ELSE Awaits(r, "none", "time.write",
                        [row |-> c, startTime |-> start, endTime |-> end])
    /\ UNCHANGED interviewTables

\* The columns given are written; P2025 is not caught.
UpdateTimeWrites(r) ==
    /\ at[r] = "time.write"
    /\ IF \A c \in candidates : c.id # local[r].row.id
       THEN Replies(r, "time.write", 500, 200) /\ UNCHANGED candidates
       ELSE /\ Commits(r, "time.write", 200)
            /\ candidates' =
                 {IF c.id # local[r].row.id THEN c
                  ELSE [c EXCEPT !.startTime = Or(local[r].startTime, @),
                                 !.endTime = Or(local[r].endTime, @)] : c \in candidates}
    /\ UNCHANGED <<interviews, assignments, gone>>

RemoveFindsCandidate(r) ==
    /\ Arrives(r, "removeCandidate", CandidateRoles.removeCandidate)
    /\ \/ Replies(r, "none", 404, 204)
       \/ \E c \in candidates : Awaits(r, "none", "candidate.delete", [row |-> c])
    /\ UNCHANGED interviewTables

\* P2025 is not caught.
DeletesCandidate(r) ==
    /\ at[r] = "candidate.delete"
    /\ LET row == {c \in candidates : c.id = local[r].row.id} IN
         /\ IF row = {} THEN Replies(r, "candidate.delete", 500, 204)
                        ELSE Commits(r, "candidate.delete", 204)
         /\ candidates' = candidates \ row
    /\ UNCHANGED <<interviews, assignments, gone>>

\* getTimeStatus: what a candidate is shown at time now.
getTimeStatus(c, now) ==
    LET duration == IF c.endTime > c.startTime THEN c.endTime - c.startTime ELSE 0 IN
    IF c.startTime = Null \/ c.endTime = Null THEN [status |-> "NOT_SCHEDULED"]
    ELSE CASE now < c.startTime ->
           [status |-> "BEFORE_START", remaining |-> duration, elapsed |-> 0, duration |-> duration]
      [] c.startTime <= now /\ now <= c.endTime ->
           [status |-> "IN_PROGRESS", remaining |-> c.endTime - now,
            elapsed |-> now - c.startTime, duration |-> duration]
      [] OTHER ->
           [status |-> "ENDED", remaining |-> 0, elapsed |-> duration, duration |-> duration]

-----------------------------------------------------------------------------
(* AssignmentsService.                                                     *)

AssignmentFindsInterview(r) ==
    /\ Arrives(r, "addAssignment", AssignmentRoles.addAssignment)
    /\ \E i \in InterviewIds :
         IF i \in interviews THEN Awaits(r, "none", "assignment.user", [jobId |-> i])
                             ELSE Replies(r, "none", 404, 201)
    /\ UNCHANGED interviewTables

AssignmentFindsUser(r) ==
    /\ at[r] = "assignment.user"
    /\ \E id \in UserIds :
         IF UserById(id) = {} THEN Replies(r, "assignment.user", 404, 201)
         ELSE IF \A u \in UserById(id) : ~hasUserRole(u, "CANDIDATE")
         THEN Replies(r, "assignment.user", 400, 201)
         ELSE Awaits(r, "assignment.user", "assignment.problem",
                     [jobId |-> local[r].jobId, userId |-> id])
    /\ UNCHANGED <<interviewTables, gone>>

AssignmentFindsProblem(r) ==
    /\ at[r] = "assignment.problem"
    /\ \E p \in ProblemIds :
         IF Live(p)
         THEN Awaits(r, "assignment.problem", "assignment.write",
                     [jobId |-> local[r].jobId, userId |-> local[r].userId, problemId |-> p])
         ELSE Replies(r, "assignment.problem", 404, 201)
    /\ UNCHANGED <<interviewTables, gone>>

AssignmentInserts(r) ==
    /\ at[r] = "assignment.write"
    /\ IF local[r].jobId \notin interviews
       THEN Replies(r, "assignment.write", 500, 201) /\ UNCHANGED assignments
       ELSE IF \E a \in assignments : /\ a.jobId = local[r].jobId
                                      /\ a.userId = local[r].userId
                                      /\ a.problemId = local[r].problemId
       THEN Replies(r, "assignment.write", 409, 201) /\ UNCHANGED assignments
       ELSE /\ Commits(r, "assignment.write", 201)
            /\ assignments' = assignments \union
                 {[id |-> r, jobId |-> local[r].jobId, userId |-> local[r].userId,
                   problemId |-> local[r].problemId]}
    /\ UNCHANGED <<interviews, candidates, gone>>

RemoveFindsAssignment(r) ==
    /\ Arrives(r, "removeAssignment", AssignmentRoles.removeAssignment)
    /\ \/ Replies(r, "none", 404, 204)
       \/ \E a \in assignments : Awaits(r, "none", "assignment.delete", [row |-> a])
    /\ UNCHANGED interviewTables

DeletesAssignment(r) ==
    /\ at[r] = "assignment.delete"
    /\ IF local[r].row \in assignments THEN Commits(r, "assignment.delete", 204)
                                       ELSE Replies(r, "assignment.delete", 500, 204)
    /\ assignments' = assignments \ {local[r].row}
    /\ UNCHANGED <<interviews, candidates, gone>>

InterviewStep(r) ==
    \/ CreateInterviewAlone(r) \/ InterviewFindsUser(r) \/ DrawProblems(r) \/ InterviewWrites(r)
    \/ RenameInterview(r) \/ RemoveInterview(r)
CandidateStep(r) ==
    \/ CandidateFindsInterview(r) \/ CandidateFindsUser(r) \/ CandidateInserts(r)
    \/ UpdateTimeFinds(r) \/ UpdateTimeWrites(r)
    \/ RemoveFindsCandidate(r) \/ DeletesCandidate(r)
AssignmentStep(r) ==
    \/ AssignmentFindsInterview(r) \/ AssignmentFindsUser(r) \/ AssignmentFindsProblem(r)
    \/ AssignmentInserts(r)
    \/ RemoveFindsAssignment(r) \/ DeletesAssignment(r)

=============================================================================
