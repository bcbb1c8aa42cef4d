------------------------------ MODULE Problems ------------------------------
(***************************************************************************)
(* The problems with their test cases, assignments and submissions, and    *)
(* the services that read and write them: ProblemsService, the lookup and  *)
(* the insert of SubmissionsService.create, and the readers of test cases. *)
(***************************************************************************)
EXTENDS Accounts, SubmissionStatus

CONSTANTS
    SeededProblems, \* ids of the problems the seed script makes
    SampleSubmissions, SampleAssignments, \* the rows it makes for them
    Verdicts,       \* statuses a run of the test cases may end with
    Difficulties,
    TestCases,      \* test cases a request may give
    PublicCases     \* those that are not hidden

VARIABLES
    problem,        \* per id: state (isDeleted), difficulty, test cases
    assigned,       \* Assignment: unique by problem and user
    submitted,      \* Submission: problem and status
    gone            \* per request: the problems deleted before its first read

problemTables == <<problem, assigned, submitted>>

ProblemIds == SeededProblems \union Requests
SubmissionIds == {s.id : s \in SampleSubmissions} \union Requests
AbsentProblem == [state |-> "absent", difficulty |-> CHOOSE d \in Difficulties : TRUE,
                  tests |-> {}]

ASSUME ProblemsAssumption ==
    /\ IsFiniteSet(SeededProblems) /\ SeededProblems \intersect Requests = {}
    /\ PublicCases \subseteq TestCases /\ TestCases # {}
    /\ Difficulties # {} /\ \A T \in SUBSET TestCases : T # Undefined
    /\ IsFiniteSet(Difficulties) /\ Undefined \notin Difficulties
    /\ Verdicts \subseteq TERMINAL_SUBMISSION_STATUSES
    /\ IsFiniteSet(SampleSubmissions) /\ IsFiniteSet(SampleAssignments)
    /\ SampleSubmissions \subseteq [id : SubmissionIds \ Requests, problem : SeededProblems,
                                    status : TERMINAL_SUBMISSION_STATUSES]
    /\ \A s, t \in SampleSubmissions : s.id = t.id => s = t
    /\ SampleAssignments \subseteq [problem : SeededProblems, user : {u.id : u \in SeededUsers}]

Live(p) == problem[p].state = "live"
Exists(p) == problem[p].state # "absent"

ProblemsTypeOK ==
    /\ problem \in [ProblemIds -> [state : {"absent", "live", "deleted"},
                                   difficulty : Difficulties, tests : SUBSET TestCases]]
    /\ assigned \subseteq [problem : ProblemIds, user : UserIds]
    /\ submitted \subseteq [id : SubmissionIds, problem : ProblemIds, status : SubmissionStatus]
    /\ gone \in [Requests -> SUBSET ProblemIds]

ProblemRoles ==
    [createProblem |-> {"QUESTIONER"},
     updateProblem |-> {"EXAMINER", "QUESTIONER"},
     removeProblem |-> {"QUESTIONER"},
     assign        |-> {"EXAMINER", "QUESTIONER"}]

\* A request for op comes in.
Arrives(r, op, roles) ==
    /\ Handles(r, op)
    /\ Admitted(roles)
    /\ gone' = [gone EXCEPT ![r] = {p \in ProblemIds : problem[p].state = "deleted"}]

-----------------------------------------------------------------------------
assertHasTestCases(tests) == tests # {}

CreateProblem(r) ==
    /\ Arrives(r, "createProblem", ProblemRoles.createProblem)
    /\ \E tests \in SUBSET TestCases, d \in Difficulties :
         IF ~assertHasTestCases(tests)
         THEN Replies(r, "none", 400, 201) /\ UNCHANGED problem
         ELSE /\ Commits(r, "none", 201)
              /\ problem' = [problem EXCEPT
                   ![r] = [state |-> "live", difficulty |-> d, tests |-> tests]]
    /\ UNCHANGED <<assigned, submitted>>

hasUpdatePayload(tests, d) == tests # Undefined \/ d # Undefined

UpdateFindsProblem(r) ==
    /\ Arrives(r, "updateProblem", ProblemRoles.updateProblem)
    /\ \E p \in ProblemIds,
          tests \in {Undefined} \union SUBSET TestCases,
          d \in {Undefined} \union Difficulties :
         IF ~hasUpdatePayload(tests, d) \/ ~assertHasTestCases(tests)
         THEN Replies(r, "none", 400, 200)
         ELSE IF ~Live(p) THEN Replies(r, "none", 404, 200)
         ELSE Awaits(r, "none", "update.write",
                     [problem |-> p, tests |-> tests, difficulty |-> d])
    /\ UNCHANGED problemTables

\* Variant: the old test cases are deleted before the transaction, not in it.
UpdateDeletesFirst(r) ==
    /\ at[r] = "update.write"
    /\ LET p == local[r].problem IN
         IF Or(local[r].tests, {}) # {} /\ problem[p].tests # {}
         THEN /\ problem' = [problem EXCEPT ![p].tests = {}]
              /\ UNCHANGED <<requestVars, frameVars>>
         ELSE /\ Commits(r, "update.write", 200)
              /\ problem' = [problem EXCEPT
                   ![p].tests = Or(local[r].tests, @),
                   ![p].difficulty = Or(local[r].difficulty, @)]
    /\ UNCHANGED <<assigned, submitted, gone>>

\* The transaction: the test cases are replaced as a whole, given fields
\* written; whether the row is deleted by now is not looked at again.
UpdateWritesProblem(r) ==
    /\ at[r] = "update.write"
    /\ Commits(r, "update.write", 200)
    /\ problem' = [problem EXCEPT
         ![local[r].problem].tests = Or(local[r].tests, @),
         ![local[r].problem].difficulty = Or(local[r].difficulty, @)]
    /\ UNCHANGED <<assigned, submitted, gone>>

\* findUnique by id: a deleted problem is found, and deleted again.
RemoveFindsProblem(r) ==
    /\ Arrives(r, "removeProblem", ProblemRoles.removeProblem)
    /\ \E p \in ProblemIds :
         IF Exists(p) THEN Awaits(r, "none", "remove.write", [problem |-> p])
                      ELSE Replies(r, "none", 404, 204)
    /\ UNCHANGED problemTables

RemoveWritesProblem(r) ==
    /\ Commits(r, "remove.write", 204)
    /\ problem' = [problem EXCEPT ![local[r].problem].state = "deleted"]
    /\ UNCHANGED <<assigned, submitted, gone>>

\* Variant: deleted problems are found.
AssignFindsAnyProblem(r) ==
    /\ Arrives(r, "assign", ProblemRoles.assign)
    /\ \E p \in ProblemIds :
         IF Exists(p) THEN Awaits(r, "none", "assign.user", [problem |-> p])
                      ELSE Replies(r, "none", 404, 200)
    /\ UNCHANGED problemTables

AssignFindsProblem(r) ==
    /\ Arrives(r, "assign", ProblemRoles.assign)
    /\ \E p \in ProblemIds :
         IF Live(p) THEN Awaits(r, "none", "assign.user", [problem |-> p])
                    ELSE Replies(r, "none", 404, 200)
    /\ UNCHANGED problemTables

AssignFindsUser(r) ==
    /\ at[r] = "assign.user"
    /\ \E name \in Names :
         IF \A u \in users : u.name # name
         THEN Replies(r, "assign.user", 404, 200)
         ELSE \E u \in users :
                /\ u.name = name
                /\ IF hasUserRole(u, "CANDIDATE")
                   THEN Awaits(r, "assign.user", "assign.write",
                               [problem |-> local[r].problem, user |-> u.id])
                   ELSE Replies(r, "assign.user", 400, 200)
    /\ UNCHANGED <<problemTables, gone>>

\* upsert with an empty update.
AssignUpserts(r) ==
    /\ Commits(r, "assign.write", 200)
    /\ assigned' = assigned \union {[problem |-> local[r].problem, user |-> local[r].user]}
    /\ UNCHANGED <<problem, submitted, gone>>

-----------------------------------------------------------------------------
(* Submissions, as far as the problems are concerned.                      *)

SubmissionRoles == [submit |-> {"CANDIDATE"}, testcases |-> Anyone]

SubmitFindsProblem(r) ==
    /\ Arrives(r, "submit", SubmissionRoles.submit)
    /\ \E p \in ProblemIds :
         IF Live(p) THEN Awaits(r, "none", "submit.write", [problem |-> p])
                    ELSE Replies(r, "none", 404, 202)
    /\ UNCHANGED problemTables

\* The insert; what follows it is JudgePipeline.
SubmitInserts(r) ==
    /\ Commits(r, "submit.write", 202)
    /\ submitted' = submitted \union
         {[id |-> r, problem |-> local[r].problem, status |-> "PENDING"]}
    /\ UNCHANGED <<problem, assigned, gone>>

\* The other calls that write the status of a request's row, at any time and
\* over any status: by then it may be another one than they have read.  In
\* which order they come is JudgePipeline's.
Becomes(s, status) ==
    /\ s.id \in Requests
    /\ submitted' = (submitted \ {s}) \union {[s EXCEPT !.status = status]}
    /\ UNCHANGED <<requestVars, frameVars, users, problem, assigned, gone>>

\* The processor takes the job.
MarkedRunning(s) == Becomes(s, "RUNNING")

\* Its verdict: RUNTIME_ERROR for a problem without test cases; a deleted problem
\* is judged like any other.
Judged(s) == \E verdict \in Verdicts :
    Becomes(s, IF problem[s.problem].tests = {} THEN "RUNTIME_ERROR" ELSE verdict)

\* The catch blocks, of the processor and of the request that could not queue
\* its job, and the recovery: they take a verdict back.
Failed(s) == Becomes(s, "RUNTIME_ERROR")
Requeued(s) == Becomes(s, "PENDING")

StatusWritten(s) == MarkedRunning(s) \/ Judged(s) \/ Failed(s) \/ Requeued(s)

\* getTestCases of the internal API, and runSample with the public ones only:
\* Prisma reads the problem, then its test cases, in two queries.
ReaderFindsProblem(r) ==
    /\ Arrives(r, "testcases", SubmissionRoles.testcases)
    /\ \E p \in ProblemIds :
         IF Live(p) THEN Awaits(r, "none", "testcases.read", [problem |-> p])
                    ELSE Replies(r, "none", 404, 200)
    /\ UNCHANGED problemTables

ReaderReadsTestCases(r) ==
    /\ Awaits(r, "testcases.read", "testcases.reply",
              [problem |-> local[r].problem, tests |-> problem[local[r].problem].tests])
    /\ UNCHANGED <<problemTables, gone>>

ReaderReplies(r) ==
    /\ at[r] = "testcases.reply"
    /\ \E publicOnly \in BOOLEAN :
         IF publicOnly /\ local[r].tests \intersect PublicCases = {}
         THEN Replies(r, "testcases.reply", 404, 200)
         ELSE Replies(r, "testcases.reply", 200, 200)
    /\ UNCHANGED <<problemTables, gone>>

ProblemStep(r) ==
    \/ CreateProblem(r)
    \/ UpdateFindsProblem(r) \/ UpdateWritesProblem(r)
    \/ RemoveFindsProblem(r) \/ RemoveWritesProblem(r)
    \/ AssignFindsProblem(r) \/ AssignFindsUser(r) \/ AssignUpserts(r)
    \/ SubmitFindsProblem(r) \/ SubmitInserts(r)
    \/ ReaderFindsProblem(r) \/ ReaderReadsTestCases(r) \/ ReaderReplies(r)

=============================================================================
