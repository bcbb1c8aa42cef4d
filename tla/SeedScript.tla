----------------------------- MODULE SeedScript -----------------------------
(***************************************************************************)
(* The start of the API container: with SEED_DB=true prisma/seed.ts wipes  *)
(* and fills the database before the API listens.  It may be stopped after *)
(* any call and is run again from its first; the judge worker runs on.     *)
(***************************************************************************)
EXTENDS Interviews

\* The calls in their order.
After ==
    [submission |-> "assignment", assignment |-> "interviewCandidate",
     interviewCandidate |-> "interview", interview |-> "testCase",
     testCase |-> "problem", problem |-> "user", user |-> "createUsers",
     createUsers |-> "createProblems", createProblems |-> "createTestCases",
     createTestCases |-> "createSubmissions", createSubmissions |-> "createAssignments",
     createAssignments |-> "up"]

Seeding(step) == boot = step /\ boot' = After[step] /\ UNCHANGED <<mix, requestVars, gone>>

NoProblem == [p \in ProblemIds |-> AbsentProblem]

\* Handlers in flight are gone with the process.
ApiStops ==
    /\ boot = "up" /\ "seed" \in mix
    /\ boot' = "submission"
    /\ at' = [r \in Requests |-> IF InFlight(r) THEN "done" ELSE at[r]]
    /\ local' = [r \in Requests |-> Nothing]
    /\ raced' = [r \in Requests |-> FALSE]
    /\ UNCHANGED <<mix, answer, counted, gone, users, problemTables, interviewTables>>

\* The script is stopped, or a call of it failed: the container starts again.
SeedStops ==
    /\ boot \notin {"up", "submission"}
    /\ boot' = "submission"
    /\ UNCHANGED <<mix, requestVars, gone, users, problemTables, interviewTables>>

\* Variant: not wiped.
SeedKeepsSubmissions ==
    Seeding("submission") /\ UNCHANGED <<users, problemTables, interviewTables>>
SeedWipesSubmissions ==
    Seeding("submission") /\ submitted' = {}
    /\ UNCHANGED <<users, problem, assigned, interviewTables>>
SeedWipesAssignments ==
    Seeding("assignment") /\ assigned' = {}
    /\ UNCHANGED <<users, problem, submitted, interviewTables>>
SeedWipesCandidates ==
    Seeding("interviewCandidate") /\ candidates' = {}
    /\ UNCHANGED <<users, problemTables, interviews, assignments>>
\* interview_assignments go by the cascade.
SeedWipesInterviews ==
    Seeding("interview") /\ interviews' = {} /\ candidates' = {} /\ assignments' = {}
    /\ UNCHANGED <<users, problemTables>>
SeedWipesTestCases ==
    Seeding("testCase")
    /\ problem' = [p \in ProblemIds |-> [problem[p] EXCEPT !.tests = {}]]
    /\ UNCHANGED <<users, assigned, submitted, interviewTables>>

\* Rows without onDelete that refer to a problem or a user block its deletion.
BlocksProblems == submitted # {}
BlocksUsers == submitted # {} \/ assigned # {} \/ interviews # {}

SeedWipesProblems ==
    /\ Seeding("problem") /\ ~BlocksProblems
    /\ problem' = NoProblem /\ assigned' = {} /\ assignments' = {}
    /\ UNCHANGED <<users, submitted, interviews, candidates>>
SeedWipesUsers ==
    /\ Seeding("user") /\ ~BlocksUsers
    /\ users' = {} /\ candidates' = {} /\ assignments' = {}
    /\ UNCHANGED <<problemTables, interviews>>

\* One call of a step that makes a row each time: left are the rows it has
\* still to make.  In which order it makes them is left open.
Creating(step, left) ==
    /\ boot = step /\ boot' = (IF left = {} THEN After[step] ELSE step)
    /\ UNCHANGED <<mix, requestVars, gone>>

SeedCreatesUser ==
    /\ \E u \in SeededUsers \ users : users' = users \union {u}
    /\ Creating("createUsers", SeededUsers \ users')
    /\ UNCHANGED <<problemTables, interviewTables>>
SeedCreatesProblem ==
    /\ \E p \in SeededProblems, d \in Difficulties :
         /\ ~Exists(p)
         /\ problem' = [problem EXCEPT ![p] = [state |-> "live", difficulty |-> d, tests |-> {}]]
    /\ Creating("createProblems", {p \in SeededProblems : problem'[p].state = "absent"})
    /\ UNCHANGED <<users, assigned, submitted, interviewTables>>
\* The test cases of one problem: createMany.
SeedCreatesTestCases ==
    /\ \E p \in SeededProblems :
         /\ problem[p].tests = {}
         /\ problem' = [problem EXCEPT ![p].tests = TestCases]
    /\ Creating("createTestCases", {p \in SeededProblems : problem'[p].tests = {}})
    /\ UNCHANGED <<users, assigned, submitted, interviewTables>>
SeedCreatesSubmission ==
    /\ \E s \in SampleSubmissions \ submitted : submitted' = submitted \union {s}
    /\ Creating("createSubmissions", SampleSubmissions \ submitted')
    /\ UNCHANGED <<users, problem, assigned, interviewTables>>
SeedCreatesAssignment ==
    /\ \E a \in SampleAssignments \ assigned : assigned' = assigned \union {a}
    /\ Creating("createAssignments", SampleAssignments \ assigned')
    /\ UNCHANGED <<users, problem, submitted, interviewTables>>

SeedStep ==
    \/ ApiStops \/ SeedStops
    \/ SeedWipesSubmissions \/ SeedWipesAssignments \/ SeedWipesCandidates
    \/ SeedWipesInterviews \/ SeedWipesTestCases \/ SeedWipesProblems \/ SeedWipesUsers
    \/ SeedCreatesUser \/ SeedCreatesProblem \/ SeedCreatesTestCases
    \/ SeedCreatesSubmission \/ SeedCreatesAssignment

=============================================================================
