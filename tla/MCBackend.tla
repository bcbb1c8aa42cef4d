------------------------------ MODULE MCBackend ------------------------------
(***************************************************************************)
(* Small instances of Backend: three requests, each for any operation of   *)
(* one mix of operations that share tables.                                *)
(***************************************************************************)
EXTENDS Backend, TLC

CONSTANTS r1, r2, r3, i1, p1, p2, ad, ca, easy, hard, pub, hid, mail

AccountMix == {{"signup", "login"}, {"signup", "listUsers"}, {"signup", "leaderboard"}}
ReportMix == {{"createReport", "summary"}}
ProblemMixes ==
    {{"createProblem", "updateProblem", "removeProblem"},
     {"updateProblem", "testcases"},
     {"removeProblem", "submit", "assign"},
     {"submit", "assign", "viewProblem"},
     {"listProblems", "createProblem", "removeProblem"}}
InterviewMixes ==
    {{"createInterview", "updateProblem", "removeProblem"},
     {"removeInterview", "addAssignment", "removeAssignment"},
     {"renameInterview", "removeInterview", "listInterviews"},
     {"addAssignment", "removeAssignment", "removeProblem"},
     {"addCandidate", "removeCandidate", "removeInterview"},
     {"updateTime", "removeCandidate"}}
\* Requests whose rows the seed script must wipe in the order of their keys.
SeedMix == {{"seed", "createProblem", "submit"}, {"seed", "addAssignment"}}

AllMixes == AccountMix \union ReportMix \union ProblemMixes \union InterviewMixes \union SeedMix
SignupMix == {{"signup"}}

Staff ==
    {[id |-> ad, name |-> "admin", email |-> NoEmail, role |-> "ADMIN"],
     [id |-> ca, name |-> "candidate", email |-> NoEmail, role |-> "CANDIDATE"]}

Samples ==
    {[id |-> "sample1", problem |-> p1, status |-> "ACCEPTED"],
     [id |-> "sample2", problem |-> p1, status |-> "WRONG_ANSWER"]}
Assigned == {[problem |-> p1, user |-> ca]}

RequestSymmetry == Permutations(Requests)

\* Around every limit of calculateAssessment.
MCFigures ==
    {[successRate |-> s, p99 |-> 1000, timeouts |-> t, errors |-> 0] :
        s \in {94, 95}, t \in {0, 1}} \union
    {[successRate |-> s, p99 |-> p, timeouts |-> t, errors |-> 0] :
        s \in {79, 80}, p \in {1500, 1501}, t \in {9, 10}}

=============================================================================
