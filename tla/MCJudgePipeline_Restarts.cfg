SPECIFICATION Spec
CONSTANTS
    w1 = w1  w2 = w2  e1 = e1  e2 = e2
    ann = ann  p1 = p1  p2 = p2
    Submissions = {1, 2}
    Users = {ann}
    Problems = {p1}
    UserOf <- SameUser
    ProblemOf <- SameProblem
    NumCases <- OneCase
    JudgeResults <- AcceptOrNot
    Executors = {e1, e2}
    Workers = {w1, w2}
    WorkerOf <- TwoWorkers
    Api = Api
    NoSub = 0
    NoHolder = NoHolder
    Attempts = 2
    MaxStalled = 1
    RecoveryOnStart = TRUE
    RecoveryTake = 100
    FaultLimit <- Restarts
SYMMETRY WorkerSymmetry
INVARIANTS
    ExclusiveExecution
    ScoreMatchesVerdict
