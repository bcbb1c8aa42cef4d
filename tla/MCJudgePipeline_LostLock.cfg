SPECIFICATION Spec
CONSTANTS
    w1 = w1  w2 = w2  e1 = e1  e2 = e2
    ann = ann  p1 = p1  p2 = p2
    Submissions = {1}
    Users = {ann}
    Problems = {p1}
    UserOf <- OneUser
    ProblemOf <- OneProblem
    NumCases <- OneCase
    JudgeResults <- AcceptOnly
    Executors = {e1, e2}
    Workers = {w1, w2}
    WorkerOf <- TwoWorkers
    Api = Api
    NoSub = 0
    NoHolder = NoHolder
    Attempts = 2
    MaxStalled = 1
    RecoveryOnStart = TRUE
    RecoveryTake = 100
    FaultLimit <- LockLost
INVARIANTS
    SolvedCountIsSolved
