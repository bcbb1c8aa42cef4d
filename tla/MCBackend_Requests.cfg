SPECIFICATION Spec
CONSTANTS
    r1 = r1  r2 = r2  r3 = r3
    p1 = p1  p2 = p2  ad = ad  ca = ca  i1 = i1
    easy = easy  hard = hard  pub = pub  hid = hid  mail = mail
    Requests = {r1, r2, r3}
    Mixes <- AllMixes
    SeededUsers <- Staff
    Names = {"admin", "candidate", "newcomer", "another"}
    Emails = {mail}
    NoEmail = NoEmail
    Blank = Blank
    SeededProblems = {p1, p2}
    SampleSubmissions <- Samples
    SampleAssignments <- Assigned
    Verdicts = {"ACCEPTED", "WRONG_ANSWER"}
    Difficulties = {easy, hard}
    TestCases = {pub, hid}
    PublicCases = {pub}
    Undefined = Undefined
    SeededInterviews = {i1}
    Times = {1, 2, 3}
    GivenCounts = {0, 1, 2}
    Null = Null
    Endpoints = {"submissions"}
    Figures <- MCFigures
    GivenPages = {Undefined, 2}
    GivenLimits = {0, 1, 2, 101}
    DefaultLimit = 20
    MaxLimit = 100
SYMMETRY RequestSymmetry
INVARIANTS
    BackendTypeOK
    TablesConsistent
    DeletedProblemsRest
    TestsNeverEmpty
    SummaryIsCovered
    ViewsAreConsistent
PROPERTIES
    ServerErrorsAreRaces
    InterviewIsWhole
    WindowNeedsStaleRead
    SeedRestores
