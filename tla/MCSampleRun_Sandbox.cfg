SPECIFICATION FairSpec
CONSTANTS
    e1 = e1  e2 = e2
    Submissions = {1}
    Executors = {e1, e2}
    NoSub = 0
    NoHolder = NoHolder
    Attempts = 2
    MaxStalled = 1
    Drivers = {"redis", "inline"}
    FaultLimit <- SampleFaults
INVARIANTS
    SampleTypeOK
    NothingLeftBehind
    OnlyHostFailsJobs
    CloseDrains
    CountersAddUp
    AnswerIsKept
PROPERTIES
    CallsEnd
    JobsEnd
