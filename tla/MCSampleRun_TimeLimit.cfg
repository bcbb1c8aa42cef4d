SPECIFICATION FairSpec
CONSTANTS
    e1 = e1  e2 = e2
    Submissions = {1, 2}
    Executors = {e1}
    NoSub = 0
    NoHolder = NoHolder
    Attempts = 2
    MaxStalled = 1
    Drivers = {"redis"}
    FaultLimit <- NoFaults
PROPERTIES
    TimeIsLimited
