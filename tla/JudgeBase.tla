------------------------------ MODULE JudgeBase ------------------------------
(***************************************************************************)
(* What the parts of the judge share: the submissions, the executors that  *)
(* judge them, and the faults that strike the system.                      *)
(***************************************************************************)
EXTENDS Naturals, FiniteSets

CONSTANTS
    Submissions,    \* ids of the submission rows, numbered in creation order
    Executors,      \* concurrency slots of the judge workers
    NoSub,          \* the idle executor's submission
    FaultLimit      \* how often each kind of fault may strike (a bound)

FaultKinds ==
    {"apiCrash", "workerCrash", "apiDb", "workerDb", "queue", "lockLoss", "prune",
     "host", "shutdown", "unreadInput"}

ASSUME SubmissionsAssumption ==
    /\ Submissions \subseteq Nat
    /\ IsFiniteSet(Submissions)
    /\ NoSub \notin Submissions
ASSUME FaultAssumption == FaultLimit \in [FaultKinds -> Nat]

VARIABLE faults     \* faults that struck so far

\* A fault of kind k strikes; FaultLimit[k] bounds how often.
Suffer(k) ==
    /\ faults[k] < FaultLimit[k]
    /\ faults' = [faults EXCEPT ![k] = @ + 1]

=============================================================================
