--------------------------- MODULE MCJudgePipeline ---------------------------
(***************************************************************************)
(* Small instances of JudgePipeline.  The sets come from the cfg; the      *)
(* function-valued constants and the fault limits are defined here.        *)
(***************************************************************************)
EXTENDS JudgePipeline, TLC

CONSTANTS w1, w2, e1, e2, ann, p1, p2

\* docker-compose: one worker with two slots.
OneWorker == (e1 :> w1) @@ (e2 :> w1)
\* ... with a single slot.
OneSlot == (e1 :> w1)
\* judge workers scaled out: two workers with a slot each.
TwoWorkers == (e1 :> w1) @@ (e2 :> w2)
\* ... which are alike, each together with its slot.
WorkerSymmetry ==
    {p \in Permutations({w1, w2, e1, e2}) :
        \A e \in {e1, e2} : p[e] \in {e1, e2} /\ TwoWorkers[p[e]] = p[TwoWorkers[e]]}

\* Two submissions of one user to one problem.
SameUser == (1 :> ann) @@ (2 :> ann)
SameProblem == (1 :> p1) @@ (2 :> p1)
OneCase == (p1 :> 1)
\* One submission alone.
OneUser == 1 :> ann
OneProblem == 1 :> p1
\* Two submissions to a problem with two test cases and one with none.
TwoProblems == (1 :> p1) @@ (2 :> p2)
TwoCasesAndNone == (p1 :> 2) @@ (p2 :> 0)

AcceptOnly == {"ACCEPTED"}
AcceptOrNot == {"ACCEPTED", "WRONG_ANSWER"}

\* Only the faults named in f strike, at most as often as f says.
OnlyFaults(f) == [k \in FaultKinds |-> IF k \in DOMAIN f THEN f[k] ELSE 0]

NoFaults == OnlyFaults(<<>>)
WorkerFaults == OnlyFaults([workerCrash |-> 1, workerDb |-> 2, prune |-> 1])
RetriedFaults == OnlyFaults([workerCrash |-> 1, workerDb |-> 2])
Restarts == OnlyFaults([apiCrash |-> 1, workerCrash |-> 1, prune |-> 1])
ApiFaults == OnlyFaults([apiDb |-> 2, queue |-> 1, workerDb |-> 2])
LockLost == OnlyFaults([lockLoss |-> 1])
UpdateFails == OnlyFaults([apiDb |-> 1])
ApiRestart == OnlyFaults([apiCrash |-> 1])
FailedJob == OnlyFaults([workerDb |-> 2, workerCrash |-> 1])

=============================================================================
