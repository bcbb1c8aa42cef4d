------------------------ MODULE JudgeRefinementProofs ------------------------
(***************************************************************************)
(* Under Deployment the pipeline implements SubmissionLifecycle: every     *)
(* step is one of the lifecycle or leaves verdicts and credits alone.      *)
(***************************************************************************)
EXTENDS JudgeDeploymentProofs

SameVerdicts ==
    /\ UNCHANGED solvedCount
    /\ \A t \in Submissions : VerdictOf(t)' = VerdictOf(t)

OthersKept(s) == \A t \in Submissions \ {s} : VerdictOf(t)' = VerdictOf(t)

\* What a step of the pipeline is to the lifecycle.
LifecycleStep == [Lifecycle!LifecycleNext]_(Lifecycle!lifecycleVars)

LEMMA Stutters ==
    ASSUME SameVerdicts
    PROVE  LifecycleStep
BY DEF SameVerdicts, LifecycleStep, Lifecycle!lifecycleVars

LEMMA Moves ==
    ASSUME NEW s \in Submissions, NEW from, NEW to,
           VerdictOf(s) = from, VerdictOf(s)' = to, OthersKept(s)
    PROVE  Lifecycle!Move(s, from, to)
BY DEF Lifecycle!Move, OthersKept

\* The four steps of one submission that credit nobody.
LEMMA MovesUncredited ==
    ASSUME NEW s \in Submissions, UNCHANGED solvedCount, OthersKept(s),
           \/ VerdictOf(s) = "none" /\ VerdictOf(s)' = "open"
           \/ VerdictOf(s) = "open" /\ VerdictOf(s)' \in {"rejected", "provisional"}
           \/ VerdictOf(s) = "provisional" /\ VerdictOf(s)' = "rejected"
    PROVE  LifecycleStep
<1>1. \/ Lifecycle!Submit(s) \/ Lifecycle!Reject(s)
      \/ Lifecycle!Accept(s) \/ Lifecycle!Revoke(s)
  BY Moves DEF Lifecycle!Submit, Lifecycle!Reject, Lifecycle!Accept, Lifecycle!Revoke
<1>2. QED  BY <1>1 DEF LifecycleStep, Lifecycle!LifecycleNext

\* The executions settling some accepted rows are over, and nothing else is.
LEMMA Losing ==
    ASSUME NEW S \in SUBSET Submissions, UNCHANGED solvedCount,
           \A s \in S : VerdictOf(s) = "provisional" /\ VerdictOf(s)' = "accepted",
           \A t \in Submissions \ S : VerdictOf(t)' = VerdictOf(t)
    PROVE  LifecycleStep
<1>1. CASE S = {}
  BY <1>1, Stutters DEF SameVerdicts
<1>2. CASE S # {}
  <2>1. Lifecycle!Lose(S)
    BY <1>2 DEF Lifecycle!Lose
  <2>2. QED  BY <2>1 DEF LifecycleStep, Lifecycle!LifecycleNext
<1>3. QED  BY <1>1, <1>2

-----------------------------------------------------------------------------
(* Verdicts depend on the row and on the execution that settles it.        *)

LEMMA VerdictFrame ==
    ASSUME NEW t \in Submissions, status'[t] = status[t], finished'[t] = finished[t],
           Settling(t)' <=> Settling(t)
    PROVE  VerdictOf(t)' = VerdictOf(t)
BY DEF VerdictOf, IsFinished

LEMMA RowsAndExecutorsKept ==
    ASSUME UNCHANGED <<status, finished, solvedCount, pc, cur>>
    PROVE  LifecycleStep
<1>1. \A t \in Submissions : Settling(t)' <=> Settling(t)
  BY DEF Settling
<1>2. QED  BY <1>1, VerdictFrame, Stutters DEF SameVerdicts

\* A step of e settles or unsettles its own submission only, and nobody else
\* settles that one.
LEMMA JudgeSettles ==
    ASSUME DeploymentInv, NEW e \in Executors, Judge(e)
    PROVE  /\ cur[e] \in Submissions
           /\ \A t \in Submissions \ {cur[e]} : Settling(t)' <=> Settling(t)
           /\ \A t \in Submissions : t = cur[e] =>
                /\ Settling(t) <=> pc[e] \in {"credit", "catch"}
                /\ Settling(t)' <=> pc'[e] \in {"credit", "catch"}
<1>1. /\ UNCHANGED cur /\ pc[e] # "idle" /\ cur[e] \in Submissions
      /\ \A f \in Executors \ {e} : pc'[f] = pc[f]
  BY ProcessingStays DEF Judge, DeploymentInv, QuietInv, TypeOK, ProcessorTypeOK
<1>2. \A f \in Executors : pc[f] # "idle" /\ cur[f] = cur[e] => f = e
  BY <1>1 DEF DeploymentInv, QuietInv, LockInv
<1>3. QED  BY <1>1, <1>2 DEF Settling

\* Who judges holds the lock of a job, and a job is added for a row.
LEMMA LockedRowExists ==
    ASSUME DeploymentInv, NEW e \in Executors, Judge(e)
    PROVE  status[cur[e]] # Absent
<1>1. cur[e] \in Submissions /\ jobState[cur[e]] = "active"
  BY ProcessingStays DEF Judge, DeploymentInv, QuietInv, TypeOK, ProcessorTypeOK, LockInv
<1>2. QED  BY <1>1 DEF DeploymentInv, QuietInv, RowInv

-----------------------------------------------------------------------------
(* The credit.                                                             *)

LEMMA AcceptedVerdict ==
    ASSUME DeploymentInv, NEW t \in Submissions
    PROVE  status[t] = "ACCEPTED" <=> VerdictOf(t) \in {"provisional", "accepted"}
BY DEF VerdictOf, DeploymentInv, QuietInv, RowInv, IsFinished, TERMINAL_SUBMISSION_STATUSES, Absent

LEMMA CreditSettles ==
    ASSUME DeploymentInv, NEW e \in Executors, Judge(e), CreditFirstAccepted(e)
    PROVE  LifecycleStep
<1>0. PICK s \in Submissions : s = cur[e]  BY JudgeSettles
<1> USE <1>0
<1>1. s \in Submissions /\ UNCHANGED rowVars /\ pc[e] = "credit" /\ pc'[e] = "returned"
  BY JudgeSettles
     DEF CreditFirstAccepted, Goto, DeploymentInv, QuietInv, TypeOK, ProcessorTypeOK
<1>2. status[s] = "ACCEPTED" /\ IsFinished(s)
  BY <1>1 DEF DeploymentInv, QuietInv, ExecInv, RowInv, IsFinished, TERMINAL_SUBMISSION_STATUSES
<1>3. VerdictOf(s) = "provisional" /\ VerdictOf(s)' = "accepted"
  BY <1>1, <1>2, JudgeSettles
     DEF VerdictOf, IsFinished, rowVars, TERMINAL_SUBMISSION_STATUSES, Absent
<1>4. OthersKept(s)
  BY <1>1, JudgeSettles, VerdictFrame DEF OthersKept, rowVars
<1>5. Lifecycle!SolvedElsewhere(s) <=> AcceptedBefore(s)
  BY <1>1, AcceptedVerdict DEF Lifecycle!SolvedElsewhere, AcceptedBefore
<1>6. Lifecycle!Move(s, "provisional", "accepted")
  BY <1>1, <1>3, <1>4, Moves
<1>7. Lifecycle!Settle(s)
  BY <1>5, <1>6 DEF Lifecycle!Settle, CreditFirstAccepted
<1>8. QED  BY <1>1, <1>7 DEF LifecycleStep, Lifecycle!LifecycleNext

\* A terminal row is written by the execution of an open or accepted one.
LEMMA TerminalMoves ==
    ASSUME DeploymentInv, NEW e \in Executors, Judge(e), UNCHANGED solvedCount,
           NEW st \in TERMINAL_SUBMISSION_STATUSES, NEW sc, WriteTerminal(cur[e], st, sc),
           \/ /\ status[cur[e]] = "RUNNING"
              /\ st = "ACCEPTED" <=> pc'[e] \in {"credit", "catch"}
           \/ /\ status[cur[e]] = "ACCEPTED" /\ pc[e] = "catch"
              /\ st # "ACCEPTED"
    PROVE  LifecycleStep
<1>0. PICK s \in Submissions : s = cur[e]  BY JudgeSettles
<1> USE <1>0
<1>1. s \in Submissions  BY JudgeSettles
<1>2. /\ status'[s] = st /\ finished'[s] = TRUE
      /\ \A t \in Submissions \ {s} : status'[t] = status[t] /\ finished'[t] = finished[t]
  BY <1>1 DEF WriteTerminal, DeploymentInv, QuietInv, TypeOK, ProcessorTypeOK
<1>3. OthersKept(s)
  BY <1>2, JudgeSettles, VerdictFrame DEF OthersKept
<1>4. VerdictOf(s)' = IF st # "ACCEPTED" THEN "rejected"
                      ELSE IF pc'[e] \in {"credit", "catch"} THEN "provisional"
                      ELSE "accepted"
  BY <1>1, <1>2, JudgeSettles
     DEF VerdictOf, IsFinished, TERMINAL_SUBMISSION_STATUSES, Absent
<1>5. CASE status[s] = "RUNNING"
  <2>1. VerdictOf(s) = "open"
    BY <1>5 DEF VerdictOf, IsFinished, TERMINAL_SUBMISSION_STATUSES, Absent
  <2>2. VerdictOf(s)' \in {"rejected", "provisional"}
    BY <1>4, <1>5
  <2>3. QED  BY <1>1, <1>3, <2>1, <2>2, MovesUncredited
<1>6. CASE status[s] = "ACCEPTED" /\ pc[e] = "catch" /\ st # "ACCEPTED"
  <2>1. VerdictOf(s) = "provisional"
    BY <1>1, <1>6, JudgeSettles
       DEF VerdictOf, DeploymentInv, QuietInv, RowInv, IsFinished, TERMINAL_SUBMISSION_STATUSES, Absent
  <2>2. VerdictOf(s)' = "rejected"
    BY <1>4, <1>6
  <2>3. QED  BY <1>1, <1>3, <2>1, <2>2, MovesUncredited
<1>7. QED  BY <1>5, <1>6

\* The catch block's own update fails: an accepted row keeps its verdict and
\* gets no credit, an open one stays open.
LEMMA FailureLoses ==
    ASSUME DeploymentInv, NEW e \in Executors, Judge(e), FailureWriteThrows(e)
    PROVE  LifecycleStep
<1>0. PICK s \in Submissions : s = cur[e]  BY JudgeSettles
<1> USE <1>0
<1>1. /\ s \in Submissions /\ UNCHANGED <<rowVars, solvedCount>>
      /\ pc[e] = "catch" /\ pc'[e] = "threw"
  BY JudgeSettles
     DEF FailureWriteThrows, Goto, DeploymentInv, QuietInv, TypeOK, ProcessorTypeOK
<1>2. OthersKept(s)
  BY <1>1, JudgeSettles, VerdictFrame DEF OthersKept, rowVars
<1>3. CASE status[s] = "RUNNING"
  <2>1. VerdictOf(s)' = VerdictOf(s)
    BY <1>1, <1>3
       DEF VerdictOf, IsFinished, rowVars, TERMINAL_SUBMISSION_STATUSES, Absent
  <2>2. QED  BY <1>1, <1>2, <2>1, Stutters DEF SameVerdicts, OthersKept
<1>4. CASE status[s] = "ACCEPTED"
  <2>1. VerdictOf(s) = "provisional" /\ VerdictOf(s)' = "accepted"
    BY <1>1, <1>4, JudgeSettles
       DEF VerdictOf, DeploymentInv, QuietInv, RowInv, IsFinished, rowVars,
           TERMINAL_SUBMISSION_STATUSES, Absent
  <2>2. {s} \in SUBSET Submissions  BY <1>1
  <2>3. QED  BY <1>1, <1>2, <2>1, <2>2, Losing DEF OthersKept
<1>5. QED  BY <1>1, <1>3, <1>4 DEF DeploymentInv, QuietInv, ExecInv

-----------------------------------------------------------------------------
(* The steps of an execution.                                              *)

LEMMA JudgeStepRefines ==
    ASSUME DeploymentInv, NEW e \in Executors, Judge(e)
    PROVE  LifecycleStep
<1>0. PICK s \in Submissions : s = cur[e]  BY JudgeSettles
<1> USE <1>0
<1>1. s \in Submissions  BY JudgeSettles
<1>2. pc \in [Executors -> ExecPc] /\ status \in [Submissions -> SubmissionStatus \union {Absent}]
  BY DEF DeploymentInv, QuietInv, TypeOK, ProcessorTypeOK
<1>3. CASE SkipTerminal(e) \/ ReadOpen(e) \/ EarlyFailure(e) \/ RunCase(e)
  <2>1. /\ UNCHANGED <<rowVars, solvedCount>>
        /\ pc[e] \in {"read", "mark", "run"}
        /\ pc'[e] \in {"returned", "mark", "threw", "write", "run"}
    BY <1>2, <1>3 DEF SkipTerminal, ReadOpen, EarlyFailure, RunCase, Goto
  <2>2. \A t \in Submissions : Settling(t)' <=> Settling(t)
    BY <2>1, JudgeSettles
  <2>3. QED
    BY <2>1, <2>2, VerdictFrame, Stutters DEF SameVerdicts, rowVars
<1>4. CASE MarkRunning(e)
  <2>1. /\ status'[s] = "RUNNING" /\ UNCHANGED <<finished, solvedCount>>
        /\ \A t \in Submissions \ {s} : status'[t] = status[t]
        /\ ~IsFinished(s) /\ status[s] # Absent
    BY <1>1, <1>2, <1>4, LockedRowExists DEF MarkRunning, DeploymentInv, QuietInv, ExecInv
  <2>2. VerdictOf(s) = "open" /\ VerdictOf(s)' = "open"
    BY <2>1 DEF VerdictOf, IsFinished, TERMINAL_SUBMISSION_STATUSES, Absent
  <2>3. OthersKept(s)
    BY <2>1, JudgeSettles, VerdictFrame DEF OthersKept
  <2>4. QED  BY <2>1, <2>2, <2>3, Stutters DEF SameVerdicts, OthersKept
<1>5. CASE NoTestCases(e)
  BY <1>1, <1>2, <1>5, TerminalMoves
     DEF NoTestCases, Goto, DeploymentInv, QuietInv, ExecInv, TERMINAL_SUBMISSION_STATUSES
<1>6. CASE WriteVerdict(e)
  <2>1. final[e] \in TERMINAL_SUBMISSION_STATUSES
    BY DEF DeploymentInv, QuietInv, TypeOK, ProcessorTypeOK
  <2>2. QED
    BY <1>1, <1>2, <1>6, <2>1, TerminalMoves DEF WriteVerdict, Goto, DeploymentInv, QuietInv, ExecInv
<1>7. CASE CreditFirstAccepted(e)
  BY <1>7, CreditSettles
<1>8. CASE JudgingThrows(e)
  <2>1. /\ UNCHANGED <<rowVars, solvedCount>>
        /\ pc[e] \in {"run", "write", "credit"} /\ pc'[e] = "catch"
    BY <1>2, <1>8 DEF JudgingThrows, Goto
  <2>2. OthersKept(s)
    BY <2>1, JudgeSettles, VerdictFrame DEF OthersKept, rowVars
  <2>3. VerdictOf(s)' = VerdictOf(s)
    <3>1. CASE pc[e] = "credit"
      BY <1>1, <2>1, <3>1, JudgeSettles, VerdictFrame DEF rowVars
    <3>2. CASE pc[e] # "credit"
      BY <2>1, <3>2
         DEF VerdictOf, IsFinished, rowVars, DeploymentInv, QuietInv, ExecInv,
             TERMINAL_SUBMISSION_STATUSES, Absent
    <3>3. QED  BY <3>1, <3>2
  <2>4. QED  BY <2>1, <2>2, <2>3, Stutters DEF SameVerdicts, OthersKept
<1>9. CASE WriteFailure(e)
  BY <1>1, <1>2, <1>9, TerminalMoves
     DEF WriteFailure, Goto, DeploymentInv, QuietInv, ExecInv, TERMINAL_SUBMISSION_STATUSES
<1>10. CASE FailureWriteThrows(e)
  BY <1>10, FailureLoses
<1>11. QED
  BY <1>3, <1>4, <1>5, <1>6, <1>7, <1>8, <1>9, <1>10 DEF Judge, Processing

-----------------------------------------------------------------------------
(* The other steps.                                                        *)

LEMMA SubmissionStepRefines ==
    ASSUME DeploymentInv, NEW s \in Submissions,
           \/ CreateSubmission(s) \/ Handling(s) \/ PromoteDelayed(s)
           \/ MoveStalledJob(s) \/ PruneJob(s)
    PROVE  LifecycleStep
<1>1. CASE CreateSubmission(s)
  <2>1. /\ status[s] = Absent /\ status'[s] = "PENDING"
        /\ \A t \in Submissions \ {s} : status'[t] = status[t]
        /\ UNCHANGED <<finished, solvedCount, pc, cur>>
    BY <1>1 DEF CreateSubmission, DeploymentInv, QuietInv, RowInv, TypeOK, ProcessorTypeOK,
                execVars
  <2>2. \A t \in Submissions : Settling(t)' <=> Settling(t)
    BY <2>1 DEF Settling
  <2>3. OthersKept(s)
    BY <2>1, <2>2, VerdictFrame DEF OthersKept
  <2>4. VerdictOf(s) = "none" /\ VerdictOf(s)' = "open"
    BY <2>1 DEF VerdictOf, IsFinished, TERMINAL_SUBMISSION_STATUSES, Absent
  <2>5. QED  BY <2>1, <2>3, <2>4, MovesUncredited
<1>2. CASE Handling(s)
  <2>1. ~RejectSubmission(s)  BY DEF RejectSubmission, DeploymentInv, QuietInv, ApiInv
  <2>2. QED
    BY <1>2, <2>1, RowsAndExecutorsKept
       DEF Handling, Enqueue, EnqueueFails, RecordJobId, RecordJobIdFails, RejectFails,
           processorVars, rowVars, execVars
<1>3. CASE PromoteDelayed(s) \/ MoveStalledJob(s) \/ PruneJob(s)
  BY <1>3, RowsAndExecutorsKept
     DEF PromoteDelayed, MoveStalledJob, PruneJob, processorVars, rowVars, execVars
<1>4. QED  BY <1>1, <1>2, <1>3

\* An execution starts or ends outside the steps that settle a row.
LEMMA JobBoundariesRefine ==
    ASSUME DeploymentInv, NEW e \in Executors,
           EndJob(e) \/ \E s \in Submissions : StartJob(e, s)
    PROVE  LifecycleStep
<1>1. /\ UNCHANGED <<rowVars, solvedCount>>
      /\ pc[e] \notin {"credit", "catch"} /\ pc'[e] \notin {"credit", "catch"}
      /\ \A f \in Executors \ {e} : pc'[f] = pc[f] /\ cur'[f] = cur[f]
  BY DEF EndJob, Ended, Release, StartJob, Start, Goto, DeploymentInv, QuietInv, TypeOK,
         ProcessorTypeOK
<1>2. \A t \in Submissions : Settling(t)' <=> Settling(t)
  BY <1>1 DEF Settling
<1>3. QED
  BY <1>1, <1>2, VerdictFrame, Stutters DEF SameVerdicts, rowVars

\* A worker is lost, and with it every execution of its that settles a row.
LEMMA WorkerCrashLoses ==
    ASSUME DeploymentInv, NEW w \in Workers, WorkerCrash(w)
    PROVE  LifecycleStep
<1> DEFINE Lost(s) == \E e \in Executors :
                         WorkerOf[e] = w /\ cur[e] = s /\ pc[e] \in {"credit", "catch"}
           S == {s \in Submissions : VerdictOf(s) = "provisional" /\ Lost(s)}
<1>1. /\ UNCHANGED <<status, finished, solvedCount>>
      /\ \A e \in Executors : IF WorkerOf[e] = w THEN pc'[e] = "idle"
                                ELSE pc'[e] = pc[e] /\ cur'[e] = cur[e]
  BY DEF WorkerCrash, rowVars
<1>2. \A e, f \in Executors :
          pc[e] # "idle" /\ pc[f] # "idle" /\ cur[e] = cur[f] => e = f
  BY DEF DeploymentInv, QuietInv, LockInv
<1>3. ASSUME NEW s \in S
      PROVE  VerdictOf(s) = "provisional" /\ VerdictOf(s)' = "accepted"
  <2>1. ~Settling(s)'
    BY <1>1, <1>2, <1>3 DEF Settling
  <2>2. QED  BY <1>1, <1>3, <2>1 DEF VerdictOf, IsFinished
<1>4. ASSUME NEW t \in Submissions \ S
      PROVE  VerdictOf(t)' = VerdictOf(t)
  <2>1. CASE VerdictOf(t) = "provisional"
    <3>1. Settling(t) /\ ~Lost(t)
      BY <1>4, <2>1 DEF VerdictOf
    <3>2. Settling(t)'
      BY <1>1, <3>1 DEF Settling
    <3>3. QED  BY <1>1, <1>4, <3>1, <3>2, VerdictFrame
  <2>2. CASE VerdictOf(t) # "provisional"
    <3>1. Settling(t)' => Settling(t)
      BY <1>1 DEF Settling
    <3>2. QED  BY <1>1, <2>2, <3>1 DEF VerdictOf, IsFinished
  <2>3. QED  BY <2>1, <2>2
<1>5. S \in SUBSET Submissions  OBVIOUS
<1> HIDE DEF S
<1>6. QED  BY <1>1, <1>3, <1>4, <1>5, Losing

\* A recovery writes open rows only.
LEMMA RecoveryRefines ==
    ASSUME DeploymentInv, NEW p \in Processes, Recovering(p)
    PROVE  LifecycleStep
<1>1. CASE Boot(p) \/ ScanStuck(p) \/ RequeueStuck(p)
  BY <1>1, RowsAndExecutorsKept
     DEF Boot, ScanStuck, RequeueStuck, processorVars, rowVars, execVars
<1>2. CASE ResetStuck(p)
  <2>1. PICK s \in Submissions :
           NextStuck(p, s) /\ status' = [status EXCEPT ![s] = "PENDING"]
    BY <1>2 DEF ResetStuck
  <2>2. Open(s)
    BY <2>1 DEF NextStuck, DeploymentInv, StuckOpen
  <2>3. /\ status'[s] = "PENDING"
        /\ \A t \in Submissions \ {s} : status'[t] = status[t]
        /\ UNCHANGED <<finished, solvedCount, pc, cur>>
    BY <1>2, <2>1 DEF ResetStuck, DeploymentInv, QuietInv, TypeOK, ProcessorTypeOK, execVars
  <2>4. \A t \in Submissions : Settling(t)' <=> Settling(t)
    BY <2>3 DEF Settling
  <2>5. VerdictOf(s)' = VerdictOf(s)
    BY <2>2, <2>3 DEF VerdictOf, Open, IsFinished, TERMINAL_SUBMISSION_STATUSES, Absent
  <2>6. \A t \in Submissions \ {s} : VerdictOf(t)' = VerdictOf(t)
    BY <2>3, <2>4, VerdictFrame
  <2>7. QED  BY <2>3, <2>5, <2>6, Stutters DEF SameVerdicts
<1>3. QED  BY <1>1, <1>2 DEF Recovering

LEMMA StepRefines == DeploymentInv /\ [Next]_vars => LifecycleStep
<1> SUFFICES ASSUME DeploymentInv, [Next]_vars
             PROVE  LifecycleStep
  OBVIOUS
<1>1. CASE ApiCrash
  BY <1>1, RowsAndExecutorsKept DEF ApiCrash, rowVars, execVars
<1>2. CASE UNCHANGED vars
  BY <1>2, RowsAndExecutorsKept DEF vars, processorVars, rowVars, execVars
<1>3. QED
  BY <1>1, <1>2, SubmissionStepRefines, JudgeStepRefines, JobBoundariesRefine,
     WorkerCrashLoses, RecoveryRefines
     DEF Next, Rest

LEMMA InitRefines == Init => Lifecycle!LifecycleInit
BY DEF Init, ProcessorInit, Lifecycle!LifecycleInit, VerdictOf

\* What the owner sees of a submission and of solvedCount is a behaviour of
\* SubmissionLifecycle, for any number of slots, of crashes and restarts, of
\* failing database calls of the workers, retries and pruned jobs.
THEOREM Implements ==
    ASSUME Deployment
    PROVE  Spec => ImplementsLifecycle
<1>1. DeploymentInv /\ [Next]_vars => [Lifecycle!LifecycleNext]_(Lifecycle!lifecycleVars)
  BY StepRefines DEF LifecycleStep
<1>2. QED
  BY <1>1, InitRefines, DeploymentSafe, PTL
     DEF Spec, ImplementsLifecycle, Lifecycle!LifecycleSpec

=============================================================================
