------------------------- MODULE JudgePipelineProofs -------------------------
(***************************************************************************)
(* Theorems about JudgePipeline, for every number of submissions, users,   *)
(* problems, workers and executors and for every fault limit a theorem     *)
(* does not restrict.                                                      *)
(***************************************************************************)
EXTENDS JudgePipeline, TLAPS

LEMMA MappedStatus ==
    ASSUME NEW result \in JudgeStatus
    PROVE  mapJudgeStatus(result) \in TERMINAL_SUBMISSION_STATUSES
BY DEF JudgeStatus, mapJudgeStatus, TERMINAL_SUBMISSION_STATUSES

LEMMA FaultType ==
    ASSUME faults \in [FaultKinds -> Nat], NEW k \in FaultKinds, Suffer(k)
    PROVE  faults' \in [FaultKinds -> Nat]
BY DEF Suffer

LEMMA AddJobType ==
    ASSUME QueueTypeOK, NEW s \in Submissions, AddJob(s)
    PROVE  QueueTypeOK'
BY QueueAssumption DEF QueueTypeOK, AddJob, queueVars, JobState

LEMMA QueueUnchanged ==
    ASSUME QueueTypeOK, UNCHANGED queueVars
    PROVE  QueueTypeOK'
BY DEF QueueTypeOK, queueVars

LEMMA ProcessorUnchanged ==
    ASSUME ProcessorTypeOK, UNCHANGED <<rowVars, solvedCount, execVars>>,
           faults' \in [FaultKinds -> Nat]
    PROVE  ProcessorTypeOK'
BY DEF ProcessorTypeOK, rowVars, execVars

LEMMA ProcessingType ==
    ASSUME ProcessorTypeOK, NEW e \in Executors, Processing(e)
    PROVE  ProcessorTypeOK'
<1> USE DEF ProcessorTypeOK, rowVars, Goto, ExecPc
<1>1. CASE SkipTerminal(e)  BY <1>1 DEF SkipTerminal
<1>2. CASE ReadOpen(e)  BY <1>2 DEF ReadOpen
<1>3. CASE MarkRunning(e)
  <2>1. NumCases[ProblemOf[cur[e]]] \in Nat
    BY <1>3, OwnershipAssumption DEF MarkRunning
  <2>2. QED
    BY <1>3, <2>1 DEF MarkRunning, SubmissionStatus, TERMINAL_SUBMISSION_STATUSES
<1>4. CASE EarlyFailure(e)
  <2>1. faults' \in [FaultKinds -> Nat]
    BY <1>4, FaultType DEF EarlyFailure, FaultKinds
  <2>2. QED  BY <1>4, <2>1 DEF EarlyFailure
<1>5. CASE NoTestCases(e)
  BY <1>5 DEF NoTestCases, WriteTerminal, SubmissionStatus
<1>6. CASE RunCase(e)
  <2>1. PICK result \in JudgeResults :
             /\ final' = [final EXCEPT ![e] = mapJudgeStatus(result)]
             /\ left' = [left EXCEPT ![e] = @ - 1]
             /\ Goto(e, IF mapJudgeStatus(result) # "ACCEPTED" \/ left[e] = 1
                        THEN "write" ELSE "run")
    BY <1>6 DEF RunCase
  <2>2. mapJudgeStatus(result) \in TERMINAL_SUBMISSION_STATUSES
    BY ResultsAssumption, MappedStatus
  <2>3. left[e] - 1 \in Nat
    BY <1>6 DEF RunCase
  <2>4. QED  BY <1>6, <2>1, <2>2, <2>3 DEF RunCase
<1>7. CASE WriteVerdict(e)
  BY <1>7 DEF WriteVerdict, WriteTerminal, SubmissionStatus, TERMINAL_SUBMISSION_STATUSES
<1>8. CASE CreditFirstAccepted(e)
  <2>1. UserOf[cur[e]] \in Users
    BY <1>8, OwnershipAssumption DEF CreditFirstAccepted
  <2>2. solvedCount' \in [Users -> Nat]
    BY <1>8, <2>1 DEF CreditFirstAccepted
  <2>3. QED  BY <1>8, <2>2 DEF CreditFirstAccepted
<1>9. CASE JudgingThrows(e)
  <2>1. faults' \in [FaultKinds -> Nat]
    BY <1>9, FaultType DEF JudgingThrows, FaultKinds
  <2>2. QED  BY <1>9, <2>1 DEF JudgingThrows
<1>10. CASE WriteFailure(e)
  BY <1>10 DEF WriteFailure, WriteTerminal, SubmissionStatus
<1>11. CASE FailureWriteThrows(e)
  <2>1. faults' \in [FaultKinds -> Nat]
    BY <1>11, FaultType DEF FailureWriteThrows, FaultKinds
  <2>2. QED  BY <1>11, <2>1 DEF FailureWriteThrows
<1>12. QED
  BY <1>1, <1>2, <1>3, <1>4, <1>5, <1>6, <1>7, <1>8, <1>9, <1>10, <1>11
     DEF Processing

-----------------------------------------------------------------------------
(* Type correctness.                                                       *)

LEMMA SubmissionStepType ==
    ASSUME TypeOK, NEW s \in Submissions,
           \/ CreateSubmission(s) \/ Handling(s) \/ PromoteDelayed(s)
           \/ MoveStalledJob(s) \/ PruneJob(s)
    PROVE  TypeOK'
<1>1. ProcessorTypeOK /\ QueueTypeOK  BY DEF TypeOK
<1>2. faults \in [FaultKinds -> Nat]  BY DEF TypeOK, ProcessorTypeOK
<1>3. "queue" \in FaultKinds /\ "apiDb" \in FaultKinds /\ "lockLoss" \in FaultKinds
      /\ "prune" \in FaultKinds
  BY DEF FaultKinds
<1>4. CASE CreateSubmission(s)
  <2>1. ProcessorTypeOK'
    BY <1>1, <1>4 DEF CreateSubmission, ProcessorTypeOK, execVars, SubmissionStatus
  <2>2. QueueTypeOK'  BY <1>1, <1>4, QueueUnchanged DEF CreateSubmission
  <2>3. QED  BY <1>4, <2>1, <2>2 DEF CreateSubmission, TypeOK, ApiPc
<1>5. CASE Enqueue(s)
  <2>1. ProcessorTypeOK'
    BY <1>1, <1>2, <1>5, ProcessorUnchanged DEF Enqueue, processorVars
  <2>2. QueueTypeOK'  BY <1>1, <1>5, AddJobType DEF Enqueue
  <2>3. QED  BY <1>5, <2>1, <2>2 DEF Enqueue, TypeOK, ApiPc
<1>6. CASE EnqueueFails(s)
  <2>1. ProcessorTypeOK'
    BY <1>1, <1>2, <1>3, <1>6, FaultType, ProcessorUnchanged DEF EnqueueFails
  <2>2. QueueTypeOK'
    BY <1>1, <1>6, AddJobType, QueueUnchanged DEF EnqueueFails
  <2>3. QED  BY <1>6, <2>1, <2>2 DEF EnqueueFails, TypeOK, ApiPc
<1>7. CASE RecordJobId(s)
  <2>1. ProcessorTypeOK'
    BY <1>1, <1>2, <1>7, ProcessorUnchanged DEF RecordJobId, processorVars
  <2>2. QueueTypeOK'  BY <1>1, <1>7, QueueUnchanged DEF RecordJobId
  <2>3. QED  BY <1>7, <2>1, <2>2 DEF RecordJobId, TypeOK, ApiPc
<1>8. CASE RecordJobIdFails(s)
  <2>1. ProcessorTypeOK'
    BY <1>1, <1>2, <1>3, <1>8, FaultType, ProcessorUnchanged DEF RecordJobIdFails
  <2>2. QueueTypeOK'  BY <1>1, <1>8, QueueUnchanged DEF RecordJobIdFails
  <2>3. QED  BY <1>8, <2>1, <2>2 DEF RecordJobIdFails, TypeOK, ApiPc
<1>9. CASE RejectSubmission(s)
  <2>1. ProcessorTypeOK'
    BY <1>1, <1>9
       DEF RejectSubmission, WriteTerminal, ProcessorTypeOK, execVars, SubmissionStatus
  <2>2. QueueTypeOK'  BY <1>1, <1>9, QueueUnchanged DEF RejectSubmission
  <2>3. QED  BY <1>9, <2>1, <2>2 DEF RejectSubmission, TypeOK, ApiPc
<1>10. CASE RejectFails(s)
  <2>1. ProcessorTypeOK'
    BY <1>1, <1>2, <1>3, <1>10, FaultType, ProcessorUnchanged DEF RejectFails
  <2>2. QueueTypeOK'  BY <1>1, <1>10, QueueUnchanged DEF RejectFails
  <2>3. QED  BY <1>10, <2>1, <2>2 DEF RejectFails, TypeOK, ApiPc
<1>11. CASE PromoteDelayed(s)
  <2>1. ProcessorTypeOK'
    BY <1>1, <1>2, <1>11, ProcessorUnchanged DEF PromoteDelayed, processorVars
  <2>2. QueueTypeOK'
    BY <1>1, <1>11 DEF PromoteDelayed, PromoteJob, QueueTypeOK, JobState
  <2>3. QED  BY <1>11, <2>1, <2>2 DEF PromoteDelayed, TypeOK
<1>12. CASE MoveStalledJob(s)
  <2>1. ProcessorTypeOK'
    BY <1>1, <1>2, <1>3, <1>12, FaultType, ProcessorUnchanged DEF MoveStalledJob
  <2>2. QueueTypeOK'
    BY <1>1, <1>12, QueueAssumption DEF MoveStalledJob, StallJob, QueueTypeOK, JobState
  <2>3. QED  BY <1>12, <2>1, <2>2 DEF MoveStalledJob, TypeOK
<1>13. CASE PruneJob(s)
  <2>1. ProcessorTypeOK'
    BY <1>1, <1>2, <1>3, <1>13, FaultType, ProcessorUnchanged DEF PruneJob
  <2>2. QueueTypeOK'
    BY <1>1, <1>13 DEF PruneJob, RemoveJob, QueueTypeOK, JobState
  <2>3. QED  BY <1>13, <2>1, <2>2 DEF PruneJob, TypeOK
<1>14. QED
  BY <1>4, <1>5, <1>6, <1>7, <1>8, <1>9, <1>10, <1>11, <1>12, <1>13 DEF Handling

LEMMA ExecutorStepType ==
    ASSUME TypeOK, NEW e \in Executors,
           \/ Judge(e) \/ EndJob(e) \/ \E s \in Submissions : StartJob(e, s)
    PROVE  TypeOK'
<1>1. ProcessorTypeOK /\ QueueTypeOK  BY DEF TypeOK
<1>2. CASE Judge(e)
  <2>1. ProcessorTypeOK'  BY <1>1, <1>2, ProcessingType DEF Judge
  <2>2. QueueTypeOK'  BY <1>1, <1>2, QueueUnchanged DEF Judge
  <2>3. QED  BY <1>2, <2>1, <2>2 DEF Judge, TypeOK
<1>3. CASE EndJob(e)
  <2>1. ProcessorTypeOK'
    BY <1>1, <1>3
       DEF EndJob, Release, ProcessorTypeOK, rowVars, ExecPc, TERMINAL_SUBMISSION_STATUSES
  <2>2. cur[e] \in Submissions
    BY <1>1, <1>3 DEF EndJob, Ended, ProcessorTypeOK
  <2>3. QueueTypeOK'
    <3>1. CASE pc[e] = "returned"
      BY <1>1, <1>3, <2>2, <3>1
         DEF EndJob, CompleteJob, Owns, QueueTypeOK, queueVars, JobState
    <3>2. CASE pc[e] # "returned"
      <4> DEFINE s == cur[e]
      <4>1. FailAttempt(s, e)  BY <1>3, <3>2 DEF EndJob
      <4>2. CASE ~Owns(e, s)
        BY <1>1, <4>1, <4>2, QueueUnchanged DEF FailAttempt
      <4>3. CASE Owns(e, s)
        <5>1. attemptsMade[s] \in Nat /\ attemptsMade[s] + 1 <= Attempts
          BY <1>1, <2>2, <4>3, QueueAssumption DEF Owns, QueueTypeOK
        <5>2. QED
          BY <1>1, <2>2, <4>1, <4>3, <5>1, QueueAssumption
             DEF FailAttempt, Owns, QueueTypeOK, JobState
      <4>4. QED  BY <4>2, <4>3
    <3>3. QED  BY <3>1, <3>2
  <2>4. QED  BY <1>3, <2>1, <2>3 DEF EndJob, TypeOK
<1>4. ASSUME NEW s \in Submissions, StartJob(e, s)
      PROVE  TypeOK'
  <2>1. ProcessorTypeOK'
    BY <1>1, <1>4 DEF StartJob, Start, Goto, ProcessorTypeOK, rowVars, ExecPc
  <2>2. QueueTypeOK'
    BY <1>1, <1>4 DEF StartJob, TakeJob, QueueTypeOK, JobState
  <2>3. QED  BY <1>4, <2>1, <2>2 DEF StartJob, TypeOK
<1>5. QED  BY <1>2, <1>3, <1>4

LEMMA ProcessStepType ==
    ASSUME TypeOK,
           \/ ApiCrash \/ \E w \in Workers : WorkerCrash(w)
           \/ \E p \in Processes : Recovering(p)
    PROVE  TypeOK'
<1>1. ProcessorTypeOK /\ QueueTypeOK  BY DEF TypeOK
<1>2. faults \in [FaultKinds -> Nat]  BY DEF TypeOK, ProcessorTypeOK
<1>3. "apiCrash" \in FaultKinds /\ "workerCrash" \in FaultKinds
  BY DEF FaultKinds
<1>4. CASE ApiCrash
  <2>1. ProcessorTypeOK'
    BY <1>1, <1>2, <1>3, <1>4, FaultType, ProcessorUnchanged DEF ApiCrash
  <2>2. QueueTypeOK'  BY <1>1, <1>4, QueueUnchanged DEF ApiCrash
  <2>3. QED  BY <1>4, <2>1, <2>2 DEF ApiCrash, TypeOK, ApiPc, Processes
<1>5. ASSUME NEW w \in Workers, WorkerCrash(w)
      PROVE  TypeOK'
  <2>1. faults' \in [FaultKinds -> Nat]
    BY <1>2, <1>3, <1>5, FaultType DEF WorkerCrash
  <2>2. ProcessorTypeOK'
    BY <1>1, <1>5, <2>1
       DEF WorkerCrash, ProcessorTypeOK, rowVars, ExecPc, TERMINAL_SUBMISSION_STATUSES
  <2>3. QueueTypeOK'  BY <1>1, <1>5, QueueUnchanged DEF WorkerCrash
  <2>4. QED  BY <1>5, <2>2, <2>3 DEF WorkerCrash, TypeOK, Processes
<1>6. ASSUME NEW p \in Processes, Recovering(p)
      PROVE  TypeOK'
  <2>1. CASE Boot(p)
    <3>1. ProcessorTypeOK'
      BY <1>1, <1>2, <2>1, ProcessorUnchanged DEF Boot, processorVars
    <3>2. QueueTypeOK'  BY <1>1, <2>1, QueueUnchanged DEF Boot
    <3>3. QED  BY <2>1, <3>1, <3>2 DEF Boot, TypeOK
  <2>2. CASE ScanStuck(p)
    <3>1. ProcessorTypeOK'
      BY <1>1, <1>2, <2>2, ProcessorUnchanged DEF ScanStuck, processorVars
    <3>2. QueueTypeOK'  BY <1>1, <2>2, QueueUnchanged DEF ScanStuck
    <3>3. \E S \in SUBSET Submissions : stuck' = [stuck EXCEPT ![p] = S]
      BY <2>2 DEF ScanStuck, Oldest, StuckRows
    <3>4. QED  BY <2>2, <3>1, <3>2, <3>3 DEF ScanStuck, TypeOK
  <2>3. CASE ResetStuck(p)
    <3>1. ProcessorTypeOK'
      BY <1>1, <2>3 DEF ResetStuck, ProcessorTypeOK, execVars, SubmissionStatus
    <3>2. QueueTypeOK'  BY <1>1, <2>3, QueueUnchanged DEF ResetStuck
    <3>3. QED  BY <2>3, <3>1, <3>2 DEF ResetStuck, TypeOK
  <2>4. CASE RequeueStuck(p)
    <3>1. ProcessorTypeOK'
      BY <1>1, <1>2, <2>4, ProcessorUnchanged DEF RequeueStuck, processorVars
    <3>2. QueueTypeOK'  BY <1>1, <2>4, AddJobType DEF RequeueStuck
    <3>3. QED  BY <2>4, <3>1, <3>2 DEF RequeueStuck, TypeOK
  <2>5. QED  BY <1>6, <2>1, <2>2, <2>3, <2>4 DEF Recovering
<1>7. QED  BY <1>4, <1>5, <1>6

LEMMA InitType == Init => TypeOK
BY QueueAssumption
   DEF Init, ProcessorInit, QueueInit, TypeOK, ProcessorTypeOK, QueueTypeOK, ApiPc,
       ExecPc, JobState, TERMINAL_SUBMISSION_STATUSES, Absent

LEMMA StepType == TypeOK /\ [Next]_vars => TypeOK'
<1> SUFFICES ASSUME TypeOK, [Next]_vars
             PROVE  TypeOK'
  OBVIOUS
<1>1. CASE UNCHANGED vars
  <2>1. ProcessorTypeOK'
    BY <1>1, ProcessorUnchanged DEF TypeOK, vars, processorVars, ProcessorTypeOK
  <2>2. QueueTypeOK'  BY <1>1, QueueUnchanged DEF TypeOK, vars
  <2>3. QED  BY <1>1, <2>1, <2>2 DEF TypeOK, vars
<1>2. CASE Next
  BY <1>1, <1>2, SubmissionStepType, ExecutorStepType, ProcessStepType DEF Next, Rest
<1>3. QED  BY <1>1, <1>2

\* Every variable keeps its type, whatever fails and however often.
THEOREM TypeCorrect == Spec => []TypeOK
BY InitType, StepType, PTL DEF Spec

-----------------------------------------------------------------------------
(* Mutual exclusion of executions.  The inductive invariant: whoever runs  *)
(* a submission holds the lock of its job.                                 *)

LockInv ==
    \A e \in Executors :
        pc[e] # "idle" => jobState[cur[e]] = "active" /\ holder[cur[e]] = e

NoLockLoss == FaultLimit["lockLoss"] = 0

\* No step of processSubmission moves an executor to another submission.
LEMMA ProcessingStays ==
    ASSUME ProcessorTypeOK, NEW e \in Executors, Processing(e)
    PROVE  /\ UNCHANGED cur
           /\ pc[e] # "idle"
           /\ \A f \in Executors : f # e => pc'[f] = pc[f]
BY DEF ProcessorTypeOK, Processing, Goto, SkipTerminal, ReadOpen, MarkRunning,
       EarlyFailure, NoTestCases, RunCase, WriteVerdict, CreditFirstAccepted,
       JudgingThrows, WriteFailure, FailureWriteThrows

LEMMA LockKept ==
    ASSUME LockInv, UNCHANGED <<execVars, queueVars>>
    PROVE  LockInv'
BY DEF LockInv, execVars, queueVars

LEMMA AddJobKeepsLock ==
    ASSUME TypeOK, LockInv, NEW s \in Submissions, AddJob(s), UNCHANGED execVars
    PROVE  LockInv'
BY DEF TypeOK, ProcessorTypeOK, QueueTypeOK, LockInv, AddJob, queueVars, execVars

LEMMA SubmissionStepLock ==
    ASSUME TypeOK, LockInv, NoLockLoss, NEW s \in Submissions,
           \/ CreateSubmission(s) \/ Handling(s) \/ PromoteDelayed(s)
           \/ MoveStalledJob(s) \/ PruneJob(s)
    PROVE  LockInv'
<1>1. CASE CreateSubmission(s) \/ RecordJobId(s) \/ RecordJobIdFails(s)
           \/ RejectSubmission(s) \/ RejectFails(s)
  BY <1>1, LockKept
     DEF CreateSubmission, RecordJobId, RecordJobIdFails, RejectSubmission,
         RejectFails, processorVars
<1>2. CASE Enqueue(s) \/ EnqueueFails(s)
  BY <1>2, LockKept, AddJobKeepsLock DEF Enqueue, EnqueueFails, processorVars
<1>3. CASE PromoteDelayed(s)
  BY <1>3 DEF PromoteDelayed, PromoteJob, TypeOK, ProcessorTypeOK, QueueTypeOK,
              LockInv, processorVars, execVars
<1>4. CASE MoveStalledJob(s)
  <2>1. ~Suffer("lockLoss")
    BY DEF NoLockLoss, Suffer, TypeOK, ProcessorTypeOK, FaultKinds
  <2>2. \A e \in Executors : pc[e] # "idle" => cur[e] # s
    BY <1>4, <2>1 DEF MoveStalledJob, Executing, LockInv
  <2>3. QED
    BY <1>4, <2>2 DEF MoveStalledJob, StallJob, TypeOK, ProcessorTypeOK,
                      QueueTypeOK, LockInv, execVars
<1>5. CASE PruneJob(s)
  BY <1>5 DEF PruneJob, RemoveJob, TypeOK, ProcessorTypeOK, QueueTypeOK, LockInv,
              execVars
<1>6. QED  BY <1>1, <1>2, <1>3, <1>4, <1>5 DEF Handling

LEMMA ExecutorStepLock ==
    ASSUME TypeOK, LockInv, NEW e \in Executors,
           \/ Judge(e) \/ EndJob(e) \/ \E s \in Submissions : StartJob(e, s)
    PROVE  LockInv'
<1>1. CASE Judge(e)
  BY <1>1, ProcessingStays DEF Judge, TypeOK, LockInv, queueVars
<1>2. CASE EndJob(e)
  <2>1. pc[e] # "idle" /\ cur[e] \in Submissions
    BY <1>2 DEF EndJob, Ended, TypeOK, ProcessorTypeOK
  <2>2. \A f \in Executors : f # e /\ pc[f] # "idle" => cur[f] # cur[e]
    BY <2>1 DEF LockInv
  <2>3. \A f \in Executors : pc'[f] # "idle" =>
            f # e /\ pc[f] # "idle" /\ cur'[f] = cur[f]
    BY <1>2 DEF EndJob, Release, TypeOK, ProcessorTypeOK
  <2>4. \A s \in Submissions : s # cur[e] =>
            jobState'[s] = jobState[s] /\ holder'[s] = holder[s]
    BY <1>2, <2>1 DEF EndJob, CompleteJob, FailAttempt, TypeOK, QueueTypeOK, queueVars
  <2>5. QED
    BY <2>2, <2>3, <2>4 DEF LockInv, TypeOK, ProcessorTypeOK
<1>3. ASSUME NEW s \in Submissions, StartJob(e, s)
      PROVE  LockInv'
  BY <1>3 DEF StartJob, TakeJob, Start, Goto, TypeOK, ProcessorTypeOK, QueueTypeOK,
              LockInv
<1>4. QED  BY <1>1, <1>2, <1>3

LEMMA ProcessStepLock ==
    ASSUME TypeOK, LockInv,
           \/ ApiCrash \/ \E w \in Workers : WorkerCrash(w)
           \/ \E p \in Processes : Recovering(p)
    PROVE  LockInv'
<1>1. CASE ApiCrash
  BY <1>1, LockKept DEF ApiCrash
<1>2. ASSUME NEW w \in Workers, WorkerCrash(w)
      PROVE  LockInv'
  BY <1>2 DEF WorkerCrash, LockInv, queueVars
<1>3. ASSUME NEW p \in Processes, Recovering(p)
      PROVE  LockInv'
  <2>1. CASE Boot(p) \/ ScanStuck(p) \/ ResetStuck(p)
    BY <2>1, LockKept DEF Boot, ScanStuck, ResetStuck, processorVars
  <2>2. CASE RequeueStuck(p)
    BY <2>2, AddJobKeepsLock DEF RequeueStuck, processorVars
  <2>3. QED  BY <1>3, <2>1, <2>2 DEF Recovering
<1>4. QED  BY <1>1, <1>2, <1>3

LEMMA StepLock ==
    ASSUME NoLockLoss
    PROVE  TypeOK /\ LockInv /\ [Next]_vars => LockInv'
<1> SUFFICES ASSUME TypeOK, LockInv, [Next]_vars
             PROVE  LockInv'
  OBVIOUS
<1>1. CASE UNCHANGED vars
  BY <1>1, LockKept DEF vars, processorVars
<1>2. CASE Next
  BY <1>1, <1>2, SubmissionStepLock, ExecutorStepLock, ProcessStepLock DEF Next, Rest
<1>3. QED  BY <1>1, <1>2

LEMMA LocksHeld ==
    ASSUME NoLockLoss
    PROVE  Spec => [](TypeOK /\ LockInv)
<1>1. Init => LockInv
  BY DEF Init, ProcessorInit, LockInv
<1>2. QED
  BY <1>1, InitType, StepType, StepLock, PTL DEF Spec

\* As long as locks are renewed in time, crashes, restarts, recoveries, pruned
\* jobs and failing calls never make two executors judge one submission.
THEOREM Exclusive ==
    ASSUME NoLockLoss
    PROVE  Spec => []ExclusiveExecution
<1>1. TypeOK /\ LockInv => ExclusiveExecution
  BY DEF LockInv, ExclusiveExecution
<1>2. QED
  BY <1>1, LocksHeld, PTL

-----------------------------------------------------------------------------
(* Score and verdict agree.  Only the catch block of the POST handler      *)
(* writes a verdict without a score, so it must not be reached.            *)

ScoreInv ==
    /\ ScoreMatchesVerdict
    /\ \A s \in Submissions : api[s] # "reject"

NoApiFailure == FaultLimit["queue"] = 0 /\ FaultLimit["apiDb"] = 0

LEMMA ApiCallsSucceed ==
    ASSUME TypeOK, NoApiFailure
    PROVE  ~Suffer("queue") /\ ~Suffer("apiDb")
BY DEF NoApiFailure, Suffer, TypeOK, ProcessorTypeOK, FaultKinds

LEMMA ScoreKept ==
    ASSUME ScoreInv, UNCHANGED <<rowVars, api>>
    PROVE  ScoreInv'
BY DEF ScoreInv, ScoreMatchesVerdict, IsFinished, rowVars

\* A row of an open status may change to another one.
LEMMA ScoreKeptOpen ==
    ASSUME TypeOK, ScoreInv, NEW s \in Submissions, NEW st \in {"PENDING", "RUNNING"},
           status' = [status EXCEPT ![s] = st], UNCHANGED <<finished, score>>,
           \A t \in Submissions : api'[t] # "reject"
    PROVE  ScoreInv'
BY DEF TypeOK, ProcessorTypeOK, ScoreInv, ScoreMatchesVerdict, IsFinished,
       TERMINAL_SUBMISSION_STATUSES

LEMMA ScoreWritten ==
    ASSUME TypeOK, ScoreInv, NEW s \in Submissions, NEW st, NEW sc,
           WriteTerminal(s, st, sc), sc = 100 <=> st = "ACCEPTED", UNCHANGED api
    PROVE  ScoreInv'
BY DEF TypeOK, ProcessorTypeOK, ScoreInv, ScoreMatchesVerdict, IsFinished, WriteTerminal

LEMMA SubmissionStepScore ==
    ASSUME TypeOK, ScoreInv, NoApiFailure, NEW s \in Submissions,
           \/ CreateSubmission(s) \/ Handling(s) \/ PromoteDelayed(s)
           \/ MoveStalledJob(s) \/ PruneJob(s)
    PROVE  ScoreInv'
<1>1. CASE CreateSubmission(s)
  BY <1>1, ScoreKeptOpen DEF CreateSubmission, ScoreInv, TypeOK
<1>2. CASE Enqueue(s) \/ RecordJobId(s)
  BY <1>2 DEF Enqueue, RecordJobId, ScoreInv, ScoreMatchesVerdict, IsFinished,
              processorVars, rowVars, TypeOK
<1>3. CASE EnqueueFails(s) \/ RecordJobIdFails(s) \/ RejectSubmission(s) \/ RejectFails(s)
  BY <1>3, ApiCallsSucceed
     DEF EnqueueFails, RecordJobIdFails, RejectSubmission, RejectFails, ScoreInv
<1>4. CASE PromoteDelayed(s) \/ MoveStalledJob(s) \/ PruneJob(s)
  BY <1>4, ScoreKept DEF PromoteDelayed, MoveStalledJob, PruneJob, processorVars
<1>5. QED  BY <1>1, <1>2, <1>3, <1>4 DEF Handling

LEMMA JudgeStepScore ==
    ASSUME TypeOK, ScoreInv, NEW e \in Executors, Judge(e)
    PROVE  ScoreInv'
<1>1. cur[e] \in Submissions
  BY ProcessingStays DEF Judge, TypeOK, ProcessorTypeOK
<1>2. CASE SkipTerminal(e) \/ ReadOpen(e) \/ EarlyFailure(e) \/ RunCase(e)
           \/ CreditFirstAccepted(e) \/ JudgingThrows(e) \/ FailureWriteThrows(e)
  BY <1>2, ScoreKept
     DEF Judge, SkipTerminal, ReadOpen, EarlyFailure, RunCase, CreditFirstAccepted,
         JudgingThrows, FailureWriteThrows
<1>3. CASE MarkRunning(e)
  BY <1>1, <1>3, ScoreKeptOpen DEF Judge, MarkRunning, ScoreInv
<1>4. CASE NoTestCases(e)
  BY <1>1, <1>4, ScoreWritten DEF Judge, NoTestCases
<1>5. CASE WriteVerdict(e)
  BY <1>1, <1>5, ScoreWritten DEF Judge, WriteVerdict
<1>6. CASE WriteFailure(e)
  BY <1>1, <1>6, ScoreWritten DEF Judge, WriteFailure
<1>7. QED  BY <1>2, <1>3, <1>4, <1>5, <1>6 DEF Judge, Processing

LEMMA OtherStepScore ==
    ASSUME TypeOK, ScoreInv,
           \/ \E e \in Executors : EndJob(e) \/ \E s \in Submissions : StartJob(e, s)
           \/ ApiCrash \/ \E w \in Workers : WorkerCrash(w)
           \/ \E p \in Processes : Recovering(p)
    PROVE  ScoreInv'
<1>1. ASSUME NEW e \in Executors, EndJob(e) \/ \E s \in Submissions : StartJob(e, s)
      PROVE  ScoreInv'
  BY <1>1, ScoreKept DEF EndJob, Release, StartJob, Start
<1>2. CASE ApiCrash
  BY <1>2 DEF ApiCrash, InHandler, ScoreInv, ScoreMatchesVerdict, IsFinished, rowVars
<1>3. ASSUME NEW w \in Workers, WorkerCrash(w)
      PROVE  ScoreInv'
  BY <1>3, ScoreKept DEF WorkerCrash
<1>4. ASSUME NEW p \in Processes, Recovering(p)
      PROVE  ScoreInv'
  <2>1. CASE Boot(p) \/ ScanStuck(p) \/ RequeueStuck(p)
    BY <2>1, ScoreKept DEF Boot, ScanStuck, RequeueStuck, processorVars
  <2>2. CASE ResetStuck(p)
    BY <2>2, ScoreKeptOpen DEF ResetStuck, ScoreInv
  <2>3. QED  BY <1>4, <2>1, <2>2 DEF Recovering
<1>5. QED  BY <1>1, <1>2, <1>3, <1>4

\* While the POST handlers' queue and database calls succeed, a finished row
\* scores 100 exactly when it is ACCEPTED: under worker crashes, lost locks,
\* overlapping executions and recoveries that reset judged rows.
THEOREM ScoreCorrect ==
    ASSUME NoApiFailure
    PROVE  Spec => []ScoreMatchesVerdict
<1>1. Init => ScoreInv
  BY DEF Init, ProcessorInit, ScoreInv, ScoreMatchesVerdict, IsFinished
<1>2. TypeOK /\ ScoreInv /\ [Next]_vars => ScoreInv'
  <2> SUFFICES ASSUME TypeOK, ScoreInv, [Next]_vars
               PROVE  ScoreInv'
    OBVIOUS
  <2>1. CASE UNCHANGED vars
    BY <2>1, ScoreKept DEF vars, processorVars
  <2>2. CASE Next
    BY <2>1, <2>2, SubmissionStepScore, JudgeStepScore, OtherStepScore DEF Next, Rest
  <2>3. QED  BY <2>1, <2>2
<1>3. ScoreInv => ScoreMatchesVerdict
  BY DEF ScoreInv
<1>4. QED
  BY <1>1, <1>2, <1>3, TypeCorrect, PTL DEF Spec

-----------------------------------------------------------------------------
(* Acceptances are earned.  An execution never has more test cases left    *)
(* than its problem has, so one that reaches a verdict has run a test case.*)

EarnedInv ==
    /\ \A s \in Submissions : status[s] = "ACCEPTED" => NumCases[ProblemOf[s]] > 0
    /\ \A e \in Executors :
         /\ pc[e] = "run" => left[e] <= NumCases[ProblemOf[cur[e]]]
         /\ pc[e] = "write" => /\ NumCases[ProblemOf[cur[e]]] > 0
                               /\ final[e] = "ACCEPTED" => left[e] = 0

LEMMA EarnedKept ==
    ASSUME EarnedInv, UNCHANGED <<status, execVars>>
    PROVE  EarnedInv'
BY DEF EarnedInv, execVars

\* A row that is written, but not to ACCEPTED.
LEMMA EarnedOther ==
    ASSUME TypeOK, EarnedInv, NEW s \in Submissions, NEW st, st # "ACCEPTED",
           status' = [status EXCEPT ![s] = st], UNCHANGED execVars
    PROVE  EarnedInv'
BY DEF TypeOK, ProcessorTypeOK, EarnedInv, execVars

LEMMA JudgeStepEarned ==
    ASSUME TypeOK, EarnedInv, NEW e \in Executors, Judge(e)
    PROVE  EarnedInv'
<1> USE DEF TypeOK, ProcessorTypeOK, EarnedInv, Goto
<1>1. cur[e] \in Submissions /\ UNCHANGED cur
  BY ProcessingStays DEF Judge
<1>2. NumCases[ProblemOf[cur[e]]] \in Nat
  BY <1>1, OwnershipAssumption
<1>3. CASE SkipTerminal(e) \/ ReadOpen(e) \/ EarlyFailure(e) \/ CreditFirstAccepted(e)
           \/ JudgingThrows(e) \/ FailureWriteThrows(e)
  BY <1>3 DEF SkipTerminal, ReadOpen, EarlyFailure, CreditFirstAccepted, JudgingThrows,
              FailureWriteThrows, rowVars
<1>4. CASE MarkRunning(e)
  BY <1>1, <1>2, <1>4 DEF MarkRunning
<1>5. CASE RunCase(e)
  <2>1. status' = status  BY <1>5 DEF RunCase, rowVars
  <2>2. \A f \in Executors \ {e} :
            pc'[f] = pc[f] /\ left'[f] = left[f] /\ final'[f] = final[f]
    BY <1>5 DEF RunCase
  <2>3. left[e] \in Nat /\ left[e] > 0 /\ left'[e] = left[e] - 1 /\ pc[e] = "run"
    BY <1>5 DEF RunCase
  <2>4. pc'[e] \in {"run", "write"} /\ (pc'[e] = "write" /\ final'[e] = "ACCEPTED" => left[e] = 1)
    BY <1>5 DEF RunCase
  <2>5. QED  BY <1>1, <1>2, <2>1, <2>2, <2>3, <2>4
<1>6. CASE NoTestCases(e) \/ WriteFailure(e)
  BY <1>1, <1>6 DEF NoTestCases, WriteFailure, WriteTerminal
<1>7. CASE WriteVerdict(e)
  BY <1>1, <1>7 DEF WriteVerdict, WriteTerminal
<1>8. QED
  BY <1>3, <1>4, <1>5, <1>6, <1>7 DEF Judge, Processing

LEMMA OtherStepEarned ==
    ASSUME TypeOK, EarnedInv,
           \/ \E s \in Submissions :
                CreateSubmission(s) \/ Handling(s) \/ PromoteDelayed(s)
                  \/ MoveStalledJob(s) \/ PruneJob(s)
           \/ \E e \in Executors : EndJob(e) \/ \E s \in Submissions : StartJob(e, s)
           \/ ApiCrash \/ \E w \in Workers : WorkerCrash(w)
           \/ \E p \in Processes : Recovering(p)
    PROVE  EarnedInv'
<1>1. ASSUME NEW s \in Submissions, CreateSubmission(s) \/ RejectSubmission(s)
      PROVE  EarnedInv'
  BY <1>1, EarnedOther DEF CreateSubmission, RejectSubmission, WriteTerminal
<1>2. ASSUME NEW s \in Submissions,
             \/ Enqueue(s) \/ EnqueueFails(s) \/ RecordJobId(s) \/ RecordJobIdFails(s)
             \/ RejectFails(s) \/ PromoteDelayed(s) \/ MoveStalledJob(s) \/ PruneJob(s)
      PROVE  EarnedInv'
  BY <1>2, EarnedKept
     DEF Enqueue, EnqueueFails, RecordJobId, RecordJobIdFails, RejectFails,
         PromoteDelayed, MoveStalledJob, PruneJob, processorVars, rowVars
<1>3. ASSUME NEW e \in Executors, EndJob(e) \/ \E s \in Submissions : StartJob(e, s)
      PROVE  EarnedInv'
  BY <1>3 DEF EndJob, Release, StartJob, Start, rowVars, EarnedInv, TypeOK,
              ProcessorTypeOK, Goto
<1>4. CASE ApiCrash  BY <1>4, EarnedKept DEF ApiCrash, rowVars
<1>5. ASSUME NEW w \in Workers, WorkerCrash(w)
      PROVE  EarnedInv'
  BY <1>5 DEF WorkerCrash, EarnedInv, rowVars
<1>6. ASSUME NEW p \in Processes, Recovering(p)
      PROVE  EarnedInv'
  <2>1. CASE Boot(p) \/ ScanStuck(p) \/ RequeueStuck(p)
    BY <2>1, EarnedKept DEF Boot, ScanStuck, RequeueStuck, processorVars, rowVars
  <2>2. CASE ResetStuck(p)
    BY <2>2, EarnedOther DEF ResetStuck
  <2>3. QED  BY <1>6, <2>1, <2>2 DEF Recovering
<1>7. QED  BY <1>1, <1>2, <1>3, <1>4, <1>5, <1>6 DEF Handling

\* Nothing is accepted with a test case left to run or without a test case:
\* under every fault, lost locks and overlapping executions included.
THEOREM Earned == Spec => []AcceptedIsEarned
<1>1. Init => EarnedInv
  BY DEF Init, ProcessorInit, EarnedInv, Absent
<1>2. TypeOK /\ EarnedInv /\ [Next]_vars => EarnedInv'
  <2> SUFFICES ASSUME TypeOK, EarnedInv, [Next]_vars
               PROVE  EarnedInv'
    OBVIOUS
  <2>1. CASE UNCHANGED vars
    BY <2>1, EarnedKept DEF vars, processorVars, rowVars
  <2>2. CASE Next
    BY <2>1, <2>2, JudgeStepEarned, OtherStepEarned DEF Next, Rest
  <2>3. QED  BY <2>1, <2>2
<1>3. EarnedInv => AcceptedIsEarned
  BY DEF EarnedInv, AcceptedIsEarned
<1>4. QED
  BY <1>1, <1>2, <1>3, TypeCorrect, PTL DEF Spec

=============================================================================
