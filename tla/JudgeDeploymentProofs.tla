------------------------ MODULE JudgeDeploymentProofs ------------------------
(***************************************************************************)
(* Theorems about JudgePipeline when no recovery runs beside an execution: *)
(* one worker with any number of slots, as docker-compose deploys it, or   *)
(* any number of workers that do not recover at startup.  Crashes, failing *)
(* calls, retries, pruned jobs: each any number of times, apart from what  *)
(* a theorem excludes, and without that the fact it states fails.          *)
(***************************************************************************)
EXTENDS JudgePipelineProofs, FiniteSetTheorems

\* No process ever runs a recovery: it is switched off, or nothing restarts.
Recoverless ==
    \/ ~RecoveryOnStart
    \/ FaultLimit["apiCrash"] = 0 /\ FaultLimit["workerCrash"] = 0

\* docker-compose while the API stays up.
SingleWorker == (\A v, w \in Workers : v = w) /\ FaultLimit["apiCrash"] = 0

QuietRecovery == NoLockLoss /\ (Recoverless \/ SingleWorker)

Deployment == QuietRecovery /\ NoApiFailure

\* Rows, their POSTs and their jobs.
RowInv ==
    \A s \in Submissions :
        /\ api[s] = "none" <=> status[s] = Absent
        /\ status[s] = "ACCEPTED" => finished[s]
        /\ jobState[s] # "none" => status[s] # Absent
        /\ jobState[s] = "completed" => IsFinished(s)

\* An execution that has judged or skipped its row leaves it finished, also if
\* the POST handler rejects the submission meanwhile.
VerdictInv == \A e \in Executors : pc[e] \in {"credit", "returned"} => IsFinished(cur[e])

\* While a process is down or recovers nobody judges, so the jobs of the rows it
\* found stuck do not complete.
RecoveryInv ==
    \A p \in Processes :
        /\ RecoveryOnStart /\ proc[p] # "up" =>
               ~Recoverless /\ p \in Workers /\ \A e \in Executors : pc[e] = "idle"
        /\ ~RecoveryOnStart => proc[p] \in {"up", "down"}
        /\ stuck[p] # {} => proc[p] \in {"reset", "requeue"}
        /\ \A s \in stuck[p] : status[s] # Absent /\ jobState[s] # "completed"

QuietInv == TypeOK /\ LockInv /\ RowInv /\ VerdictInv /\ RecoveryInv

\* While somebody judges, no process has stuck rows in hand.
LEMMA NobodyRecovers ==
    ASSUME QuietInv, NEW e \in Executors, pc[e] # "idle"
    PROVE  /\ RecoveryOnStart => \A p \in Processes : proc[p] = "up"
           /\ \A p \in Processes : stuck[p] = {}
BY DEF QuietInv, RecoveryInv

LEMMA NothingToRecover ==
    ASSUME QuietInv, Recoverless
    PROVE  \A p \in Processes : stuck[p] = {} /\ proc[p] \in {"up", "down"}
BY DEF QuietInv, RecoveryInv, Recoverless

\* A step that writes at most the row and the job of s and leaves executors and
\* processes alone.
LEMMA SubmissionFrame ==
    ASSUME QuietInv, TypeOK', LockInv', NEW s \in Submissions,
           UNCHANGED <<pc, cur, proc, stuck>>,
           \A t \in Submissions : t # s =>
               /\ status'[t] = status[t] /\ finished'[t] = finished[t]
               /\ jobState'[t] = jobState[t] /\ api'[t] = api[t],
           api'[s] # "none", status'[s] # Absent,
           status'[s] = "ACCEPTED" => finished'[s],
           jobState'[s] = "completed" => jobState[s] = "completed",
           IsFinished(s) => IsFinished(s)'
    PROVE  QuietInv'
<1>1. RowInv'
  BY DEF QuietInv, RowInv, IsFinished
<1>2. VerdictInv'
  BY DEF QuietInv, VerdictInv, IsFinished, TypeOK, ProcessorTypeOK
<1>3. RecoveryInv'
  BY DEF QuietInv, RecoveryInv, TypeOK
<1>4. QED  BY <1>1, <1>2, <1>3 DEF QuietInv

LEMMA SubmissionStepQuiet ==
    ASSUME QuietInv, QuietRecovery, NEW s \in Submissions,
           \/ CreateSubmission(s) \/ Handling(s) \/ PromoteDelayed(s)
           \/ MoveStalledJob(s) \/ PruneJob(s)
    PROVE  QuietInv'
<1>1. TypeOK' /\ LockInv'
  BY SubmissionStepType, SubmissionStepLock DEF QuietInv, QuietRecovery
<1> USE DEF QuietInv, TypeOK, ProcessorTypeOK, QueueTypeOK
<1>2. CASE CreateSubmission(s)
  <2>1. ~IsFinished(s)
    BY <1>2 DEF CreateSubmission, RowInv, IsFinished, TERMINAL_SUBMISSION_STATUSES, Absent
  <2>2. /\ UNCHANGED <<pc, cur, proc, stuck, finished, jobState>>
        /\ status'[s] = "PENDING" /\ api'[s] = "enqueue"
        /\ \A t \in Submissions : t # s => status'[t] = status[t] /\ api'[t] = api[t]
    BY <1>2 DEF CreateSubmission, queueVars, execVars
  <2>3. status'[s] # Absent /\ status'[s] # "ACCEPTED"
    BY <2>2 DEF Absent
  <2>4. QED  BY <1>1, <2>1, <2>2, <2>3, SubmissionFrame
<1>3. ASSUME api[s] # "none", rowVars' = rowVars, UNCHANGED <<pc, cur, proc, stuck>>,
             \A t \in Submissions : t # s =>
                 jobState'[t] = jobState[t] /\ api'[t] = api[t],
             api'[s] # "none", jobState'[s] = "completed" => jobState[s] = "completed"
      PROVE  QuietInv'
  BY <1>1, <1>3, SubmissionFrame DEF RowInv, IsFinished, rowVars
<1>4. CASE Enqueue(s)
  BY <1>3, <1>4 DEF Enqueue, AddJob, queueVars, processorVars, execVars
<1>5. CASE EnqueueFails(s)
  BY <1>3, <1>5 DEF EnqueueFails, AddJob, queueVars, execVars
<1>6. CASE RecordJobId(s) \/ RecordJobIdFails(s) \/ RejectFails(s)
  BY <1>3, <1>6
     DEF RecordJobId, RecordJobIdFails, RejectFails, queueVars, processorVars, execVars
<1>7. CASE RejectSubmission(s)
  <2>1. /\ UNCHANGED <<pc, cur, proc, stuck, jobState>>
        /\ status'[s] = "RUNTIME_ERROR" /\ finished'[s] /\ api'[s] = "refused"
        /\ \A t \in Submissions : t # s =>
               /\ status'[t] = status[t] /\ finished'[t] = finished[t]
               /\ api'[t] = api[t]
    BY <1>7 DEF RejectSubmission, WriteTerminal, queueVars, execVars
  <2>2. IsFinished(s)' /\ status'[s] # Absent
    BY <2>1 DEF IsFinished, Absent, TERMINAL_SUBMISSION_STATUSES
  <2>3. QED  BY <1>1, <2>1, <2>2, SubmissionFrame
<1>8. CASE PromoteDelayed(s)
  <2>1. api[s] # "none"
    BY <1>8 DEF PromoteDelayed, PromoteJob, RowInv
  <2>2. QED
    BY <1>3, <1>8, <2>1 DEF PromoteDelayed, PromoteJob, processorVars, execVars
<1>9. CASE MoveStalledJob(s)
  <2>1. api[s] # "none"
    BY <1>9 DEF MoveStalledJob, StallJob, RowInv
  <2>2. QED
    BY <1>3, <1>9, <2>1 DEF MoveStalledJob, StallJob, execVars
<1>10. CASE PruneJob(s)
  <2>1. api[s] # "none"
    BY <1>10 DEF PruneJob, RemoveJob, RowInv
  <2>2. QED
    BY <1>3, <1>10, <2>1 DEF PruneJob, RemoveJob, execVars
<1>11. QED
  BY <1>2, <1>4, <1>5, <1>6, <1>7, <1>8, <1>9, <1>10 DEF Handling

\* A step of e may write the row e runs and nothing else.
LEMMA ExecutionFrame ==
    ASSUME QuietInv, NEW e \in Executors, Judge(e), TypeOK', LockInv',
           \A t \in Submissions : t # cur[e] =>
               status'[t] = status[t] /\ finished'[t] = finished[t],
           status'[cur[e]] # Absent,
           status'[cur[e]] = "ACCEPTED" => finished'[cur[e]],
           pc'[e] \in {"credit", "returned"} => IsFinished(cur[e])'
    PROVE  QuietInv'
<1> DEFINE s == cur[e]
<1>1. /\ UNCHANGED cur /\ pc[e] # "idle" /\ s \in Submissions
      /\ \A f \in Executors : f # e => pc'[f] = pc[f]
  BY ProcessingStays DEF Judge, QuietInv, TypeOK, ProcessorTypeOK
<1>2. jobState[s] = "active" /\ status[s] # Absent
  BY <1>1 DEF QuietInv, LockInv, RowInv
<1>3. \A f \in Executors : f # e /\ pc[f] # "idle" => cur[f] \in Submissions /\ cur[f] # s
  BY <1>1 DEF QuietInv, LockInv, TypeOK, ProcessorTypeOK
<1>4. RowInv'
  BY <1>1, <1>2 DEF Judge, QuietInv, RowInv, IsFinished, queueVars
<1>5. VerdictInv'
  <2> SUFFICES ASSUME NEW f \in Executors, pc'[f] \in {"credit", "returned"}, f # e
               PROVE  IsFinished(cur[f])'
    BY <1>1 DEF VerdictInv, IsFinished
  <2>1. pc[f] = pc'[f] /\ cur[f] \in Submissions /\ cur[f] # s
    BY <1>1, <1>3
  <2>2. IsFinished(cur[f])
    BY <2>1 DEF QuietInv, VerdictInv
  <2>3. QED  BY <1>1, <2>1, <2>2 DEF IsFinished
<1>6. RecoveryInv'
  <2>1. /\ RecoveryOnStart => \A p \in Processes : proc[p] = "up"
        /\ \A p \in Processes : stuck[p] = {}
    BY <1>1, NobodyRecovers
  <2>2. QED  BY <2>1 DEF Judge, QuietInv, RecoveryInv
<1>7. QED  BY <1>4, <1>5, <1>6 DEF QuietInv

\* Writing a terminal status with finishedAt, and going on anywhere.
LEMMA TerminalFrame ==
    ASSUME QuietInv, NEW e \in Executors, Judge(e), TypeOK', LockInv',
           NEW st \in TERMINAL_SUBMISSION_STATUSES, NEW sc, WriteTerminal(cur[e], st, sc)
    PROVE  QuietInv'
<1>1. cur[e] \in Submissions /\ UNCHANGED cur
  BY ProcessingStays DEF Judge, QuietInv, TypeOK, ProcessorTypeOK
<1>2. /\ status'[cur[e]] = st /\ finished'[cur[e]] = TRUE
      /\ \A t \in Submissions : t # cur[e] =>
             status'[t] = status[t] /\ finished'[t] = finished[t]
  BY <1>1 DEF WriteTerminal, QuietInv, TypeOK, ProcessorTypeOK
<1>3. IsFinished(cur[e])'
  BY <1>1, <1>2 DEF IsFinished
<1>4. st # Absent
  BY DEF TERMINAL_SUBMISSION_STATUSES, Absent
<1>5. QED
  BY <1>2, <1>3, <1>4, ExecutionFrame

LEMMA JudgeStepQuiet ==
    ASSUME QuietInv, NEW e \in Executors, Judge(e)
    PROVE  QuietInv'
<1>1. TypeOK' /\ LockInv'
  BY ExecutorStepType, ExecutorStepLock DEF QuietInv
<1>2. /\ pc[e] # "idle" /\ cur[e] \in Submissions /\ status[cur[e]] # Absent
      /\ UNCHANGED cur
      /\ status[cur[e]] = "ACCEPTED" => finished[cur[e]]
  BY ProcessingStays DEF Judge, QuietInv, TypeOK, ProcessorTypeOK, LockInv, RowInv
<1>3. CASE \/ SkipTerminal(e) \/ ReadOpen(e) \/ EarlyFailure(e) \/ RunCase(e)
           \/ CreditFirstAccepted(e) \/ JudgingThrows(e) \/ FailureWriteThrows(e)
  <2>1. UNCHANGED rowVars /\ (pc'[e] \in {"credit", "returned"} => IsFinished(cur[e]))
    BY <1>3
       DEF SkipTerminal, ReadOpen, EarlyFailure, RunCase, CreditFirstAccepted,
           JudgingThrows, FailureWriteThrows, Goto, QuietInv, VerdictInv, TypeOK,
           ProcessorTypeOK
  <2>2. QED
    BY <1>1, <1>2, <2>1, ExecutionFrame DEF IsFinished, rowVars
<1>4. CASE MarkRunning(e)
  BY <1>1, <1>2, <1>4, ExecutionFrame
     DEF MarkRunning, Goto, QuietInv, TypeOK, ProcessorTypeOK, Absent
<1>5. CASE NoTestCases(e)
  BY <1>1, <1>5, TerminalFrame DEF NoTestCases, TERMINAL_SUBMISSION_STATUSES
<1>6. CASE WriteVerdict(e)
  <2>1. final[e] \in TERMINAL_SUBMISSION_STATUSES
    BY DEF QuietInv, TypeOK, ProcessorTypeOK
  <2>2. QED  BY <1>1, <1>6, <2>1, TerminalFrame DEF WriteVerdict
<1>7. CASE WriteFailure(e)
  BY <1>1, <1>7, TerminalFrame DEF WriteFailure, TERMINAL_SUBMISSION_STATUSES
<1>8. QED
  BY <1>3, <1>4, <1>5, <1>6, <1>7 DEF Judge, Processing

LEMMA JobBoundariesQuiet ==
    ASSUME QuietInv, QuietRecovery, NEW e \in Executors,
           EndJob(e) \/ \E s \in Submissions : StartJob(e, s)
    PROVE  QuietInv'
<1>1. TypeOK' /\ LockInv'
  BY ExecutorStepType, ExecutorStepLock DEF QuietInv
<1>2. CASE EndJob(e)
  <2>1. /\ pc[e] # "idle" /\ cur[e] \in Submissions /\ status[cur[e]] # Absent
        /\ pc[e] = "returned" => IsFinished(cur[e])
    BY <1>2
       DEF EndJob, Ended, QuietInv, TypeOK, ProcessorTypeOK, LockInv, RowInv, VerdictInv
  <2>2. \A t \in Submissions :
          jobState'[t] = jobState[t]
            \/ (t = cur[e] /\ (jobState'[t] = "completed" => pc[e] = "returned"))
    BY <1>2, <2>1
       DEF EndJob, CompleteJob, FailAttempt, queueVars, QuietInv, TypeOK, QueueTypeOK
  <2>3. RowInv'
    BY <1>2, <2>1, <2>2 DEF EndJob, Release, rowVars, QuietInv, RowInv, IsFinished
  <2>4. \A f \in Executors : pc'[f] # "idle" => pc'[f] = pc[f] /\ cur'[f] = cur[f]
    BY <1>2 DEF EndJob, Release, QuietInv, TypeOK, ProcessorTypeOK
  <2>5. VerdictInv'
    BY <1>2, <2>4 DEF EndJob, Release, rowVars, QuietInv, VerdictInv, IsFinished
  <2>6. /\ RecoveryOnStart => \A p \in Processes : proc[p] = "up"
        /\ \A p \in Processes : stuck[p] = {}
    BY <2>1, NobodyRecovers
  <2>7. RecoveryInv'
    BY <1>2, <2>6 DEF EndJob, QuietInv, RecoveryInv
  <2>8. QED  BY <1>1, <2>3, <2>5, <2>7 DEF QuietInv
<1>3. ASSUME NEW s \in Submissions, StartJob(e, s)
      PROVE  QuietInv'
  <2>1. RowInv'
    BY <1>3
       DEF StartJob, Start, TakeJob, rowVars, QuietInv, RowInv, IsFinished, TypeOK,
           QueueTypeOK
  <2>2. \A f \in Executors : pc'[f] # "read" => pc'[f] = pc[f] /\ cur'[f] = cur[f]
    BY <1>3 DEF StartJob, Start, Goto, QuietInv, TypeOK, ProcessorTypeOK
  <2>3. VerdictInv'
    BY <1>3, <2>2 DEF StartJob, Start, rowVars, QuietInv, VerdictInv, IsFinished
  <2>4. ASSUME NEW p \in Processes, RecoveryOnStart, proc[p] # "up"
        PROVE  FALSE
    <3>1. ~Recoverless /\ p \in Workers
      BY <2>4 DEF QuietInv, RecoveryInv
    <3>2. p = WorkerOf[e]
      BY <3>1, ProcessAssumption DEF QuietRecovery, SingleWorker
    <3>3. QED  BY <1>3, <2>4, <3>2 DEF StartJob
  <2>5. \A p \in Processes : stuck[p] = {}
    BY <2>4 DEF QuietInv, RecoveryInv
  <2>6. RecoveryInv'
    BY <1>3, <2>4, <2>5 DEF StartJob, QuietInv, RecoveryInv
  <2>7. QED  BY <1>1, <2>1, <2>3, <2>6 DEF QuietInv
<1>4. QED  BY <1>2, <1>3

LEMMA CrashQuiet ==
    ASSUME QuietInv, QuietRecovery, ApiCrash \/ \E w \in Workers : WorkerCrash(w)
    PROVE  QuietInv'
<1>1. TypeOK' /\ LockInv'
  BY ProcessStepType, ProcessStepLock DEF QuietInv
<1>2. CASE ApiCrash
  <2>1. FaultLimit["apiCrash"] # 0
    BY <1>2 DEF ApiCrash, Suffer, QuietInv, TypeOK, ProcessorTypeOK, FaultKinds
  <2>2. ~RecoveryOnStart
    BY <2>1 DEF QuietRecovery, Recoverless, SingleWorker
  <2>3. \A p \in Processes : stuck[p] = {} /\ proc[p] \in {"up", "down"}
    BY <2>2, NothingToRecover DEF Recoverless
  <2>4. RowInv'
    BY <1>2 DEF ApiCrash, InHandler, rowVars, queueVars, QuietInv, RowInv, IsFinished
  <2>5. VerdictInv'
    BY <1>2 DEF ApiCrash, rowVars, execVars, QuietInv, VerdictInv, IsFinished
  <2>6. \A p \in Processes : stuck'[p] = {} /\ proc'[p] \in {"up", "down"}
    BY <1>2, <2>3 DEF ApiCrash, QuietInv, TypeOK
  <2>7. RecoveryInv'
    BY <2>2, <2>6 DEF RecoveryInv
  <2>8. QED  BY <1>1, <2>4, <2>5, <2>7 DEF QuietInv
<1>3. ASSUME NEW w \in Workers, WorkerCrash(w)
      PROVE  QuietInv'
  <2>1. FaultLimit["workerCrash"] # 0
    BY <1>3 DEF WorkerCrash, Suffer, QuietInv, TypeOK, ProcessorTypeOK, FaultKinds
  <2>2. RowInv'
    BY <1>3 DEF WorkerCrash, rowVars, queueVars, QuietInv, RowInv, IsFinished
  <2>3. \A e \in Executors : pc'[e] # "idle" => pc'[e] = pc[e] /\ cur'[e] = cur[e]
    BY <1>3 DEF WorkerCrash
  <2>4. VerdictInv'
    BY <1>3, <2>3 DEF WorkerCrash, rowVars, QuietInv, VerdictInv, IsFinished
  <2>5. /\ proc'[w] = "down" /\ stuck'[w] = {}
        /\ \A p \in Processes : p # w => proc'[p] = proc[p] /\ stuck'[p] = stuck[p]
        /\ UNCHANGED <<status, jobState>>
    BY <1>3 DEF WorkerCrash, QuietInv, TypeOK, Processes, rowVars, queueVars
  <2>6. RecoveryOnStart => ~Recoverless /\ \A e \in Executors : pc'[e] = "idle"
    BY <1>3, <2>1, ProcessAssumption
       DEF WorkerCrash, QuietRecovery, Recoverless, SingleWorker
  <2>7. RecoveryInv'
    BY <2>5, <2>6 DEF QuietInv, RecoveryInv
  <2>8. QED  BY <1>1, <2>2, <2>4, <2>7 DEF QuietInv
<1>4. QED  BY <1>2, <1>3

\* A process that does more than boot recovers, and nobody judges meanwhile.
LEMMA RecoversAlone ==
    ASSUME QuietInv, NEW p \in Processes, ScanStuck(p) \/ ResetStuck(p) \/ RequeueStuck(p)
    PROVE  RecoveryOnStart /\ ~Recoverless /\ \A e \in Executors : pc[e] = "idle"
BY DEF ScanStuck, ResetStuck, RequeueStuck, QuietInv, RecoveryInv

LEMMA RecoveryQuiet ==
    ASSUME QuietInv, NEW p \in Processes, Recovering(p)
    PROVE  QuietInv'
<1>1. TypeOK' /\ LockInv'
  BY ProcessStepType, ProcessStepLock DEF QuietInv
<1>2. UNCHANGED <<pc, cur, api, finished>>
  BY DEF Recovering, Boot, ScanStuck, ResetStuck, RequeueStuck, processorVars, rowVars,
         execVars
<1>3. CASE Boot(p)
  <2>1. /\ UNCHANGED <<status, jobState, stuck>>
        /\ proc[p] = "down" /\ proc'[p] = IF RecoveryOnStart THEN "scan" ELSE "up"
        /\ \A q \in Processes : q # p => proc'[q] = proc[q]
    BY <1>3 DEF Boot, processorVars, rowVars, queueVars, QuietInv, TypeOK
  <2>2. RowInv' /\ VerdictInv'
    BY <1>2, <2>1 DEF QuietInv, RowInv, VerdictInv, IsFinished
  <2>3. RecoveryInv'
    BY <1>2, <2>1 DEF QuietInv, RecoveryInv
  <2>4. QED  BY <1>1, <2>2, <2>3 DEF QuietInv
<1>4. CASE ScanStuck(p) \/ ResetStuck(p) \/ RequeueStuck(p)
  <2>1. RecoveryOnStart /\ ~Recoverless /\ \A e \in Executors : pc[e] = "idle"
    BY <1>4, RecoversAlone
  <2>2. VerdictInv'
    BY <1>2, <2>1 DEF VerdictInv
  <2>3. p \in Workers
    BY <1>4, <2>1 DEF ScanStuck, ResetStuck, RequeueStuck, QuietInv, RecoveryInv
  <2>4. CASE ScanStuck(p)
    <3>1. PICK S \in SUBSET Submissions :
             /\ \A s \in S : status[s] \in {"PENDING", "RUNNING"}
             /\ stuck' = [stuck EXCEPT ![p] = S]
             /\ proc' = [proc EXCEPT ![p] = IF S = {} THEN "up" ELSE "reset"]
      BY <2>4 DEF ScanStuck, Oldest, StuckRows
    <3>2. /\ stuck'[p] = S /\ proc'[p] = IF S = {} THEN "up" ELSE "reset"
          /\ \A q \in Processes : q # p => proc'[q] = proc[q] /\ stuck'[q] = stuck[q]
          /\ UNCHANGED <<status, jobState>>
      BY <2>4, <3>1 DEF ScanStuck, QuietInv, TypeOK, processorVars, rowVars, queueVars
    <3>3. RowInv'
      BY <1>2, <3>2 DEF QuietInv, RowInv, IsFinished
    <3>4. \A s \in S : status[s] # Absent /\ jobState[s] # "completed"
      BY <3>1 DEF QuietInv, RowInv, IsFinished, TERMINAL_SUBMISSION_STATUSES, Absent
    <3>5. RecoveryInv'
      BY <1>2, <2>1, <2>3, <3>2, <3>4 DEF QuietInv, RecoveryInv
    <3>6. QED  BY <1>1, <2>2, <3>3, <3>5 DEF QuietInv
  <2>5. CASE ResetStuck(p)
    <3>1. PICK s \in stuck[p] : s \in Submissions /\ status' = [status EXCEPT ![s] = "PENDING"]
      BY <2>5 DEF ResetStuck, NextStuck
    <3>2. status[s] # Absent /\ jobState[s] # "completed"
      BY <3>1 DEF QuietInv, RecoveryInv
    <3>3. \A t \in Submissions : status'[t] = IF t = s THEN "PENDING" ELSE status[t]
      BY <3>1 DEF QuietInv, TypeOK, ProcessorTypeOK
    <3>4. /\ UNCHANGED <<jobState, stuck>> /\ proc[p] = "reset" /\ proc'[p] = "requeue"
          /\ \A q \in Processes : q # p => proc'[q] = proc[q]
      BY <2>5 DEF ResetStuck, QuietInv, TypeOK, queueVars
    <3>5. RowInv'
      BY <1>2, <3>2, <3>3, <3>4 DEF QuietInv, RowInv, IsFinished, Absent
    <3>6. \A q \in Processes : stuck[q] \subseteq Submissions
      BY DEF QuietInv, TypeOK
    <3>7. RecoveryInv'
      BY <1>2, <2>1, <2>3, <3>3, <3>4, <3>6 DEF QuietInv, RecoveryInv, Absent
    <3>8. QED  BY <1>1, <2>2, <3>5, <3>7 DEF QuietInv
  <2>6. CASE RequeueStuck(p)
    <3>1. PICK s \in Submissions :
             /\ NextStuck(p, s)
             /\ AddJob(s)
             /\ stuck' = [stuck EXCEPT ![p] = @ \ {s}]
             /\ proc' = [proc EXCEPT ![p] = IF stuck[p] = {s} THEN "up" ELSE "reset"]
      BY <2>6 DEF RequeueStuck
    <3>2. s \in stuck[p] /\ status[s] # Absent
      BY <3>1 DEF NextStuck, QuietInv, RecoveryInv
    <3>3. \A t \in Submissions :
             jobState'[t] = jobState[t] \/ (t = s /\ jobState'[t] = "waiting")
      BY <3>1 DEF AddJob, queueVars, QuietInv, TypeOK, QueueTypeOK
    <3>4. /\ stuck'[p] = stuck[p] \ {s}
          /\ proc'[p] = IF stuck[p] = {s} THEN "up" ELSE "reset"
          /\ \A q \in Processes : q # p => proc'[q] = proc[q] /\ stuck'[q] = stuck[q]
          /\ UNCHANGED status
      BY <2>6, <3>1 DEF RequeueStuck, QuietInv, TypeOK, processorVars, rowVars
    <3>5. RowInv'
      BY <1>2, <3>2, <3>3, <3>4 DEF QuietInv, RowInv, IsFinished
    <3>6. \A q \in Processes : stuck[q] \subseteq Submissions
      BY DEF QuietInv, TypeOK
    <3>7. RecoveryInv'
      BY <1>2, <2>1, <2>3, <3>2, <3>3, <3>4, <3>6 DEF QuietInv, RecoveryInv
    <3>8. QED  BY <1>1, <2>2, <3>5, <3>7 DEF QuietInv
  <2>7. QED  BY <1>4, <2>4, <2>5, <2>6
<1>5. QED  BY <1>3, <1>4 DEF Recovering

LEMMA StepQuiet ==
    ASSUME QuietRecovery
    PROVE  QuietInv /\ [Next]_vars => QuietInv'
<1> SUFFICES ASSUME QuietInv, [Next]_vars
             PROVE  QuietInv'
  OBVIOUS
<1>1. CASE UNCHANGED vars
  <2>1. TypeOK' /\ LockInv'
    BY <1>1, StepType, StepLock DEF QuietInv, QuietRecovery
  <2>2. QED
    BY <1>1, <2>1
       DEF vars, processorVars, rowVars, execVars, queueVars, QuietInv, RowInv,
           VerdictInv, RecoveryInv, IsFinished
<1>2. CASE Next
  BY <1>1, <1>2, SubmissionStepQuiet, JudgeStepQuiet, JobBoundariesQuiet, CrashQuiet,
     RecoveryQuiet
     DEF Next, Rest
<1>3. QED  BY <1>1, <1>2

LEMMA InitQuiet == Init => QuietInv
<1> SUFFICES ASSUME Init
             PROVE  QuietInv
  OBVIOUS
<1>1. TypeOK  BY InitType
<1>2. LockInv /\ VerdictInv
  BY DEF Init, ProcessorInit, LockInv, VerdictInv
<1>3. RowInv
  BY DEF Init, ProcessorInit, QueueInit, RowInv, Absent
<1>4. RecoveryInv
  BY DEF Init, RecoveryInv
<1>5. QED  BY <1>1, <1>2, <1>3, <1>4 DEF QuietInv

LEMMA QuietSafe ==
    ASSUME QuietRecovery
    PROVE  Spec => []QuietInv
BY InitQuiet, StepQuiet, PTL DEF Spec

\* A completed job leaves a judged row behind: through worker crashes, retries
\* and recoveries, and while POST handlers fail and reject what is being judged.
THEOREM CompletedIsJudged ==
    ASSUME QuietRecovery
    PROVE  Spec => []CompletedJobIsJudged
<1>1. QuietInv => CompletedJobIsJudged
  BY DEF QuietInv, RowInv, CompletedJobIsJudged
<1>2. QED  BY <1>1, QuietSafe, PTL

-----------------------------------------------------------------------------
(* While the API's calls succeed nobody but the execution that holds the   *)
(* job's lock writes a verdict, and an execution can rely on its row.      *)

ApiInv ==
    \A s \in Submissions :
        api[s] \in {"none", "enqueue", "record", "answered", "dropped"}

\* What an execution knows of its row.
ExecInv ==
    \A e \in Executors :
        /\ pc[e] = "mark" => ~IsFinished(cur[e])
        /\ pc[e] \in {"run", "write"} => status[cur[e]] = "RUNNING"
        /\ pc[e] = "credit" => status[cur[e]] = "ACCEPTED"
        /\ pc[e] = "catch" => status[cur[e]] \in {"RUNNING", "ACCEPTED"}

\* What a recovery found stuck stays open until it has dealt with it.
StuckOpen == \A p \in Processes : \A s \in stuck[p] : Open(s)

DeploymentInv == QuietInv /\ ApiInv /\ ExecInv /\ StuckOpen

LEMMA NoApiFault ==
    ASSUME TypeOK, Deployment
    PROVE  ~Suffer("queue") /\ ~Suffer("apiDb")
BY ApiCallsSucceed DEF Deployment

LEMMA RowsAndExecutionsKept ==
    ASSUME DeploymentInv, UNCHANGED <<rowVars, stuck>>,
           \A e \in Executors :
               pc'[e] \in {"mark", "run", "write", "credit", "catch"} =>
                   pc'[e] = pc[e] /\ cur'[e] = cur[e]
    PROVE  ExecInv' /\ StuckOpen'
BY DEF DeploymentInv, ExecInv, StuckOpen, Open, IsFinished, rowVars

LEMMA SubmissionStepSafe ==
    ASSUME DeploymentInv, Deployment, NEW s \in Submissions,
           \/ CreateSubmission(s) \/ Handling(s) \/ PromoteDelayed(s)
           \/ MoveStalledJob(s) \/ PruneJob(s)
    PROVE  DeploymentInv'
<1>1. QuietInv'
  BY SubmissionStepQuiet DEF DeploymentInv, Deployment
<1>2. TypeOK /\ ApiInv
  BY DEF DeploymentInv, QuietInv
<1>3. CASE CreateSubmission(s)
  <2>1. status[s] = Absent /\ jobState[s] = "none" /\ s \in Submissions
    BY <1>3 DEF CreateSubmission, DeploymentInv, QuietInv, RowInv
  <2>2. \A e \in Executors : pc[e] # "idle" => cur[e] \in Submissions /\ cur[e] # s
    BY <2>1 DEF DeploymentInv, QuietInv, LockInv, TypeOK, ProcessorTypeOK
  <2>3. \A p \in Processes : s \notin stuck[p] /\ stuck[p] \subseteq Submissions
    BY <2>1 DEF DeploymentInv, QuietInv, RecoveryInv, TypeOK
  <2>4. /\ UNCHANGED <<pc, cur, stuck, finished>>
        /\ \A t \in Submissions : t # s => status'[t] = status[t]
    BY <1>2, <1>3 DEF CreateSubmission, execVars, TypeOK, ProcessorTypeOK
  <2>5. ApiInv'
    BY <1>2, <1>3 DEF CreateSubmission, ApiInv, TypeOK
  <2>6. ExecInv'
    BY <2>2, <2>4 DEF DeploymentInv, ExecInv, IsFinished
  <2>7. StuckOpen'
    BY <2>3, <2>4 DEF DeploymentInv, StuckOpen, Open, IsFinished
  <2>8. QED  BY <1>1, <2>5, <2>6, <2>7 DEF DeploymentInv
<1>4. CASE Enqueue(s) \/ RecordJobId(s)
  <2>1. UNCHANGED <<rowVars, pc, cur, stuck>> /\ ApiInv'
    BY <1>2, <1>4 DEF Enqueue, RecordJobId, processorVars, execVars, ApiInv, TypeOK
  <2>2. QED  BY <1>1, <2>1, RowsAndExecutionsKept DEF DeploymentInv
<1>5. CASE EnqueueFails(s) \/ RecordJobIdFails(s) \/ RejectSubmission(s) \/ RejectFails(s)
  BY <1>2, <1>5, NoApiFault
     DEF EnqueueFails, RecordJobIdFails, RejectSubmission, RejectFails, ApiInv
<1>6. CASE PromoteDelayed(s) \/ MoveStalledJob(s) \/ PruneJob(s)
  <2>1. UNCHANGED <<rowVars, pc, cur, stuck, api>>
    BY <1>6 DEF PromoteDelayed, MoveStalledJob, PruneJob, processorVars, execVars
  <2>2. ApiInv'  BY <1>2, <2>1 DEF ApiInv
  <2>3. QED  BY <1>1, <2>1, <2>2, RowsAndExecutionsKept DEF DeploymentInv
<1>7. QED  BY <1>3, <1>4, <1>5, <1>6 DEF Handling

\* A step of e may write the row e runs; what e knows of that row then is left
\* to show.
LEMMA KnowledgeFrame ==
    ASSUME DeploymentInv, NEW e \in Executors, Judge(e),
           \A t \in Submissions : t # cur[e] =>
               status'[t] = status[t] /\ finished'[t] = finished[t],
           /\ pc'[e] = "mark" => ~IsFinished(cur[e])'
           /\ pc'[e] \in {"run", "write"} => status'[cur[e]] = "RUNNING"
           /\ pc'[e] = "credit" => status'[cur[e]] = "ACCEPTED"
           /\ pc'[e] = "catch" => status'[cur[e]] \in {"RUNNING", "ACCEPTED"}
    PROVE  DeploymentInv'
<1>1. /\ UNCHANGED cur /\ pc[e] # "idle" /\ cur[e] \in Submissions
      /\ \A f \in Executors : f # e => pc'[f] = pc[f]
  BY ProcessingStays DEF Judge, DeploymentInv, QuietInv, TypeOK, ProcessorTypeOK
<1>2. \A f \in Executors :
          f # e /\ pc[f] # "idle" => cur[f] \in Submissions /\ cur[f] # cur[e]
  BY <1>1 DEF DeploymentInv, QuietInv, LockInv, TypeOK, ProcessorTypeOK
<1>3. QuietInv'
  BY JudgeStepQuiet DEF DeploymentInv
<1>4. ApiInv'
  BY DEF Judge, DeploymentInv, ApiInv
<1>5. ExecInv'
  <2> SUFFICES ASSUME NEW f \in Executors, f # e, pc[f] # "idle"
               PROVE  /\ pc[f] = "mark" => ~IsFinished(cur[f])'
                      /\ pc[f] \in {"run", "write"} => status'[cur[f]] = "RUNNING"
                      /\ pc[f] = "credit" => status'[cur[f]] = "ACCEPTED"
                      /\ pc[f] = "catch" => status'[cur[f]] \in {"RUNNING", "ACCEPTED"}
    BY <1>1 DEF ExecInv, IsFinished
  <2>1. cur[f] \in Submissions /\ cur[f] # cur[e]
    BY <1>2
  <2>2. QED
    BY <1>1, <2>1 DEF DeploymentInv, ExecInv, IsFinished
<1>6. StuckOpen'
  <2>1. \A p \in Processes : stuck[p] = {}
    BY <1>1, NobodyRecovers DEF DeploymentInv
  <2>2. QED  BY <2>1 DEF Judge, StuckOpen
<1>7. QED  BY <1>3, <1>4, <1>5, <1>6 DEF DeploymentInv

LEMMA JudgeStepSafe ==
    ASSUME DeploymentInv, NEW e \in Executors, Judge(e)
    PROVE  DeploymentInv'
<1>1. /\ pc \in [Executors -> ExecPc] /\ UNCHANGED cur /\ cur[e] \in Submissions
      /\ status \in [Submissions -> SubmissionStatus \union {Absent}]
  BY ProcessingStays DEF Judge, DeploymentInv, QuietInv, TypeOK, ProcessorTypeOK
<1>2. CASE \/ SkipTerminal(e) \/ ReadOpen(e) \/ EarlyFailure(e) \/ RunCase(e)
           \/ CreditFirstAccepted(e) \/ JudgingThrows(e) \/ FailureWriteThrows(e)
  <2>1. /\ UNCHANGED rowVars
        /\ pc'[e] = "mark" => ~IsFinished(cur[e])
        /\ pc'[e] \in {"run", "write"} => pc[e] = "run"
        /\ pc'[e] # "credit"
        /\ pc'[e] = "catch" => pc[e] \in {"run", "write", "credit"}
    BY <1>1, <1>2
       DEF SkipTerminal, ReadOpen, EarlyFailure, RunCase, CreditFirstAccepted,
           JudgingThrows, FailureWriteThrows, Goto
  <2>2. QED
    BY <1>1, <2>1, KnowledgeFrame DEF DeploymentInv, ExecInv, IsFinished, rowVars
<1>3. CASE MarkRunning(e)
  BY <1>1, <1>3, KnowledgeFrame DEF MarkRunning, Goto
<1>4. CASE NoTestCases(e) \/ WriteFailure(e)
  <2>1. /\ \A t \in Submissions : t # cur[e] =>
               status'[t] = status[t] /\ finished'[t] = finished[t]
        /\ pc'[e] \in {"returned", "threw"}
    BY <1>1, <1>4
       DEF NoTestCases, WriteFailure, WriteTerminal, Goto, DeploymentInv, QuietInv, TypeOK,
           ProcessorTypeOK
  <2>2. QED  BY <2>1, KnowledgeFrame
<1>5. CASE WriteVerdict(e)
  <2>1. /\ \A t \in Submissions : t # cur[e] =>
               status'[t] = status[t] /\ finished'[t] = finished[t]
        /\ status'[cur[e]] = final[e]
        /\ pc'[e] = IF final[e] = "ACCEPTED" THEN "credit" ELSE "returned"
    BY <1>1, <1>5
       DEF WriteVerdict, WriteTerminal, Goto, DeploymentInv, QuietInv, TypeOK,
           ProcessorTypeOK
  <2>2. QED  BY <1>1, <2>1, KnowledgeFrame
<1>6. QED
  BY <1>2, <1>3, <1>4, <1>5 DEF Judge, Processing

LEMMA JobBoundariesSafe ==
    ASSUME DeploymentInv, Deployment, NEW e \in Executors,
           EndJob(e) \/ \E s \in Submissions : StartJob(e, s)
    PROVE  DeploymentInv'
<1>1. QuietInv'
  BY JobBoundariesQuiet DEF DeploymentInv, Deployment
<1>2. UNCHANGED <<rowVars, stuck, api>>
  BY DEF EndJob, Release, StartJob, Start
<1>3. \A f \in Executors :
          pc'[f] \in {"mark", "run", "write", "credit", "catch"} =>
              pc'[f] = pc[f] /\ cur'[f] = cur[f]
  BY DEF EndJob, Release, StartJob, Start, Goto, DeploymentInv, QuietInv, TypeOK,
         ProcessorTypeOK
<1>4. ApiInv'
  BY <1>2 DEF DeploymentInv, ApiInv
<1>5. QED  BY <1>1, <1>2, <1>3, <1>4, RowsAndExecutionsKept DEF DeploymentInv

LEMMA CrashSafe ==
    ASSUME DeploymentInv, Deployment, ApiCrash \/ \E w \in Workers : WorkerCrash(w)
    PROVE  DeploymentInv'
<1>1. QuietInv'
  BY CrashQuiet DEF DeploymentInv, Deployment
<1>2. /\ UNCHANGED rowVars
      /\ \A p \in Processes : stuck'[p] \subseteq stuck[p]
  BY DEF ApiCrash, WorkerCrash, DeploymentInv, QuietInv, TypeOK
<1>3. \A f \in Executors : pc'[f] # "idle" => pc'[f] = pc[f] /\ cur'[f] = cur[f]
  BY DEF ApiCrash, WorkerCrash, execVars
<1>4. ApiInv'
  BY DEF ApiCrash, WorkerCrash, InHandler, DeploymentInv, ApiInv
<1>5. ExecInv'
  BY <1>2, <1>3 DEF DeploymentInv, ExecInv, IsFinished, rowVars
<1>6. StuckOpen'
  BY <1>2 DEF DeploymentInv, StuckOpen, Open, IsFinished, rowVars
<1>7. QED  BY <1>1, <1>4, <1>5, <1>6 DEF DeploymentInv

LEMMA RecoverySafe ==
    ASSUME DeploymentInv, NEW p \in Processes, Recovering(p)
    PROVE  DeploymentInv'
<1>1. QuietInv'
  BY RecoveryQuiet DEF DeploymentInv
<1>2. UNCHANGED <<pc, cur, api, finished>>
  BY DEF Recovering, Boot, ScanStuck, ResetStuck, RequeueStuck, processorVars, rowVars,
         execVars
<1>3. ApiInv'
  BY <1>2 DEF DeploymentInv, ApiInv
<1>4. CASE Boot(p)
  <2>1. UNCHANGED <<rowVars, stuck>>
    BY <1>4 DEF Boot, processorVars
  <2>2. QED  BY <1>1, <1>2, <1>3, <2>1, RowsAndExecutionsKept DEF DeploymentInv
<1>5. CASE ScanStuck(p) \/ ResetStuck(p) \/ RequeueStuck(p)
  <2>1. \A e \in Executors : pc[e] = "idle"
    BY <1>5, RecoversAlone DEF DeploymentInv
  <2>2. ExecInv'
    BY <1>2, <2>1 DEF ExecInv
  <2>3. CASE ScanStuck(p)
    <3>1. PICK S \in SUBSET Submissions :
             /\ \A s \in S : status[s] \in {"PENDING", "RUNNING"}
             /\ stuck' = [stuck EXCEPT ![p] = S]
      BY <2>3 DEF ScanStuck, Oldest, StuckRows
    <3>2. \A s \in S : Open(s)'
      BY <2>3, <3>1
         DEF ScanStuck, Open, IsFinished, TERMINAL_SUBMISSION_STATUSES, Absent,
             processorVars, rowVars
    <3>3. StuckOpen'
      BY <2>3, <3>1, <3>2
         DEF ScanStuck, DeploymentInv, QuietInv, TypeOK, StuckOpen, Open, IsFinished,
             processorVars, rowVars
    <3>4. QED  BY <1>1, <1>3, <2>2, <3>3 DEF DeploymentInv
  <2>4. CASE ResetStuck(p)
    <3>1. PICK s \in Submissions : status' = [status EXCEPT ![s] = "PENDING"]
      BY <2>4 DEF ResetStuck
    <3>2. StuckOpen'
      BY <1>2, <2>4, <3>1
         DEF ResetStuck, DeploymentInv, QuietInv, TypeOK, ProcessorTypeOK, StuckOpen, Open,
             IsFinished, TERMINAL_SUBMISSION_STATUSES, Absent
    <3>3. QED  BY <1>1, <1>3, <2>2, <3>2 DEF DeploymentInv
  <2>5. CASE RequeueStuck(p)
    <3>1. UNCHANGED rowVars /\ \A q \in Processes : stuck'[q] \subseteq stuck[q]
      BY <2>5 DEF RequeueStuck, DeploymentInv, QuietInv, TypeOK, processorVars
    <3>2. StuckOpen'
      BY <3>1 DEF DeploymentInv, StuckOpen, Open, IsFinished, rowVars
    <3>3. QED  BY <1>1, <1>3, <2>2, <3>2 DEF DeploymentInv
  <2>6. QED  BY <1>5, <2>3, <2>4, <2>5
<1>6. QED  BY <1>4, <1>5 DEF Recovering

LEMMA StepSafe ==
    ASSUME Deployment
    PROVE  DeploymentInv /\ [Next]_vars => DeploymentInv'
<1> SUFFICES ASSUME DeploymentInv, [Next]_vars
             PROVE  DeploymentInv'
  OBVIOUS
<1>1. CASE UNCHANGED vars
  <2>1. QuietInv'
    BY <1>1, StepQuiet DEF DeploymentInv, Deployment
  <2>2. UNCHANGED <<rowVars, pc, cur, stuck, api>>
    BY <1>1 DEF vars, processorVars, execVars
  <2>3. ApiInv'  BY <2>2 DEF DeploymentInv, ApiInv
  <2>4. QED  BY <2>1, <2>2, <2>3, RowsAndExecutionsKept DEF DeploymentInv
<1>2. CASE Next
  BY <1>1, <1>2, SubmissionStepSafe, JudgeStepSafe, JobBoundariesSafe, CrashSafe,
     RecoverySafe
     DEF Next, Rest
<1>3. QED  BY <1>1, <1>2

LEMMA DeploymentSafe ==
    ASSUME Deployment
    PROVE  Spec => []DeploymentInv
<1>1. Init => DeploymentInv
  BY InitQuiet
     DEF Init, ProcessorInit, ApiInv, ExecInv, StuckOpen, DeploymentInv
<1>2. QED  BY <1>1, StepSafe, PTL DEF Spec

-----------------------------------------------------------------------------
(* No open row without a way on.  A job that is gone has completed, and    *)
(* its row is finished, or it has failed for good.  A recovery must not    *)
(* reopen a row that was finished meanwhile, as a failing POST does.       *)

QueuedInv ==
    \A s \in Submissions :
        /\ jobState[s] = "failed" => GaveUp(s)
        /\ api[s] \in {"record", "answered", "refused"} /\ jobState[s] = "none" =>
               IsFinished(s) \/ GaveUp(s)

LEMMA QueuedUnchanged ==
    ASSUME QueuedInv, UNCHANGED <<rowVars, queueVars, api>>
    PROVE  QueuedInv'
BY DEF QueuedInv, rowVars, queueVars, GaveUp, IsFinished

LEMMA SubmissionStepQueued ==
    ASSUME QuietInv, QueuedInv, NEW s \in Submissions,
           \/ CreateSubmission(s) \/ Handling(s) \/ PromoteDelayed(s)
           \/ MoveStalledJob(s) \/ PruneJob(s)
    PROVE  QueuedInv'
<1> USE DEF QueuedInv, GaveUp, IsFinished, QuietInv, TypeOK, QueueTypeOK,
            ProcessorTypeOK, queueVars, rowVars, processorVars
<1>1. CASE CreateSubmission(s)
  BY <1>1, QueueAssumption DEF CreateSubmission, RowInv
<1>2. CASE Enqueue(s)  BY <1>2, QueueAssumption DEF Enqueue, AddJob
<1>3. CASE EnqueueFails(s)  BY <1>3, QueueAssumption DEF EnqueueFails, AddJob
<1>4. CASE RecordJobId(s)  BY <1>4 DEF RecordJobId
<1>5. CASE RecordJobIdFails(s)  BY <1>5 DEF RecordJobIdFails
<1>6. CASE RejectSubmission(s)
  BY <1>6 DEF RejectSubmission, WriteTerminal, TERMINAL_SUBMISSION_STATUSES
<1>7. CASE RejectFails(s)  BY <1>7 DEF RejectFails
<1>8. CASE PromoteDelayed(s)  BY <1>8 DEF PromoteDelayed, PromoteJob
<1>9. CASE MoveStalledJob(s)  BY <1>9 DEF MoveStalledJob, StallJob
<1>10. CASE PruneJob(s)  BY <1>10 DEF PruneJob, RemoveJob, RowInv
<1>11. QED
  BY <1>1, <1>2, <1>3, <1>4, <1>5, <1>6, <1>7, <1>8, <1>9, <1>10 DEF Handling

LEMMA ExecutorStepQueued ==
    ASSUME QuietInv, QueuedInv, NEW e \in Executors,
           \/ Judge(e) \/ EndJob(e) \/ \E s \in Submissions : StartJob(e, s)
    PROVE  QueuedInv'
<1> USE DEF QueuedInv, GaveUp, IsFinished, QuietInv, TypeOK, QueueTypeOK,
            ProcessorTypeOK, queueVars, rowVars
<1>1. CASE Judge(e)
  <2>1. pc[e] # "idle" /\ jobState[cur[e]] = "active"
    BY <1>1, ProcessingStays DEF Judge, LockInv
  <2>2. \A t \in Submissions :
            t # cur[e] => status'[t] = status[t] /\ finished'[t] = finished[t]
    BY <1>1 DEF Judge, Processing, SkipTerminal, ReadOpen, MarkRunning, EarlyFailure,
                NoTestCases, RunCase, WriteVerdict, CreditFirstAccepted, JudgingThrows,
                WriteFailure, FailureWriteThrows, WriteTerminal
  <2>3. QED  BY <1>1, <2>1, <2>2 DEF Judge
<1>2. CASE EndJob(e)
  <2>1. cur[e] \in Submissions  BY <1>2 DEF EndJob, Ended
  <2>2. CASE pc[e] = "returned"
    BY <1>2, <2>1, <2>2 DEF EndJob, Ended, Release, CompleteJob
  <2>3. CASE pc[e] = "threw"
    BY <1>2, <2>1, <2>3, QueueAssumption DEF EndJob, Ended, Release, FailAttempt, Owns
  <2>4. QED  BY <1>2, <2>2, <2>3 DEF EndJob, Ended
<1>3. ASSUME NEW s \in Submissions, StartJob(e, s)
      PROVE  QueuedInv'
  BY <1>3 DEF StartJob, TakeJob, Start
<1>4. QED  BY <1>1, <1>2, <1>3

LEMMA ProcessStepQueued ==
    ASSUME QuietInv, StuckOpen, QueuedInv,
           \/ ApiCrash \/ \E w \in Workers : WorkerCrash(w)
           \/ \E p \in Processes : Recovering(p)
    PROVE  QueuedInv'
<1>1. CASE ApiCrash
  BY <1>1 DEF ApiCrash, InHandler, QueuedInv, rowVars, queueVars, GaveUp, IsFinished
<1>2. CASE \E w \in Workers : WorkerCrash(w)
  BY <1>2, QueuedUnchanged DEF WorkerCrash
<1>3. ASSUME NEW p \in Processes, Recovering(p)
      PROVE  QueuedInv'
  <2>1. CASE Boot(p) \/ ScanStuck(p)
    BY <2>1, QueuedUnchanged DEF Boot, ScanStuck, processorVars
  <2>2. CASE ResetStuck(p)
    <3>1. PICK s \in stuck[p] : status' = [status EXCEPT ![s] = "PENDING"]
      BY <2>2 DEF ResetStuck, NextStuck
    <3>2. ~IsFinished(s)
      BY <1>3, <3>1 DEF StuckOpen, Open
    <3>3. QED
      BY <2>2, <3>1, <3>2
         DEF ResetStuck, QueuedInv, GaveUp, IsFinished, queueVars, QuietInv, TypeOK,
             ProcessorTypeOK
  <2>3. CASE RequeueStuck(p)
    BY <2>3, QueueAssumption
       DEF RequeueStuck, AddJob, QueuedInv, GaveUp, IsFinished, queueVars,
           processorVars, rowVars, QuietInv, TypeOK, QueueTypeOK
  <2>4. QED  BY <1>3, <2>1, <2>2, <2>3 DEF Recovering
<1>4. QED  BY <1>1, <1>2, <1>3

LEMMA StepQueued == QuietInv /\ StuckOpen /\ QueuedInv /\ [Next]_vars => QueuedInv'
<1> SUFFICES ASSUME QuietInv, StuckOpen, QueuedInv, [Next]_vars
             PROVE  QueuedInv'
  OBVIOUS
<1>1. CASE UNCHANGED vars
  BY <1>1, QueuedUnchanged DEF vars, processorVars
<1>2. CASE Next
  BY <1>1, <1>2, SubmissionStepQueued, ExecutorStepQueued, ProcessStepQueued
     DEF Next, Rest
<1>3. QED  BY <1>1, <1>2

\* An open row has its POST running, a job that will run, a job that BullMQ
\* gave up, or a POST that was cut off: through any number of crashes, retries
\* and removed jobs, and with POST handlers failing unless a recovery can run.
THEOREM NothingIsForgotten ==
    ASSUME QuietRecovery, NoApiFailure \/ Recoverless
    PROVE  Spec => []NothingForgotten
<1>1. Init => QueuedInv
  BY DEF Init, QueueInit, QueuedInv
<1>2. QuietInv /\ QueuedInv => NothingForgotten
  BY DEF QuietInv, TypeOK, QueueTypeOK, JobState, ApiPc, RowInv, QueuedInv,
         NothingForgotten, Open, InHandler, Live
<1>3. CASE NoApiFailure
  <2>1. DeploymentInv => QuietInv /\ StuckOpen
    BY DEF DeploymentInv
  <2>2. Deployment
    BY <1>3 DEF Deployment
  <2>3. QED  BY <1>1, <1>2, <2>1, <2>2, StepQueued, DeploymentSafe, PTL DEF Spec
<1>4. CASE Recoverless
  <2>1. QuietInv => StuckOpen
    BY <1>4, NothingToRecover DEF StuckOpen
  <2>2. QED  BY <1>1, <1>2, <2>1, StepQueued, QuietSafe, PTL DEF Spec
<1>5. QED  BY <1>3, <1>4

-----------------------------------------------------------------------------
(* Verdicts are final.                                                     *)

LEMMA RowsKept ==
    ASSUME UNCHANGED rowVars
    PROVE  FinalStep
BY DEF FinalStep, IsFinished, rowVars

LEMMA JudgeStepFinal ==
    ASSUME DeploymentInv, NEW e \in Executors, Judge(e)
    PROVE  FinalStep
<1> USE DEF DeploymentInv, QuietInv, TypeOK, ProcessorTypeOK
<1>1. cur[e] \in Submissions
  BY ProcessingStays DEF Judge
<1>2. CASE SkipTerminal(e) \/ ReadOpen(e) \/ EarlyFailure(e) \/ RunCase(e)
           \/ CreditFirstAccepted(e) \/ JudgingThrows(e) \/ FailureWriteThrows(e)
  BY <1>2, RowsKept
     DEF SkipTerminal, ReadOpen, EarlyFailure, RunCase, CreditFirstAccepted,
         JudgingThrows, FailureWriteThrows
<1>3. CASE MarkRunning(e) \/ NoTestCases(e) \/ WriteVerdict(e)
  <2>1. ~IsFinished(cur[e])
    BY <1>3 DEF MarkRunning, NoTestCases, WriteVerdict, ExecInv, IsFinished,
                TERMINAL_SUBMISSION_STATUSES
  <2>2. QED
    BY <1>1, <1>3, <2>1
       DEF MarkRunning, NoTestCases, WriteVerdict, WriteTerminal, FinalStep, IsFinished
<1>4. CASE WriteFailure(e)
  <2>1. IsFinished(cur[e]) => status[cur[e]] = "ACCEPTED"
    BY <1>4 DEF WriteFailure, ExecInv, IsFinished, TERMINAL_SUBMISSION_STATUSES
  <2>2. QED
    BY <1>1, <1>4, <2>1 DEF WriteFailure, WriteTerminal, FinalStep, IsFinished
<1>5. QED  BY <1>2, <1>3, <1>4 DEF Judge, Processing

LEMMA OtherStepFinal ==
    ASSUME DeploymentInv, Deployment,
           \/ \E s \in Submissions :
                CreateSubmission(s) \/ Handling(s) \/ PromoteDelayed(s)
                  \/ MoveStalledJob(s) \/ PruneJob(s)
           \/ \E e \in Executors : EndJob(e) \/ \E s \in Submissions : StartJob(e, s)
           \/ ApiCrash \/ \E w \in Workers : WorkerCrash(w)
           \/ \E p \in Processes : Recovering(p)
    PROVE  FinalStep
<1>1. ASSUME NEW s \in Submissions, CreateSubmission(s)
      PROVE  FinalStep
  <2>1. status[s] = Absent  BY <1>1 DEF CreateSubmission, DeploymentInv, QuietInv, RowInv
  <2>2. QED
    BY <1>1, <2>1
       DEF CreateSubmission, FinalStep, IsFinished, DeploymentInv, QuietInv, TypeOK,
           ProcessorTypeOK, Absent, TERMINAL_SUBMISSION_STATUSES
<1>2. ASSUME NEW s \in Submissions, Handling(s)
      PROVE  FinalStep
  <2>1. ~RejectSubmission(s)  BY DEF RejectSubmission, DeploymentInv, QuietInv, ApiInv
  <2>2. QED
    BY <1>2, <2>1, RowsKept
       DEF Handling, Enqueue, EnqueueFails, RecordJobId, RecordJobIdFails, RejectFails,
           processorVars
<1>3. ASSUME NEW s \in Submissions, PromoteDelayed(s) \/ MoveStalledJob(s) \/ PruneJob(s)
      PROVE  FinalStep
  BY <1>3, RowsKept DEF PromoteDelayed, MoveStalledJob, PruneJob, processorVars
<1>4. ASSUME NEW e \in Executors, EndJob(e) \/ \E s \in Submissions : StartJob(e, s)
      PROVE  FinalStep
  BY <1>4, RowsKept DEF EndJob, Release, StartJob, Start
<1>5. CASE ApiCrash \/ \E w \in Workers : WorkerCrash(w)
  BY <1>5, RowsKept DEF ApiCrash, WorkerCrash
<1>6. ASSUME NEW p \in Processes, Recovering(p)
      PROVE  FinalStep
  <2>1. CASE Boot(p) \/ ScanStuck(p) \/ RequeueStuck(p)
    BY <2>1, RowsKept DEF Boot, ScanStuck, RequeueStuck, processorVars
  <2>2. CASE ResetStuck(p)
    <3>1. PICK s \in stuck[p] : status' = [status EXCEPT ![s] = "PENDING"]
      BY <2>2 DEF ResetStuck, NextStuck
    <3>2. ~IsFinished(s)
      BY <1>6, <3>1 DEF DeploymentInv, StuckOpen, Open
    <3>3. QED
      BY <2>2, <3>1, <3>2
         DEF ResetStuck, FinalStep, IsFinished, DeploymentInv, QuietInv, TypeOK, ProcessorTypeOK
  <2>3. QED  BY <1>6, <2>1, <2>2 DEF Recovering
<1>7. QED  BY <1>1, <1>2, <1>3, <1>4, <1>5, <1>6

\* A finished row changes only when the credit of its own accepted run fails,
\* through any number of redeliveries, retries, crashes and recoveries.
THEOREM VerdictsAreFinal ==
    ASSUME Deployment
    PROVE  Spec => VerdictIsFinal
<1>1. DeploymentInv /\ [Next]_vars => [FinalStep]_vars
  BY JudgeStepFinal, OtherStepFinal, RowsKept
     DEF Next, Rest
<1>2. QED
  BY <1>1, DeploymentSafe, PTL DEF Spec, VerdictIsFinal

-----------------------------------------------------------------------------
(* Credits.  A problem counts once the row that is accepted is settled: no *)
(* execution still has its credit ahead.                                   *)

Settled(s) == status[s] = "ACCEPTED" /\ ~Settling(s)

SettledProblems(u) ==
    {ProblemOf[s] : s \in {t \in Submissions : UserOf[t] = u /\ Settled(t)}}

CreditInv == \A u \in Users : solvedCount[u] <= Cardinality(SettledProblems(u))

LEMMA ProblemsFinite ==
    ASSUME NEW S \in SUBSET Submissions
    PROVE  IsFiniteSet({ProblemOf[s] : s \in S})
<1> DEFINE T == {ProblemOf[s] : s \in S}
           f == [s \in S |-> ProblemOf[s]]
<1>1. f \in Surjection(S, T)
  BY DEF Surjection
<1>2. IsFiniteSet(S)
  BY SubmissionsAssumption, FS_Subset
<1>3. QED  BY <1>1, <1>2, FS_Surjection

\* If settled rows stay settled, nobody's settled problems get fewer.
LEMMA CreditKept ==
    ASSUME CreditInv, TypeOK, UNCHANGED solvedCount,
           \A s \in Submissions : Settled(s) => Settled(s)'
    PROVE  CreditInv'
<1> SUFFICES ASSUME NEW u \in Users
             PROVE  solvedCount[u] <= Cardinality(SettledProblems(u)')
  BY DEF CreditInv
<1>1. SettledProblems(u) \subseteq SettledProblems(u)'
  BY DEF SettledProblems
<1>2. IsFiniteSet(SettledProblems(u)) /\ IsFiniteSet(SettledProblems(u)')
  BY ProblemsFinite DEF SettledProblems
<1>3. Cardinality(SettledProblems(u)) <= Cardinality(SettledProblems(u)')
  BY <1>1, <1>2, FS_Subset
<1>4. /\ Cardinality(SettledProblems(u)) \in Nat
      /\ Cardinality(SettledProblems(u)') \in Nat
  BY <1>2, FS_CardinalityType
<1>5. solvedCount[u] \in Nat /\ solvedCount[u] <= Cardinality(SettledProblems(u))
  BY DEF CreditInv, TypeOK, ProcessorTypeOK
<1>6. QED  BY <1>3, <1>4, <1>5

\* The one step that credits: the problem was not settled and is now.
LEMMA CreditGiven ==
    ASSUME DeploymentInv, CreditInv, NEW e \in Executors, Judge(e),
           CreditFirstAccepted(e)
    PROVE  CreditInv'
<1> DEFINE s == cur[e]
<1>1. s \in Submissions /\ pc[e] = "credit" /\ status[s] = "ACCEPTED"
  BY DEF CreditFirstAccepted, DeploymentInv, QuietInv, TypeOK, ProcessorTypeOK, ExecInv
<1>2. /\ UNCHANGED <<status, cur>> /\ pc'[e] = "returned"
      /\ \A f \in Executors : f # e => pc'[f] = pc[f]
  BY DEF CreditFirstAccepted, Goto, rowVars, DeploymentInv, QuietInv, TypeOK, ProcessorTypeOK
<1>3. \A f \in Executors : f # e /\ pc[f] # "idle" => cur[f] # s
  BY <1>1 DEF DeploymentInv, QuietInv, LockInv
<1>4. ~Settled(s) /\ Settled(s)'
  BY <1>1, <1>2, <1>3 DEF Settled, Settling
<1>5. \A t \in Submissions : Settled(t) => Settled(t)'
  BY <1>2 DEF Settled, Settling
<1>6. CASE AcceptedBefore(s)
  BY <1>5, <1>6, CreditKept DEF CreditFirstAccepted, DeploymentInv, QuietInv
<1>7. CASE ~AcceptedBefore(s)
  <2> SUFFICES ASSUME NEW u \in Users
               PROVE  solvedCount'[u] <= Cardinality(SettledProblems(u)')
    BY DEF CreditInv
  <2>1. IsFiniteSet(SettledProblems(u)) /\ IsFiniteSet(SettledProblems(u)')
    BY ProblemsFinite DEF SettledProblems
  <2>2. /\ Cardinality(SettledProblems(u)) \in Nat
        /\ Cardinality(SettledProblems(u)') \in Nat
    BY <2>1, FS_CardinalityType
  <2>3. SettledProblems(u) \subseteq SettledProblems(u)'
    BY <1>5 DEF SettledProblems
  <2>4. solvedCount[u] \in Nat /\ solvedCount[u] <= Cardinality(SettledProblems(u))
    BY DEF CreditInv, DeploymentInv, QuietInv, TypeOK, ProcessorTypeOK
  <2>5. CASE u # UserOf[s]
    <3>1. solvedCount'[u] = solvedCount[u]
      BY <1>7, <2>5 DEF CreditFirstAccepted, DeploymentInv, QuietInv, TypeOK, ProcessorTypeOK
    <3>2. Cardinality(SettledProblems(u)) <= Cardinality(SettledProblems(u)')
      BY <2>1, <2>3, FS_Subset
    <3>3. QED  BY <2>2, <2>4, <3>1, <3>2
  <2>6. CASE u = UserOf[s]
    <3>1. solvedCount'[u] = solvedCount[u] + 1
      BY <1>7, <2>6 DEF CreditFirstAccepted, DeploymentInv, QuietInv, TypeOK, ProcessorTypeOK
    <3>2. ProblemOf[s] \notin SettledProblems(u)
      BY <1>4, <1>7, <2>6 DEF SettledProblems, Settled, AcceptedBefore
    <3>3. ProblemOf[s] \in SettledProblems(u)'
      <4>1. PICK t \in Submissions : t = s
        BY <1>1
      <4>2. Settled(t)'
        BY <1>2, <1>4, <4>1 DEF Settled, Settling
      <4>3. ProblemOf[t] \in SettledProblems(u)'
        BY <2>6, <4>1, <4>2 DEF SettledProblems
      <4>4. QED  BY <4>1, <4>3
    <3>4. Cardinality(SettledProblems(u) \union {ProblemOf[s]})
            = Cardinality(SettledProblems(u)) + 1
      BY <2>1, <3>2, FS_AddElement
    <3>5. Cardinality(SettledProblems(u) \union {ProblemOf[s]})
            <= Cardinality(SettledProblems(u)')
      BY <2>1, <2>3, <3>3, FS_Subset
    <3>6. QED  BY <2>2, <2>4, <3>1, <3>4, <3>5
  <2>7. QED  BY <2>5, <2>6
<1>8. QED  BY <1>6, <1>7

LEMMA JudgeStepSettled ==
    ASSUME DeploymentInv, NEW e \in Executors, Judge(e), NEW t \in Submissions, Settled(t)
    PROVE  Settled(t)'
<1>1. /\ UNCHANGED cur /\ pc[e] # "idle" /\ cur[e] \in Submissions
      /\ \A f \in Executors : f # e => pc'[f] = pc[f]
  BY ProcessingStays DEF Judge, DeploymentInv, QuietInv, TypeOK, ProcessorTypeOK
<1>2. \A s \in Submissions : s # cur[e] => status'[s] = status[s]
  BY <1>1
     DEF Judge, Processing, SkipTerminal, ReadOpen, MarkRunning, EarlyFailure,
         NoTestCases, RunCase, WriteVerdict, CreditFirstAccepted, JudgingThrows,
         WriteFailure, FailureWriteThrows, WriteTerminal, rowVars, DeploymentInv, QuietInv, TypeOK,
         ProcessorTypeOK
<1>3. CASE t # cur[e]
  BY <1>1, <1>2, <1>3 DEF Settled, Settling
<1>4. CASE t = cur[e]
  <2>1. pc[e] \notin {"mark", "run", "write", "credit", "catch"}
    BY <1>1, <1>4
       DEF Settled, Settling, DeploymentInv, QuietInv, ExecInv, RowInv, IsFinished,
           TERMINAL_SUBMISSION_STATUSES
  <2>2. SkipTerminal(e) \/ ReadOpen(e) \/ EarlyFailure(e)
    BY <2>1
       DEF Judge, Processing, MarkRunning, NoTestCases, RunCase, WriteVerdict,
           CreditFirstAccepted, JudgingThrows, WriteFailure, FailureWriteThrows
  <2>3. status' = status /\ pc'[e] \notin {"credit", "catch"}
    BY <2>2
       DEF SkipTerminal, ReadOpen, EarlyFailure, Goto, rowVars, DeploymentInv, QuietInv, TypeOK,
           ProcessorTypeOK
  <2>4. QED  BY <1>1, <2>3 DEF Settled, Settling
<1>5. QED  BY <1>3, <1>4

LEMMA StepCredit ==
    ASSUME Deployment
    PROVE  DeploymentInv /\ CreditInv /\ [Next]_vars => CreditInv'
<1> SUFFICES ASSUME DeploymentInv, CreditInv, [Next]_vars
             PROVE  CreditInv'
  OBVIOUS
<1>1. TypeOK  BY DEF DeploymentInv, QuietInv
<1>2. CASE UNCHANGED <<status, solvedCount, pc, cur>>
  BY <1>1, <1>2, CreditKept DEF Settled, Settling
<1>3. ASSUME NEW s \in Submissions,
             \/ CreateSubmission(s) \/ Handling(s) \/ PromoteDelayed(s)
             \/ MoveStalledJob(s) \/ PruneJob(s)
      PROVE  CreditInv'
  <2>1. CASE CreateSubmission(s)
    <3>1. status[s] = Absent /\ UNCHANGED <<pc, cur, solvedCount>>
      BY <2>1 DEF CreateSubmission, DeploymentInv, QuietInv, RowInv, execVars
    <3>2. \A t \in Submissions : t # s => status'[t] = status[t]
      BY <2>1 DEF CreateSubmission, DeploymentInv, QuietInv, TypeOK, ProcessorTypeOK
    <3>3. QED
      BY <1>1, <3>1, <3>2, CreditKept DEF Settled, Settling, Absent
  <2>2. CASE RejectSubmission(s)
    BY <2>2 DEF RejectSubmission, DeploymentInv, QuietInv, ApiInv
  <2>3. CASE \/ Enqueue(s) \/ EnqueueFails(s) \/ RecordJobId(s) \/ RecordJobIdFails(s)
             \/ RejectFails(s) \/ PromoteDelayed(s) \/ MoveStalledJob(s) \/ PruneJob(s)
    BY <1>2, <2>3
       DEF Enqueue, EnqueueFails, RecordJobId, RecordJobIdFails, RejectFails,
           PromoteDelayed, MoveStalledJob, PruneJob, processorVars, rowVars, execVars
  <2>4. QED  BY <1>3, <2>1, <2>2, <2>3 DEF Handling
<1>4. ASSUME NEW e \in Executors, Judge(e)
      PROVE  CreditInv'
  <2>1. CASE CreditFirstAccepted(e)
    BY <1>4, <2>1, CreditGiven
  <2>2. CASE ~CreditFirstAccepted(e)
    <3>1. UNCHANGED solvedCount
      BY <1>4, <2>2
         DEF Judge, Processing, SkipTerminal, ReadOpen, MarkRunning, EarlyFailure,
             NoTestCases, RunCase, WriteVerdict, JudgingThrows, WriteFailure,
             FailureWriteThrows
    <3>2. QED  BY <1>1, <1>4, <3>1, JudgeStepSettled, CreditKept
  <2>3. QED  BY <2>1, <2>2
<1>5. ASSUME NEW e \in Executors, EndJob(e) \/ \E s \in Submissions : StartJob(e, s)
      PROVE  CreditInv'
  <2>1. UNCHANGED <<status, solvedCount>>
    BY <1>5 DEF EndJob, Release, StartJob, Start, rowVars
  <2>2. \A f \in Executors :
          pc'[f] \in {"credit", "catch"} => pc[f] = pc'[f] /\ cur[f] = cur'[f]
    BY <1>5 DEF EndJob, Release, StartJob, Start, Goto, DeploymentInv, QuietInv, TypeOK,
                ProcessorTypeOK
  <2>3. QED  BY <1>1, <2>1, <2>2, CreditKept DEF Settled, Settling
<1>6. CASE ApiCrash
  BY <1>2, <1>6 DEF ApiCrash, rowVars, execVars
<1>7. ASSUME NEW w \in Workers, WorkerCrash(w)
      PROVE  CreditInv'
  BY <1>1, <1>7, CreditKept DEF WorkerCrash, rowVars, Settled, Settling
<1>8. ASSUME NEW p \in Processes, Recovering(p)
      PROVE  CreditInv'
  <2>1. CASE Boot(p) \/ ScanStuck(p) \/ RequeueStuck(p)
    BY <1>2, <2>1 DEF Boot, ScanStuck, RequeueStuck, processorVars, rowVars, execVars
  <2>2. CASE ResetStuck(p)
    <3>1. PICK s \in Submissions : NextStuck(p, s) /\ status' = [status EXCEPT ![s] = "PENDING"]
      BY <2>2 DEF ResetStuck
    <3>2. status[s] # "ACCEPTED"
      BY <1>8, <3>1
         DEF NextStuck, DeploymentInv, StuckOpen, QuietInv, RowInv, Open, IsFinished,
             TERMINAL_SUBMISSION_STATUSES
    <3>3. \A t \in Submissions : t # s => status'[t] = status[t]
      BY <3>1 DEF DeploymentInv, QuietInv, TypeOK, ProcessorTypeOK
    <3>4. UNCHANGED <<pc, cur, solvedCount>>
      BY <2>2 DEF ResetStuck, execVars
    <3>5. QED
      BY <1>1, <3>2, <3>3, <3>4, CreditKept DEF Settled, Settling
  <2>3. QED  BY <1>8, <2>1, <2>2 DEF Recovering
<1>9. CASE UNCHANGED vars
  BY <1>2, <1>9 DEF vars, processorVars, rowVars, execVars
<1>10. QED
  BY <1>3, <1>4, <1>5, <1>6, <1>7, <1>8, <1>9 DEF Next, Rest

\* No crash, redelivery or retry counts a problem twice: solvedCount is at most
\* the number of problems the user has an accepted submission for.
THEOREM NeverOvercredits ==
    ASSUME Deployment
    PROVE  Spec => []NoOvercredit
<1>1. Init => CreditInv
  <2> SUFFICES ASSUME Init, NEW u \in Users
               PROVE  solvedCount[u] <= Cardinality(SettledProblems(u))
    BY DEF CreditInv
  <2>1. solvedCount[u] = 0
    BY DEF Init, ProcessorInit
  <2>2. Cardinality(SettledProblems(u)) \in Nat
    BY ProblemsFinite, FS_CardinalityType DEF SettledProblems
  <2>3. QED  BY <2>1, <2>2
<1>2. TypeOK /\ CreditInv => NoOvercredit
  <2> SUFFICES ASSUME TypeOK, CreditInv, NEW u \in Users
               PROVE  solvedCount[u] <= Cardinality(SolvedProblems(u))
    BY DEF NoOvercredit
  <2>1. SettledProblems(u) \subseteq SolvedProblems(u)
    BY DEF SettledProblems, SolvedProblems, Settled
  <2>2. IsFiniteSet(SettledProblems(u)) /\ IsFiniteSet(SolvedProblems(u))
    BY ProblemsFinite DEF SettledProblems, SolvedProblems
  <2>3. Cardinality(SettledProblems(u)) <= Cardinality(SolvedProblems(u))
    BY <2>1, <2>2, FS_Subset
  <2>4. /\ Cardinality(SettledProblems(u)) \in Nat
        /\ Cardinality(SolvedProblems(u)) \in Nat
    BY <2>2, FS_CardinalityType
  <2>5. solvedCount[u] \in Nat /\ solvedCount[u] <= Cardinality(SettledProblems(u))
    BY DEF CreditInv, TypeOK, ProcessorTypeOK
  <2>6. QED  BY <2>3, <2>4, <2>5
<1>3. DeploymentInv => TypeOK
  BY DEF DeploymentInv, QuietInv
<1>4. QED
  BY <1>1, <1>2, <1>3, StepCredit, DeploymentSafe, PTL DEF Spec

=============================================================================
