---------------------------- MODULE JudgePipeline ----------------------------
(***************************************************************************)
(* The path of a submission with JUDGE_QUEUE_DRIVER=redis: the API writes  *)
(* the row and adds the job (SubmissionsService.create), judge workers     *)
(* take jobs and run JudgeJobProcessor on them (JudgeWorkerService), and   *)
(* every process that boots requeues stuck rows (JudgeRecoveryService).    *)
(* Processes crash and are restarted, database and queue calls fail, locks *)
(* expire; FaultLimit bounds how often.                                    *)
(***************************************************************************)
EXTENDS JudgeProcessor, BullQueue

CONSTANTS
    Workers,            \* judge-worker processes
    Api,                \* the backend-api process
    WorkerOf,           \* the worker an executor is a slot of
    RecoveryOnStart,    \* JUDGE_RECOVERY_ON_START # 'false'
    RecoveryTake        \* take: the most rows one recovery requeues

ASSUME ProcessAssumption ==
    /\ Api \notin Workers
    /\ WorkerOf \in [Executors -> Workers]
ASSUME RecoveryAssumption ==
    /\ RecoveryOnStart \in BOOLEAN
    /\ RecoveryTake \in Nat \ {0}

VARIABLES
    api,        \* per submission: where its POST handler is
    proc,       \* per process: down, in its startup recovery, or up
    stuck       \* per process: what its recovery has read and not requeued yet

vars == <<processorVars, queueVars, api, proc, stuck>>

Processes == Workers \union {Api}

ApiPc ==
    {"none", "enqueue", "record", "reject", "answered", "refused", "errored", "dropped"}
InHandler(s) == api[s] \in {"enqueue", "record", "reject"}

TypeOK ==
    /\ ProcessorTypeOK
    /\ QueueTypeOK
    /\ api \in [Submissions -> ApiPc]
    /\ proc \in [Processes -> {"down", "scan", "reset", "requeue", "up"}]
    /\ stuck \in [Processes -> SUBSET Submissions]

Init ==
    /\ ProcessorInit
    /\ QueueInit
    /\ api = [s \in Submissions |-> "none"]
    /\ proc = [p \in Processes |-> "up"]
    /\ stuck = [p \in Processes |-> {}]

-----------------------------------------------------------------------------
(* SubmissionsService.create, one step per await.                          *)

\* The row; ids are numbered in the order of createdAt.
CreateSubmission(s) ==
    /\ proc[Api] = "up"
    /\ api[s] = "none"
    /\ \A t \in Submissions : t < s => api[t] # "none"
    /\ status' = [status EXCEPT ![s] = "PENDING"]
    /\ api' = [api EXCEPT ![s] = "enqueue"]
    /\ UNCHANGED <<finished, score, solvedCount, execVars, faults, queueVars, proc, stuck>>

Enqueue(s) ==
    /\ api[s] = "enqueue"
    /\ AddJob(s)
    /\ api' = [api EXCEPT ![s] = "record"]
    /\ UNCHANGED <<processorVars, proc, stuck>>

\* queue.add rejects; the job may have reached Redis all the same.
EnqueueFails(s) ==
    /\ api[s] = "enqueue"
    /\ Suffer("queue")
    /\ AddJob(s) \/ UNCHANGED queueVars
    /\ api' = [api EXCEPT ![s] = "reject"]
    /\ UNCHANGED <<rowVars, solvedCount, execVars, proc, stuck>>

\* judgeJobId is written and 202 answered.
RecordJobId(s) ==
    /\ api[s] = "record"
    /\ api' = [api EXCEPT ![s] = "answered"]
    /\ UNCHANGED <<processorVars, queueVars, proc, stuck>>

RecordJobIdFails(s) ==
    /\ api[s] = "record"
    /\ Suffer("apiDb")
    /\ api' = [api EXCEPT ![s] = "reject"]
    /\ UNCHANGED <<rowVars, solvedCount, execVars, queueVars, proc, stuck>>

\* Variant: finishedAt is not written.
RejectUnfinished(s) ==
    /\ api[s] = "reject"
    /\ status' = [status EXCEPT ![s] = "RUNTIME_ERROR"]
    /\ api' = [api EXCEPT ![s] = "refused"]
    /\ UNCHANGED <<finished, score, solvedCount, execVars, faults, queueVars, proc, stuck>>

\* The catch block: RUNTIME_ERROR with finishedAt, whatever the row holds by
\* now and with the score it holds; then 503.
RejectSubmission(s) ==
    /\ api[s] = "reject"
    /\ WriteTerminal(s, "RUNTIME_ERROR", score[s])
    /\ api' = [api EXCEPT ![s] = "refused"]
    /\ UNCHANGED <<solvedCount, execVars, faults, queueVars, proc, stuck>>

\* The row stays as it is and the database's error is the answer.
RejectFails(s) ==
    /\ api[s] = "reject"
    /\ Suffer("apiDb")
    /\ api' = [api EXCEPT ![s] = "errored"]
    /\ UNCHANGED <<rowVars, solvedCount, execVars, queueVars, proc, stuck>>

Handling(s) ==
    \/ Enqueue(s) \/ EnqueueFails(s) \/ RecordJobId(s) \/ RecordJobIdFails(s)
    \/ RejectSubmission(s) \/ RejectFails(s)

-----------------------------------------------------------------------------
(* JudgeWorkerService: the job callback, and BullMQ behind it.             *)

StartJob(e, s) ==
    /\ proc[WorkerOf[e]] = "up"
    /\ TakeJob(s, e)
    /\ Start(e, s)
    /\ UNCHANGED <<api, proc, stuck>>

Judge(e) ==
    /\ Processing(e)
    /\ UNCHANGED <<queueVars, api, proc, stuck>>

\* Variant: the callback swallows the error.
EndJobSwallowing(e) ==
    /\ Ended(e)
    /\ CompleteJob(cur[e], e)
    /\ Release(e)
    /\ UNCHANGED <<faults, api, proc, stuck>>

\* The callback's promise settles: the job completes, or its attempt fails.
EndJob(e) ==
    /\ Ended(e)
    /\ IF pc[e] = "returned" THEN CompleteJob(cur[e], e) ELSE FailAttempt(cur[e], e)
    /\ Release(e)
    /\ UNCHANGED <<faults, api, proc, stuck>>

PromoteDelayed(s) ==
    /\ PromoteJob(s)
    /\ UNCHANGED <<processorVars, api, proc, stuck>>

Executing(e, s) == pc[e] # "idle" /\ cur[e] = s

\* The stalled check of a running worker: the holder is gone, or (a fault) it
\* is at work and failed to renew its lock in time.
MoveStalledJob(s) ==
    /\ \E w \in Workers : proc[w] = "up"
    /\ StallJob(s)
    /\ IF \E e \in Executors : holder[s] = e /\ Executing(e, s)
       THEN Suffer("lockLoss")
       ELSE UNCHANGED faults
    /\ UNCHANGED <<rowVars, solvedCount, execVars, api, proc, stuck>>

PruneJob(s) ==
    /\ RemoveJob(s)
    /\ Suffer("prune")
    /\ UNCHANGED <<rowVars, solvedCount, execVars, api, proc, stuck>>

-----------------------------------------------------------------------------
(* Crash, restart (restart: unless-stopped) and JudgeRecoveryService.      *)

\* Handlers in flight are gone.  An error in the recovery also ends the process.
ApiCrash ==
    /\ proc[Api] # "down"
    /\ Suffer("apiCrash")
    /\ proc' = [proc EXCEPT ![Api] = "down"]
    /\ stuck' = [stuck EXCEPT ![Api] = {}]
    /\ api' = [s \in Submissions |-> IF InHandler(s) THEN "dropped" ELSE api[s]]
    /\ UNCHANGED <<rowVars, solvedCount, execVars, queueVars>>

\* Executions stop where they are, of whatever cause (the 'error' of child.stdin
\* nobody listens for is one); their jobs stay active in Redis.
WorkerCrash(w) ==
    /\ proc[w] # "down"
    /\ Suffer("workerCrash")
    /\ proc' = [proc EXCEPT ![w] = "down"]
    /\ stuck' = [stuck EXCEPT ![w] = {}]
    /\ pc' = [e \in Executors |-> IF WorkerOf[e] = w THEN "idle" ELSE pc[e]]
    /\ cur' = [e \in Executors |-> IF WorkerOf[e] = w THEN NoSub ELSE cur[e]]
    /\ left' = [e \in Executors |-> IF WorkerOf[e] = w THEN 0 ELSE left[e]]
    /\ final' = [e \in Executors |-> IF WorkerOf[e] = w THEN "ACCEPTED" ELSE final[e]]
    /\ UNCHANGED <<rowVars, solvedCount, queueVars, api>>

\* onModuleInit runs before the API listens and before the worker takes jobs.
Boot(p) ==
    /\ proc[p] = "down"
    /\ proc' = [proc EXCEPT ![p] = IF RecoveryOnStart THEN "scan" ELSE "up"]
    /\ UNCHANGED <<processorVars, queueVars, api, stuck>>

\* Rows created before the cutoff that are PENDING or RUNNING.
StuckRows(cutoff) ==
    {s \in Submissions : s < cutoff /\ status[s] \in {"PENDING", "RUNNING"}}

\* take: RecoveryTake with orderBy createdAt asc.
Oldest(S) == {s \in S : Cardinality({t \in S : t < s}) < RecoveryTake}

\* The list is read once; rows may change before the loop reaches them.
ScanStuck(p) ==
    /\ proc[p] = "scan"
    /\ \E cutoff \in {0} \union {s + 1 : s \in Submissions} :
         LET found == Oldest(StuckRows(cutoff)) IN
         /\ stuck' = [stuck EXCEPT ![p] = found]
         /\ proc' = [proc EXCEPT ![p] = IF found = {} THEN "up" ELSE "reset"]
    /\ UNCHANGED <<processorVars, queueVars, api>>

NextStuck(p, s) == s \in stuck[p] /\ \A t \in stuck[p] : s <= t

\* status = PENDING without looking at the row again; finishedAt stays.
ResetStuck(p) ==
    /\ proc[p] = "reset"
    /\ \E s \in Submissions :
         /\ NextStuck(p, s)
         /\ status' = [status EXCEPT ![s] = "PENDING"]
    /\ proc' = [proc EXCEPT ![p] = "requeue"]
    /\ UNCHANGED <<finished, score, solvedCount, execVars, faults, queueVars, api, stuck>>

RequeueStuck(p) ==
    /\ proc[p] = "requeue"
    /\ \E s \in Submissions :
         /\ NextStuck(p, s)
         /\ AddJob(s)
         /\ stuck' = [stuck EXCEPT ![p] = @ \ {s}]
         /\ proc' = [proc EXCEPT ![p] = IF stuck[p] = {s} THEN "up" ELSE "reset"]
    /\ UNCHANGED <<processorVars, api>>

Recovering(p) == Boot(p) \/ ScanStuck(p) \/ ResetStuck(p) \/ RequeueStuck(p)

-----------------------------------------------------------------------------
\* Every POST is over, every job has ended and every process is up.
Quiescent ==
    /\ \A s \in Submissions : ~InHandler(s) /\ api[s] # "none" /\ ~Live(s)
    /\ \A e \in Executors : pc[e] = "idle"
    /\ \A p \in Processes : proc[p] = "up"

\* Rest is a step, so that TLC's deadlock check finds only a system that is stuck.
Rest == Quiescent /\ UNCHANGED vars

Next ==
    \/ \E s \in Submissions :
         CreateSubmission(s) \/ Handling(s) \/ PromoteDelayed(s)
           \/ MoveStalledJob(s) \/ PruneJob(s)
    \/ \E e \in Executors : Judge(e) \/ EndJob(e) \/ \E s \in Submissions : StartJob(e, s)
    \/ ApiCrash
    \/ \E w \in Workers : WorkerCrash(w)
    \/ \E p \in Processes : Recovering(p)
    \/ Rest

Spec == Init /\ [][Next]_vars

-----------------------------------------------------------------------------
(* Safety.                                                                 *)

\* Two executors never judge the same submission at the same time: the job id
\* is the submission's id and a job has one lock (while locks are renewed).
ExclusiveExecution ==
    \A e, f \in Executors :
        pc[e] # "idle" /\ pc[f] # "idle" /\ cur[e] = cur[f] => e = f

\* A finished row scores 100 exactly when it is ACCEPTED, also when the failed
\* credit of an accepted run turns the verdict into RUNTIME_ERROR.
ScoreMatchesVerdict ==
    \A s \in Submissions : IsFinished(s) => (score[s] = 100 <=> status[s] = "ACCEPTED")

\* A completed job, kept or not, leaves a terminal row with finishedAt behind.
CompletedJobIsJudged ==
    \A s \in Submissions : jobState[s] = "completed" => IsFinished(s)

SolvedProblems(u) ==
    {ProblemOf[s] : s \in {t \in Submissions : UserOf[t] = u /\ status[t] = "ACCEPTED"}}

\* Crashes, redeliveries and retries never count a problem twice: solvedCount
\* is at most the number of problems the user has an accepted submission for.
NoOvercredit == \A u \in Users : solvedCount[u] <= Cardinality(SolvedProblems(u))

Open(s) == status[s] # Absent /\ ~IsFinished(s)

\* An open row is on its way, its POST is running or its job will run, unless
\* BullMQ gave its job up or its POST was cut off by a crash or by the database:
\* the cases that are left to the startup recovery.
NothingForgotten ==
    \A s \in Submissions :
        Open(s) => \/ InHandler(s) \/ Live(s)
                   \/ GaveUp(s) \/ api[s] \in {"errored", "dropped"}

\* ACCEPTED is earned: no executor is about to write it with a test case left
\* to run, and a problem without test cases accepts nothing.
AcceptedIsEarned ==
    /\ \A e \in Executors : pc[e] = "write" /\ final[e] = "ACCEPTED" => left[e] = 0
    /\ \A s \in Submissions : status[s] = "ACCEPTED" => NumCases[ProblemOf[s]] > 0

\* What a reader has seen as final stays: a finished row changes only when the
\* credit of its own accepted run fails.
FinalStep ==
    \A s \in Submissions : IsFinished(s) =>
        \/ IsFinished(s)' /\ status'[s] = status[s] /\ score'[s] = score[s]
        \/ /\ status[s] = "ACCEPTED" /\ status'[s] = "RUNTIME_ERROR"
           /\ \E e \in Executors : pc[e] = "catch" /\ cur[e] = s

\* No step of the judge takes back a verdict (FinalStep has the one exception).
VerdictIsFinal == [][FinalStep]_vars

-----------------------------------------------------------------------------
(* The pipeline implements SubmissionLifecycle.                            *)

\* An accepted row whose own execution has not settled the credit yet.
Settling(s) == \E e \in Executors : cur[e] = s /\ pc[e] \in {"credit", "catch"}

VerdictOf(s) ==
    IF status[s] = Absent THEN "none"
    ELSE IF ~IsFinished(s) THEN "open"
    ELSE IF status[s] # "ACCEPTED" THEN "rejected"
    ELSE IF Settling(s) THEN "provisional" ELSE "accepted"

Lifecycle == INSTANCE SubmissionLifecycle WITH
                 verdict <- [s \in Submissions |-> VerdictOf(s)],
                 credits <- solvedCount

\* Under worker crashes, retries and failing databases, what the owner sees of
\* a submission and of solvedCount is a behaviour of SubmissionLifecycle.
ImplementsLifecycle == Lifecycle!LifecycleSpec

-----------------------------------------------------------------------------
(* Liveness.  An executor that is up steps on, workers take waiting jobs,  *)
(* BullMQ promotes delayed jobs and checks for stalled ones, a handler in  *)
(* flight goes on, and docker restarts what has stopped.  That the run of  *)
(* a test case ends is not assumed: the time limit is one SIGTERM to the   *)
(* docker client, and a program may go on after it and hold its slot.      *)

\* A program of s runs in the sandbox for e.
InSandbox(e, s) == pc[e] = "run" /\ left[e] > 0 /\ cur[e] = s

\* The steps the code takes by itself.
StepsOn(e) == Judge(e) /\ \A s \in Submissions : ~InSandbox(e, s)

Fairness ==
    /\ \A e \in Executors :
         /\ WF_vars(StepsOn(e))
         /\ WF_vars(EndJob(e))
         /\ WF_vars(\E s \in Submissions : StartJob(e, s))
    /\ \A s \in Submissions :
         /\ WF_vars(Handling(s))
         /\ WF_vars(PromoteDelayed(s))
         /\ WF_vars(MoveStalledJob(s) /\ faults' = faults)
    /\ \A p \in Processes : WF_vars(Recovering(p))

FairSpec == Spec /\ Fairness

\* No run of a program of s lasts for ever.
RunsEnd(s) == \A e \in Executors : []<>~InSandbox(e, s)

\* A slot is left for s: it is not the case that programs of other submissions
\* hold all of them for ever.
SlotIsLeft(s) ==
    \E e \in Executors : \A t \in Submissions \ {s} : []<>~InSandbox(e, t)

\* A submission answered with 202 whose own programs end is judged in the end,
\* and for good, through crashes, retries and failing databases, also while the
\* program of another one never ends, as long as that leaves a slot.
AnsweredIsJudged ==
    \A s \in Submissions :
        RunsEnd(s) /\ SlotIsLeft(s) => (api[s] = "answered" ~> []IsFinished(s))

-----------------------------------------------------------------------------
(* What the documentation says and the code does not do.                   *)

\* DATABASE_SCHEMA.md: solvedCount is the number of problems solved.
SolvedCountIsSolved ==
    Quiescent => \A u \in Users : solvedCount[u] = Cardinality(SolvedProblems(u))

\* DATABASE_SCHEMA.md: finishedAt is the time a terminal status was written.
FinishedIsTerminal ==
    \A s \in Submissions : finished[s] => status[s] \in TERMINAL_SUBMISSION_STATUSES

\* ARCHITECTURE_OVERVIEW.md: the recovery puts stuck submissions back into the
\* queue, so a row it is done with has a job that will run.
RequeuedIsLive ==
    [][\A p \in Processes, s \in Submissions :
          RequeueStuck(p) /\ NextStuck(p, s) => Live(s)']_vars

=============================================================================
