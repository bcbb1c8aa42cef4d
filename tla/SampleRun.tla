------------------------------ MODULE SampleRun ------------------------------
(***************************************************************************)
(* POST /judge/run: JudgeController.runSample, JudgeQueueService.runSample *)
(* and what it waits for.  With the redis driver a call adds a job of its  *)
(* own, a slot of the worker runs the sandbox for it, and the call takes   *)
(* the job's result unless its own timer is first; with the inline driver  *)
(* the API process runs the sandbox itself.  Submissions are here the ids  *)
(* of the calls, which are also the ids of their jobs.                     *)
(***************************************************************************)
EXTENDS BullQueue, Sandbox

CONSTANT Drivers    \* the values of JUDGE_QUEUE_DRIVER considered
ASSUME DriversAssumption == Drivers \subseteq {"redis", "inline"}
ASSUME SlotsAssumption == IsFiniteSet(Executors)

VARIABLES
    driver,     \* JUDGE_QUEUE_DRIVER of the deployment
    call,       \* where the call is
    answer,     \* the result it was answered with
    worker,     \* the worker process: up, closing (worker.close()) or down
    cur,        \* the job (or inline call) an executor runs
    value,      \* the return value kept with a completed job
    tally       \* judge_jobs_total: started - completed - failed

serviceVars == <<driver, call, answer, worker, cur, value, tally>>
vars == <<sandboxVars, queueVars, serviceVars, faults>>

CallPc == {"none", "add", "waiting", "answered", "notFound", "failed", "gone"}

SampleTypeOK ==
    /\ SandboxTypeOK
    /\ QueueTypeOK
    /\ driver \in Drivers
    /\ call \in [Submissions -> CallPc]
    /\ answer \in [Submissions -> JudgeStatus \union {NoResult}]
    /\ worker \in {"up", "closing", "down"}
    /\ cur \in [Executors -> Submissions \union {NoSub}]
    /\ value \in [Submissions -> JudgeStatus \union {NoResult}]
    /\ tally \in Nat
    /\ faults \in [FaultKinds -> Nat]
    /\ \A e \in Executors : run[e] = "idle" <=> cur[e] = NoSub

Init ==
    /\ SandboxInit
    /\ QueueInit
    /\ driver \in Drivers
    /\ call = [c \in Submissions |-> "none"]
    /\ answer = [c \in Submissions |-> NoResult]
    /\ worker = "up"
    /\ cur = [e \in Executors |-> NoSub]
    /\ value = [c \in Submissions |-> NoResult]
    /\ tally = 0
    /\ faults = [k \in FaultKinds |-> 0]

-----------------------------------------------------------------------------
(* The call.                                                               *)

MoveCall(c, from, to) == call[c] = from /\ call' = [call EXCEPT ![c] = to]

\* The problem is missing or deleted, has no public test case, or there is one.
LookupSample(c) ==
    /\ \E outcome \in {"notFound", "add"} : MoveCall(c, "none", outcome)
    /\ UNCHANGED <<sandboxVars, queueVars, faults, driver, answer, worker, cur, value, tally>>

AddSample(c) ==
    /\ driver = "redis"
    /\ MoveCall(c, "add", "waiting")
    /\ AddJob(c)
    /\ UNCHANGED <<sandboxVars, faults, driver, answer, worker, cur, value, tally>>

\* queue.add rejects; the job may have reached Redis all the same.
AddSampleFails(c) ==
    /\ driver = "redis"
    /\ MoveCall(c, "add", "failed")
    /\ Suffer("queue")
    /\ AddJob(c) \/ UNCHANGED queueVars
    /\ UNCHANGED <<sandboxVars, driver, answer, worker, cur, value, tally>>

\* waitUntilFinished: the job has ended, completed or failed for good.
SampleResult(c) ==
    /\ driver = "redis"
    /\ \/ /\ jobState[c] = "completed"
          /\ MoveCall(c, "waiting", "answered")
          /\ answer' = [answer EXCEPT ![c] = value[c]]
       \/ /\ jobState[c] = "failed"
          /\ MoveCall(c, "waiting", "failed")
          /\ UNCHANGED answer
    /\ UNCHANGED <<sandboxVars, queueVars, faults, driver, worker, cur, value, tally>>

\* Variant: the time limit covers only jobs a slot has taken.
SampleTimesOutWhenTaken(c) ==
    /\ driver = "redis"
    /\ jobState[c] = "active"
    /\ MoveCall(c, "waiting", "gone")
    /\ UNCHANGED <<sandboxVars, queueVars, faults, driver, answer, worker, cur, value, tally>>

\* JUDGE_SAMPLE_RESULT_TIMEOUT_MS is over; the job is left as it is.
SampleTimesOut(c) ==
    /\ driver = "redis"
    /\ MoveCall(c, "waiting", "gone")
    /\ UNCHANGED <<sandboxVars, queueVars, faults, driver, answer, worker, cur, value, tally>>

-----------------------------------------------------------------------------
(* The worker's callback for a job of kind sample.                         *)

StartSample(e, c) ==
    /\ driver = "redis" /\ worker = "up"
    /\ TakeJob(c, e)
    /\ RunStarts(e)
    /\ cur' = [cur EXCEPT ![e] = c]
    /\ tally' = tally + 1
    /\ UNCHANGED <<timer, term, tooLarge, workdir, result, litter, faults,
                   driver, call, answer, worker, value>>

Serving(e) == ServiceStep(e) /\ UNCHANGED <<queueVars, serviceVars>>
Computing(e) == ProgramStep(e) /\ UNCHANGED <<queueVars, serviceVars>>

FreeSlot(e) ==
    /\ Forget({e})
    /\ cur' = [cur EXCEPT ![e] = NoSub]

\* Variant: a failed job is not counted.
EndSampleUncounted(e) ==
    /\ driver = "redis" /\ RunEnded(e)
    /\ LET c == cur[e] IN
         IF run[e] = "returned"
         THEN /\ CompleteJob(c, e)
              /\ value' = IF Owns(e, c) THEN [value EXCEPT ![c] = result[e]] ELSE value
              /\ tally' = tally - 1
         ELSE FailAttempt(c, e) /\ UNCHANGED <<value, tally>>
    /\ FreeSlot(e)
    /\ UNCHANGED <<faults, driver, call, answer, worker>>

\* Variant: the result is stored without the job's lock.
EndSampleUnowned(e) ==
    /\ driver = "redis" /\ RunEnded(e)
    /\ LET c == cur[e] IN
         IF run[e] = "returned"
         THEN CompleteJob(c, e) /\ value' = [value EXCEPT ![c] = result[e]]
         ELSE FailAttempt(c, e) /\ UNCHANGED value
    /\ tally' = tally - 1
    /\ FreeSlot(e)
    /\ UNCHANGED <<faults, driver, call, answer, worker>>

\* The callback returns the result, whatever its status, or throws; a job that
\* lost its lock keeps what the other executor makes of it.
EndSample(e) ==
    /\ driver = "redis" /\ RunEnded(e)
    /\ LET c == cur[e] IN
         IF run[e] = "returned"
         THEN /\ CompleteJob(c, e)
              /\ value' = IF Owns(e, c) THEN [value EXCEPT ![c] = result[e]] ELSE value
         ELSE FailAttempt(c, e) /\ UNCHANGED value
    /\ tally' = tally - 1
    /\ FreeSlot(e)
    /\ UNCHANGED <<faults, driver, call, answer, worker>>

PromoteSample(c) ==
    /\ PromoteJob(c)
    /\ UNCHANGED <<sandboxVars, faults, serviceVars>>

\* The stalled check: the holder is gone, or did not renew its lock in time.
MoveStalledSample(c) ==
    /\ worker = "up"
    /\ StallJob(c)
    /\ IF \E e \in Executors : holder[c] = e /\ cur[e] = c
       THEN Suffer("lockLoss")
       ELSE UNCHANGED faults
    /\ UNCHANGED <<sandboxVars, serviceVars>>

-----------------------------------------------------------------------------
(* The inline driver: processor.runSample in the API process.              *)

StartInline(e, c) ==
    /\ driver = "inline"
    /\ MoveCall(c, "add", "waiting")
    /\ RunStarts(e)
    /\ cur' = [cur EXCEPT ![e] = c]
    /\ UNCHANGED <<timer, term, tooLarge, workdir, result, litter, faults, queueVars,
                   driver, answer, worker, value, tally>>

EndInline(e) ==
    /\ driver = "inline" /\ RunEnded(e)
    /\ LET c == cur[e] IN
         /\ MoveCall(c, "waiting", IF run[e] = "returned" THEN "answered" ELSE "failed")
         /\ answer' = [answer EXCEPT ![c] = IF run[e] = "returned" THEN result[e] ELSE @]
    /\ FreeSlot(e)
    /\ UNCHANGED <<queueVars, faults, driver, worker, value, tally>>

-----------------------------------------------------------------------------
(* Processes.                                                              *)

\* The API process stops: its calls are gone, and inline runs with them.
ApiStops ==
    /\ \E c \in Submissions : call[c] \in {"add", "waiting"}
    /\ call' = [c \in Submissions |->
                  IF call[c] \in {"add", "waiting"} THEN "gone" ELSE call[c]]
    /\ IF driver = "inline"
       THEN /\ Suffer("apiCrash") \/ \E e \in Executors : InputUnread(e)
            /\ Forget(Executors)
            /\ cur' = [e \in Executors |-> NoSub]
       ELSE UNCHANGED <<sandboxVars, cur, faults>>
    /\ UNCHANGED <<queueVars, driver, answer, worker, value, tally>>

\* Variant: what the slots ran is not forgotten.
WorkerDiesHolding ==
    /\ driver = "redis" /\ worker # "down"
    /\ Suffer("workerCrash")
    /\ worker' = "down"
    /\ Forget(Executors)
    /\ tally' = 0
    /\ UNCHANGED <<queueVars, driver, call, answer, cur, value>>

\* The worker dies with its runs, of the host's doing or of one of its programs;
\* the jobs stay active in Redis.
WorkerDies ==
    /\ driver = "redis" /\ worker # "down"
    /\ Suffer("workerCrash") \/ \E e \in Executors : InputUnread(e)
    /\ worker' = "down"
    /\ Forget(Executors)
    /\ cur' = [e \in Executors |-> NoSub]
    /\ tally' = 0
    /\ UNCHANGED <<queueVars, driver, call, answer, value>>

\* onModuleDestroy: worker.close() takes no more jobs and waits for the runs.
WorkerCloses ==
    /\ driver = "redis" /\ worker = "up"
    /\ Suffer("shutdown")
    /\ worker' = "closing"
    /\ UNCHANGED <<sandboxVars, queueVars, driver, call, answer, cur, value, tally>>

\* Variant: the process exits with runs going on.
WorkerExitsAtOnce ==
    /\ worker = "closing"
    /\ worker' = "down"
    /\ tally' = 0
    /\ Forget(Executors)
    /\ cur' = [e \in Executors |-> NoSub]
    /\ UNCHANGED <<queueVars, faults, driver, call, answer, value>>

WorkerExits ==
    /\ worker = "closing"
    /\ \A e \in Executors : run[e] = "idle"
    /\ worker' = "down"
    /\ tally' = 0
    /\ UNCHANGED <<sandboxVars, queueVars, faults, driver, call, answer, cur, value>>

\* restart: unless-stopped, or the next deployment.
WorkerBoots ==
    /\ worker = "down"
    /\ worker' = "up"
    /\ UNCHANGED <<sandboxVars, queueVars, faults, driver, call, answer, cur, value, tally>>

-----------------------------------------------------------------------------
CallEnded(c) == call[c] \in {"answered", "notFound", "failed", "gone"}

Quiescent ==
    /\ \A c \in Submissions : CallEnded(c) /\ ~Live(c)
    /\ \A e \in Executors : run[e] = "idle"
    /\ worker = "up"

Rest == Quiescent /\ UNCHANGED vars

Next ==
    \/ \E c \in Submissions :
         \/ LookupSample(c) \/ AddSample(c) \/ AddSampleFails(c)
         \/ SampleResult(c) \/ SampleTimesOut(c)
         \/ PromoteSample(c) \/ MoveStalledSample(c)
    \/ \E e \in Executors :
         \/ Serving(e) \/ Computing(e) \/ EndSample(e) \/ EndInline(e)
         \/ \E c \in Submissions : StartSample(e, c) \/ StartInline(e, c)
    \/ ApiStops \/ WorkerDies \/ WorkerCloses \/ WorkerExits \/ WorkerBoots
    \/ Rest

Spec == Init /\ [][Next]_vars

-----------------------------------------------------------------------------
(* Safety.                                                                 *)

\* How often a process died with the runs in it.
ProcessDeaths == faults["workerCrash"] + faults["apiCrash"] + faults["unreadInput"]

\* A run's directory and timer do not outlive it: an idle or settled executor
\* has neither, so no SIGTERM goes to a child that is gone, and directories are
\* left behind only by a failing removal or by a process that died.
NothingLeftBehind ==
    /\ \A e \in Executors :
         /\ timer[e] => run[e] = "running"
         /\ workdir[e] => run[e] \in {"prepare", "running", "cleanup"}
    /\ litter <= faults["host"]
                   + ProcessDeaths * Cardinality(Executors)

\* What a user's program does is a result and uses up no attempt of its job, not
\* even when it takes the worker with it: only failures of the host's files do.
OnlyHostFailsJobs ==
    \A c \in Submissions : attemptsMade[c] <= faults["host"]

\* A job is redelivered only after the worker died or lost a lock; a worker that
\* is closed first finishes what it runs.
CloseDrains ==
    \A c \in Submissions :
        stalledCount[c] <=
            faults["workerCrash"] + faults["unreadInput"] + faults["lockLoss"]

\* The job counters of the worker add up: what was started is completed, failed
\* or running in one of its slots.
CountersAddUp ==
    driver = "redis" =>
        tally = Cardinality({e \in Executors : run[e] # "idle"})

\* The result a call was answered with is the one its job keeps: a second run
\* of the same job, by a retry or after a lost lock, does not change it.
AnswerIsKept ==
    \A c \in Submissions :
        driver = "redis" /\ call[c] = "answered" =>
            /\ jobState[c] = "completed"
            /\ value[c] = answer[c] /\ answer[c] # NoResult

-----------------------------------------------------------------------------
(* Liveness.  The code's own steps are fair; when a child ends is not in   *)
(* its hands, not even after SIGTERM.                                      *)

Fairness ==
    /\ \A e \in Executors :
         /\ WF_vars(Serving(e))
         /\ WF_vars(EndSample(e) \/ EndInline(e))
         /\ WF_vars(\E c \in Submissions : StartSample(e, c))
    /\ \A c \in Submissions :
         /\ WF_vars(AddSample(c) \/ \E e \in Executors : StartInline(e, c))
         /\ WF_vars(SampleResult(c) \/ SampleTimesOut(c))
         /\ WF_vars(PromoteSample(c))
         /\ WF_vars(MoveStalledSample(c) /\ faults' = faults)
    /\ WF_vars(WorkerExits \/ WorkerBoots)

FairSpec == Spec /\ Fairness

\* With the redis driver every call that was queued is answered, by a result or
\* an error, also when its program never ends or the worker is down.
CallsEnd ==
    driver = "redis" => \A c \in Submissions : call[c] = "waiting" ~> CallEnded(c)

\* A program that is sent SIGTERM ends.
ProgramsObey == \A e \in Executors : term[e] ~> ~term[e]

\* If programs obey SIGTERM every queued job ends, its caller waiting or not,
\* through retries, crashes and restarts of the worker: no slot is held for ever.
JobsEnd ==
    ProgramsObey => \A c \in Submissions : Live(c) ~> ~Live(c)

-----------------------------------------------------------------------------
(* What the documentation says and the code does not do.                   *)

\* README.md: the sandbox limits the time of a run, so every run ends.
TimeIsLimited ==
    \A e \in Executors : run[e] = "running" ~> run[e] # "running"

=============================================================================
