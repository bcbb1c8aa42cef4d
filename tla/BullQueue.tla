------------------------------ MODULE BullQueue ------------------------------
(***************************************************************************)
(* What the judge uses of a BullMQ queue in Redis: submission jobs whose   *)
(* id is the submission's id, retried with backoff, locked by the executor *)
(* that runs them, recovered by the stalled check and kept for a while     *)
(* after they end.  The options are those of JudgeQueueService; the state  *)
(* machine behind them is the library's.                                   *)
(***************************************************************************)
EXTENDS JudgeBase

CONSTANTS
    NoHolder,       \* nobody holds the job's lock
    Attempts,       \* JUDGE_JOB_ATTEMPTS
    MaxStalled      \* the worker's maxStalledCount

ASSUME QueueAssumption ==
    /\ Attempts \in Nat \ {0}
    /\ MaxStalled \in Nat
    /\ NoHolder \notin Executors

VARIABLES jobState, attemptsMade, stalledCount, holder

queueVars == <<jobState, attemptsMade, stalledCount, holder>>

JobState == {"none", "waiting", "active", "delayed", "completed", "failed"}

QueueTypeOK ==
    /\ jobState \in [Submissions -> JobState]
    /\ attemptsMade \in [Submissions -> 0..Attempts]
    /\ stalledCount \in [Submissions -> 0..(MaxStalled + 1)]
    /\ holder \in [Submissions -> Executors \union {NoHolder}]
    /\ \A j \in Submissions :
         /\ jobState[j] # "active" => holder[j] = NoHolder
         /\ jobState[j] = "active" => holder[j] \in Executors
         /\ jobState[j] \in {"waiting", "active", "delayed"} =>
                attemptsMade[j] < Attempts /\ stalledCount[j] <= MaxStalled

QueueInit ==
    /\ jobState = [j \in Submissions |-> "none"]
    /\ attemptsMade = [j \in Submissions |-> 0]
    /\ stalledCount = [j \in Submissions |-> 0]
    /\ holder = [j \in Submissions |-> NoHolder]

\* The job will still be run.
Live(j) == jobState[j] \in {"waiting", "active", "delayed"}

\* The job's attempts or stalls are used up: it has failed for good, and a
\* failed job that was removed is remembered to have.
GaveUp(j) == attemptsMade[j] = Attempts \/ stalledCount[j] > MaxStalled

\* Variant: the job id does not deduplicate.
AddJobAgain(j) ==
    /\ jobState' = [jobState EXCEPT ![j] = "waiting"]
    /\ attemptsMade' = [attemptsMade EXCEPT ![j] = 0]
    /\ stalledCount' = [stalledCount EXCEPT ![j] = 0]
    /\ holder' = [holder EXCEPT ![j] = NoHolder]

\* queue.add with jobId: a job with the same id, ended or not, makes it a no-op.
AddJob(j) ==
    IF jobState[j] = "none"
    THEN /\ jobState' = [jobState EXCEPT ![j] = "waiting"]
         /\ attemptsMade' = [attemptsMade EXCEPT ![j] = 0]
         /\ stalledCount' = [stalledCount EXCEPT ![j] = 0]
         /\ UNCHANGED holder
    ELSE UNCHANGED queueVars

TakeJob(j, h) ==
    /\ jobState[j] = "waiting"
    /\ jobState' = [jobState EXCEPT ![j] = "active"]
    /\ holder' = [holder EXCEPT ![j] = h]
    /\ UNCHANGED <<attemptsMade, stalledCount>>

\* The job's lock is still the caller's; without it a result is refused.
Owns(h, j) == jobState[j] = "active" /\ holder[j] = h

CompleteJob(j, h) ==
    IF Owns(h, j)
    THEN /\ jobState' = [jobState EXCEPT ![j] = "completed"]
         /\ holder' = [holder EXCEPT ![j] = NoHolder]
         /\ UNCHANGED <<attemptsMade, stalledCount>>
    ELSE UNCHANGED queueVars

\* Variant: one attempt too many.
FailAttemptLate(j, h) ==
    IF Owns(h, j)
    THEN /\ attemptsMade' = [attemptsMade EXCEPT ![j] = @ + 1]
         /\ jobState' = [jobState EXCEPT ![j] =
                IF attemptsMade[j] < Attempts THEN "delayed" ELSE "failed"]
         /\ holder' = [holder EXCEPT ![j] = NoHolder]
         /\ UNCHANGED stalledCount
    ELSE UNCHANGED queueVars

\* Variant: the last attempt is not made.
FailAttemptEarly(j, h) ==
    IF Owns(h, j)
    THEN /\ attemptsMade' = [attemptsMade EXCEPT ![j] = @ + 1]
         /\ jobState' = [jobState EXCEPT ![j] =
                IF attemptsMade[j] + 2 < Attempts THEN "delayed" ELSE "failed"]
         /\ holder' = [holder EXCEPT ![j] = NoHolder]
         /\ UNCHANGED stalledCount
    ELSE UNCHANGED queueVars

\* The job threw: retried after a backoff while attempts are left.
FailAttempt(j, h) ==
    IF Owns(h, j)
    THEN /\ attemptsMade' = [attemptsMade EXCEPT ![j] = @ + 1]
         /\ jobState' = [jobState EXCEPT ![j] =
                IF attemptsMade[j] + 1 < Attempts THEN "delayed" ELSE "failed"]
         /\ holder' = [holder EXCEPT ![j] = NoHolder]
         /\ UNCHANGED stalledCount
    ELSE UNCHANGED queueVars

\* The backoff is over.
PromoteJob(j) ==
    /\ jobState[j] = "delayed"
    /\ jobState' = [jobState EXCEPT ![j] = "waiting"]
    /\ UNCHANGED <<attemptsMade, stalledCount, holder>>

\* The stalled check finds the lock of an active job expired.
StallJob(j) ==
    /\ jobState[j] = "active"
    /\ stalledCount' = [stalledCount EXCEPT ![j] = @ + 1]
    /\ jobState' = [jobState EXCEPT ![j] =
           IF stalledCount[j] + 1 > MaxStalled THEN "failed" ELSE "waiting"]
    /\ holder' = [holder EXCEPT ![j] = NoHolder]
    /\ UNCHANGED attemptsMade

\* removeOnComplete and removeOnFail: an ended job is forgotten.
RemoveJob(j) ==
    /\ jobState[j] \in {"completed", "failed"}
    /\ jobState' = [jobState EXCEPT ![j] = "none"]
    /\ UNCHANGED <<attemptsMade, stalledCount, holder>>

=============================================================================
