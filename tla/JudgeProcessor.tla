--------------------------- MODULE JudgeProcessor ---------------------------
(***************************************************************************)
(* JudgeJobProcessor: what one execution of a judge job does to the        *)
(* submission row and to the owner's statistics.  An execution runs in an  *)
(* executor (one concurrency slot of a judge worker); every await of       *)
(* processSubmission that touches shared state is a step of its own, so    *)
(* the steps of two executions, and the steps of everything else that      *)
(* writes the same row, interleave.                                        *)
(***************************************************************************)
EXTENDS JudgeBase, SubmissionStatus

CONSTANTS
    Users, Problems,
    UserOf,         \* userId of a submission
    ProblemOf,      \* problemId of a submission
    NumCases,       \* number of test cases of a problem
    JudgeResults    \* sandbox results considered

ASSUME OwnershipAssumption ==
    /\ UserOf \in [Submissions -> Users]
    /\ ProblemOf \in [Submissions -> Problems]
    /\ NumCases \in [Problems -> Nat]
ASSUME ResultsAssumption == JudgeResults \subseteq JudgeStatus

VARIABLES
    status, finished, score,   \* columns of the row; finished: finishedAt != null
    solvedCount,               \* User.solvedCount (rating is ten times it)
    pc, cur, left, final       \* per executor: control, submission, test cases
                               \*   left to run, finalStatus

rowVars  == <<status, finished, score>>
execVars == <<pc, cur, left, final>>
processorVars == <<rowVars, solvedCount, execVars, faults>>

ExecPc ==
    {"idle", "read", "mark", "run", "write", "credit", "catch", "returned", "threw"}

ProcessorTypeOK ==
    /\ status \in [Submissions -> SubmissionStatus \union {Absent}]
    /\ finished \in [Submissions -> BOOLEAN]
    /\ score \in [Submissions -> {0, 100}]
    /\ solvedCount \in [Users -> Nat]
    /\ pc \in [Executors -> ExecPc]
    /\ cur \in [Executors -> Submissions \union {NoSub}]
    /\ left \in [Executors -> Nat]
    /\ final \in [Executors -> TERMINAL_SUBMISSION_STATUSES]
    /\ faults \in [FaultKinds -> Nat]
    /\ \A e \in Executors : pc[e] # "idle" => cur[e] \in Submissions

ProcessorInit ==
    /\ status = [s \in Submissions |-> Absent]
    /\ finished = [s \in Submissions |-> FALSE]
    /\ score = [s \in Submissions |-> 0]
    /\ solvedCount = [u \in Users |-> 0]
    /\ pc = [e \in Executors |-> "idle"]
    /\ cur = [e \in Executors |-> NoSub]
    /\ left = [e \in Executors |-> 0]
    /\ final = [e \in Executors |-> "ACCEPTED"]
    /\ faults = [k \in FaultKinds |-> 0]

-----------------------------------------------------------------------------
Goto(e, l) == pc' = [pc EXCEPT ![e] = l]

\* The guard that makes re-delivery of a judged submission a no-op.
IsFinished(s) == status[s] \in TERMINAL_SUBMISSION_STATUSES /\ finished[s]

\* Variant: finishedAt is forgotten.
WriteTerminalUnfinished(s, st, sc) ==
    /\ status' = [status EXCEPT ![s] = st]
    /\ score' = [score EXCEPT ![s] = sc]
    /\ UNCHANGED finished

\* prisma.submission.update with a terminal status, a score and finishedAt.
WriteTerminal(s, st, sc) ==
    /\ status' = [status EXCEPT ![s] = st]
    /\ score' = [score EXCEPT ![s] = sc]
    /\ finished' = [finished EXCEPT ![s] = TRUE]

\* Variant: only earlier submissions are counted.
AcceptedEarlier(s) ==
    \E t \in Submissions :
        /\ t < s
        /\ UserOf[t] = UserOf[s]
        /\ ProblemOf[t] = ProblemOf[s]
        /\ status[t] = "ACCEPTED"

\* previousAccepted > 0 in updateUserStatsIfFirstAccepted.
AcceptedBefore(s) ==
    \E t \in Submissions \ {s} :
        /\ UserOf[t] = UserOf[s]
        /\ ProblemOf[t] = ProblemOf[s]
        /\ status[t] = "ACCEPTED"

-----------------------------------------------------------------------------
\* processSubmission is called for s.
Start(e, s) ==
    /\ pc[e] = "idle"
    /\ Goto(e, "read")
    /\ cur' = [cur EXCEPT ![e] = s]
    /\ UNCHANGED <<rowVars, solvedCount, left, final, faults>>

\* The row read is terminal and finished: return without judging.
SkipTerminal(e) ==
    /\ pc[e] = "read"
    /\ IsFinished(cur[e])
    /\ Goto(e, "returned")
    /\ UNCHANGED <<rowVars, solvedCount, cur, left, final, faults>>

\* Variant: a redelivered submission is judged again.
ReadAny(e) ==
    /\ pc[e] = "read"
    /\ Goto(e, "mark")
    /\ UNCHANGED <<rowVars, solvedCount, cur, left, final, faults>>

\* The row read is open; what was read is not looked at again.
ReadOpen(e) ==
    /\ pc[e] = "read"
    /\ ~IsFinished(cur[e])
    /\ Goto(e, "mark")
    /\ UNCHANGED <<rowVars, solvedCount, cur, left, final, faults>>

\* status = RUNNING; score and finishedAt keep the values of an earlier attempt.
MarkRunning(e) ==
    /\ pc[e] = "mark"
    /\ Goto(e, "run")
    /\ status' = [status EXCEPT ![cur[e]] = "RUNNING"]
    /\ left' = [left EXCEPT ![e] = NumCases[ProblemOf[cur[e]]]]
    /\ final' = [final EXCEPT ![e] = "ACCEPTED"]
    /\ UNCHANGED <<finished, score, solvedCount, cur, faults>>

\* The database fails outside the try block: the job throws, the row is as it was.
EarlyFailure(e) ==
    /\ pc[e] \in {"read", "mark"}
    /\ Suffer("workerDb")
    /\ Goto(e, "threw")
    /\ UNCHANGED <<rowVars, solvedCount, cur, left, final>>

\* Variant: a loop over no test case accepts.
NoTestCasesAccepts(e) ==
    /\ pc[e] = "run"
    /\ NumCases[ProblemOf[cur[e]]] = 0
    /\ Goto(e, "write")
    /\ UNCHANGED <<rowVars, solvedCount, cur, left, final, faults>>

\* A problem without test cases.
NoTestCases(e) ==
    /\ pc[e] = "run"
    /\ NumCases[ProblemOf[cur[e]]] = 0
    /\ WriteTerminal(cur[e], "RUNTIME_ERROR", 0)
    /\ Goto(e, "returned")
    /\ UNCHANGED <<solvedCount, cur, left, final, faults>>

\* One test case in the sandbox; the first that is not ACCEPTED ends the loop.
RunCase(e) ==
    /\ pc[e] = "run"
    /\ left[e] > 0
    /\ \E result \in JudgeResults :
         /\ final' = [final EXCEPT ![e] = mapJudgeStatus(result)]
         /\ left' = [left EXCEPT ![e] = @ - 1]
         /\ Goto(e, IF mapJudgeStatus(result) # "ACCEPTED" \/ left[e] = 1
                    THEN "write" ELSE "run")
    /\ UNCHANGED <<rowVars, solvedCount, cur, faults>>

\* Variant: a rejected submission keeps the score it had.
WriteVerdictKeepingScore(e) ==
    /\ pc[e] = "write"
    /\ WriteTerminal(cur[e], final[e],
                     IF final[e] = "ACCEPTED" THEN 100 ELSE score[cur[e]])
    /\ Goto(e, IF final[e] = "ACCEPTED" THEN "credit" ELSE "returned")
    /\ UNCHANGED <<solvedCount, cur, left, final, faults>>

\* The verdict, its score and finishedAt; only an accepted one goes on.
WriteVerdict(e) ==
    /\ pc[e] = "write"
    /\ WriteTerminal(cur[e], final[e], IF final[e] = "ACCEPTED" THEN 100 ELSE 0)
    /\ Goto(e, IF final[e] = "ACCEPTED" THEN "credit" ELSE "returned")
    /\ UNCHANGED <<solvedCount, cur, left, final, faults>>

\* Variant: every accepted submission is credited.
CreditAccepted(e) ==
    /\ pc[e] = "credit"
    /\ solvedCount' = [solvedCount EXCEPT ![UserOf[cur[e]]] = @ + 1]
    /\ Goto(e, "returned")
    /\ UNCHANGED <<rowVars, cur, left, final, faults>>

\* updateUserStatsIfFirstAccepted: the count and the increment are one
\* transaction; the increment is atomic in the database, so the count decides.
CreditFirstAccepted(e) ==
    /\ pc[e] = "credit"
    /\ solvedCount' = IF AcceptedBefore(cur[e])
                      THEN solvedCount
                      ELSE [solvedCount EXCEPT ![UserOf[cur[e]]] = @ + 1]
    /\ Goto(e, "returned")
    /\ UNCHANGED <<rowVars, cur, left, final, faults>>

\* Anything in the try block throws: the database, the sandbox's working
\* directory, or the transaction of the credit after the verdict was written.
JudgingThrows(e) ==
    /\ pc[e] \in {"run", "write", "credit"}
    /\ Suffer("workerDb")
    /\ Goto(e, "catch")
    /\ UNCHANGED <<rowVars, solvedCount, cur, left, final>>

\* Variant: the score of a verdict already written is left.
WriteFailureKeepingScore(e) ==
    /\ pc[e] = "catch"
    /\ WriteTerminal(cur[e], "RUNTIME_ERROR", score[cur[e]])
    /\ Goto(e, "threw")
    /\ UNCHANGED <<solvedCount, cur, left, final, faults>>

\* The catch block: a terminal RUNTIME_ERROR, then the error is thrown again.
WriteFailure(e) ==
    /\ pc[e] = "catch"
    /\ WriteTerminal(cur[e], "RUNTIME_ERROR", 0)
    /\ Goto(e, "threw")
    /\ UNCHANGED <<solvedCount, cur, left, final, faults>>

FailureWriteThrows(e) ==
    /\ pc[e] = "catch"
    /\ Suffer("workerDb")
    /\ Goto(e, "threw")
    /\ UNCHANGED <<rowVars, solvedCount, cur, left, final>>

Processing(e) ==
    \/ SkipTerminal(e) \/ ReadOpen(e) \/ MarkRunning(e) \/ EarlyFailure(e)
    \/ NoTestCases(e) \/ RunCase(e) \/ WriteVerdict(e) \/ CreditFirstAccepted(e)
    \/ JudgingThrows(e) \/ WriteFailure(e) \/ FailureWriteThrows(e)

\* The executor leaves the submission it holds.
Release(e) ==
    /\ pc' = [pc EXCEPT ![e] = "idle"]
    /\ cur' = [cur EXCEPT ![e] = NoSub]
    /\ left' = [left EXCEPT ![e] = 0]
    /\ final' = [final EXCEPT ![e] = "ACCEPTED"]
    /\ UNCHANGED <<rowVars, solvedCount>>

\* processSubmission has returned or thrown.
Ended(e) == pc[e] \in {"returned", "threw"}

=============================================================================
