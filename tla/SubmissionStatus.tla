-------------------------- MODULE SubmissionStatus --------------------------
(***************************************************************************)
(* The status column of a submission (submission-status.ts) and the        *)
(* translation of a sandbox result into it (judge-job.processor.ts).       *)
(***************************************************************************)

\* Values the code declares; COMPILING, MLE and COMPILE_ERROR are declared
\* and never written.
SubmissionStatus ==
    {"PENDING", "COMPILING", "RUNNING", "ACCEPTED", "WRONG_ANSWER", "TLE",
     "MLE", "RUNTIME_ERROR", "COMPILE_ERROR"}

TERMINAL_SUBMISSION_STATUSES ==
    {"ACCEPTED", "WRONG_ANSWER", "TLE", "MLE", "RUNTIME_ERROR", "COMPILE_ERROR"}

\* No row with this id has been created yet.
Absent == "ABSENT"

\* JudgeResult['status'], what one sandbox run of one test case reports.
JudgeStatus ==
    {"ACCEPTED", "WRONG_ANSWER", "TIME_LIMIT_EXCEEDED", "RUNTIME_ERROR",
     "INTERNAL_ERROR"}

mapJudgeStatus(result) ==
    CASE result = "ACCEPTED"            -> "ACCEPTED"
      [] result = "WRONG_ANSWER"        -> "WRONG_ANSWER"
      [] result = "TIME_LIMIT_EXCEEDED" -> "TLE"
      [] OTHER                          -> "RUNTIME_ERROR"

=============================================================================
