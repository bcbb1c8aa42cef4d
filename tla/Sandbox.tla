------------------------------- MODULE Sandbox -------------------------------
(***************************************************************************)
(* JudgeService.run: one run of a program in docker, for every executor.   *)
(* The docker client is a child process.  A timer and an output limit send *)
(* it SIGTERM, and what it does about that is its own business: its close  *)
(* event alone settles the run, after which the working directory goes.    *)
(***************************************************************************)
EXTENDS JudgeBase, SubmissionStatus

VARIABLES
    run,        \* where the run of an executor is
    timer,      \* the time limit's timer is armed
    term,       \* SIGTERM was sent to the child
    tooLarge,   \* outputTooLarge
    workdir,    \* the run's temporary directory exists
    result,     \* the status of the JudgeResult
    litter      \* temporary directories nobody will remove

runVars == <<run, timer, term, tooLarge, workdir, result>>
sandboxVars == <<runVars, litter>>

NoResult == "none"
RunPc == {"idle", "start", "prepare", "running", "cleanup", "returned", "threw"}

SandboxTypeOK ==
    /\ run \in [Executors -> RunPc]
    /\ timer \in [Executors -> BOOLEAN]
    /\ term \in [Executors -> BOOLEAN]
    /\ tooLarge \in [Executors -> BOOLEAN]
    /\ workdir \in [Executors -> BOOLEAN]
    /\ result \in [Executors -> JudgeStatus \union {NoResult}]
    /\ litter \in Nat
    /\ \A e \in Executors : run[e] \in {"cleanup", "returned"} => result[e] # NoResult

SandboxInit ==
    /\ run = [e \in Executors |-> "idle"]
    /\ timer = [e \in Executors |-> FALSE]
    /\ term = [e \in Executors |-> FALSE]
    /\ tooLarge = [e \in Executors |-> FALSE]
    /\ workdir = [e \in Executors |-> FALSE]
    /\ result = [e \in Executors |-> NoResult]
    /\ litter = 0

-----------------------------------------------------------------------------
Reach(e, l) == run' = [run EXCEPT ![e] = l]

\* The code's names of a language; any other name is not supported.
normalizeLanguage(name) ==
    CASE name \in {"js", "javascript"}           -> "javascript"
      [] name \in {"py", "python", "python3"}    -> "python"
      [] name \in {"c"}                          -> "c"
      [] name \in {"cpp", "c++"}                 -> "cpp"
      [] OTHER                                   -> NoResult

\* How docker can end: the runner exits 0 when solve returned, otherwise with
\* another code (also 143 for a container that dies of the forwarded SIGTERM);
\* only a client that does not handle SIGTERM ends by that signal.
Exits(e) == {"zero", "code"} \union (IF term[e] THEN {"SIGTERM"} ELSE {})

\* killed: the client ended by SIGTERM.  unavailable: ENOENT, or docker's own
\* messages about its daemon or image, in the error or in stderr.
mapExecutionError(killed, unavailable) ==
    IF killed THEN "TIME_LIMIT_EXCEEDED"
    ELSE IF unavailable THEN "INTERNAL_ERROR" ELSE "RUNTIME_ERROR"

\* What the error of a failed file operation or of spawn is mapped to.
HostError(r) == \E missing \in BOOLEAN : r = mapExecutionError(FALSE, missing)

-----------------------------------------------------------------------------
\* run(): an unsupported language ends the run before it has a directory.
RunUnsupported(e, name) ==
    /\ run[e] = "start"
    /\ normalizeLanguage(name) = NoResult
    /\ result' = [result EXCEPT ![e] = "INTERNAL_ERROR"]
    /\ Reach(e, "returned")
    /\ UNCHANGED <<timer, term, tooLarge, workdir, litter, faults>>

MakeWorkdir(e, name) ==
    /\ run[e] = "start"
    /\ normalizeLanguage(name) # NoResult
    /\ workdir' = [workdir EXCEPT ![e] = TRUE]
    /\ Reach(e, "prepare")
    /\ UNCHANGED <<timer, term, tooLarge, result, litter, faults>>

\* mkdtemp rejects, outside the try block: run throws.
MakeWorkdirFails(e) ==
    /\ run[e] = "start"
    /\ Suffer("host")
    /\ Reach(e, "threw")
    /\ UNCHANGED <<timer, term, tooLarge, workdir, result, litter>>

\* The source files are written, docker is spawned and the timer armed.
PrepareAndSpawn(e) ==
    /\ run[e] = "prepare"
    /\ timer' = [timer EXCEPT ![e] = TRUE]
    /\ Reach(e, "running")
    /\ UNCHANGED <<term, tooLarge, workdir, result, litter, faults>>

\* Variant: a failed write leaves the try block.
PrepareThrows(e) ==
    /\ run[e] = "prepare"
    /\ Suffer("host")
    /\ Reach(e, "threw")
    /\ UNCHANGED <<timer, term, tooLarge, workdir, result, litter>>

\* A source file cannot be written, or docker cannot be spawned ('error').
PrepareFails(e) ==
    /\ run[e] = "prepare"
    /\ Suffer("host")
    /\ \E r \in JudgeStatus : HostError(r) /\ result' = [result EXCEPT ![e] = r]
    /\ Reach(e, "cleanup")
    /\ UNCHANGED <<timer, term, tooLarge, workdir, litter>>

\* Variant: the timer only marks the run.
TimerMarks(e) ==
    /\ run[e] = "running" /\ timer[e]
    /\ timer' = [timer EXCEPT ![e] = FALSE]
    /\ UNCHANGED <<run, term, tooLarge, workdir, result, litter, faults>>

\* The time limit: SIGTERM, once.
TimerFires(e) ==
    /\ run[e] = "running" /\ timer[e]
    /\ timer' = [timer EXCEPT ![e] = FALSE]
    /\ term' = [term EXCEPT ![e] = TRUE]
    /\ UNCHANGED <<run, tooLarge, workdir, result, litter, faults>>

\* A chunk takes stdout or stderr past MAX_OUTPUT_BYTES.
OutputExceeds(e) ==
    /\ run[e] = "running" /\ ~tooLarge[e]
    /\ tooLarge' = [tooLarge EXCEPT ![e] = TRUE]
    /\ term' = [term EXCEPT ![e] = TRUE]
    /\ UNCHANGED <<run, timer, workdir, result, litter, faults>>

\* The status of a run whose child ended so; an exit code 0 counts whatever
\* was sent before, and its output is compared.
Settles(exit, r) ==
    CASE exit = "zero"    -> r \in {"ACCEPTED", "WRONG_ANSWER"}
      [] exit = "code"    -> \E docker \in BOOLEAN : r = mapExecutionError(FALSE, docker)
      [] exit = "SIGTERM" -> r = mapExecutionError(TRUE, FALSE)

\* The flags of a run that is settled are never read again.
Unterminated(e) ==
    /\ term' = [term EXCEPT ![e] = FALSE]
    /\ tooLarge' = [tooLarge EXCEPT ![e] = FALSE]

\* Variant: a program that fails makes the run throw.
ChildClosesThrowing(e) ==
    /\ run[e] = "running"
    /\ timer' = [timer EXCEPT ![e] = FALSE]
    /\ \E exit \in Exits(e), r \in JudgeStatus :
         /\ Settles(exit, r)
         /\ result' = [result EXCEPT ![e] = r]
         /\ Reach(e, IF r = "RUNTIME_ERROR" THEN "threw" ELSE "cleanup")
         /\ workdir' = [workdir EXCEPT ![e] = r # "RUNTIME_ERROR"]
    /\ Unterminated(e)
    /\ UNCHANGED <<litter, faults>>

\* 'close': the timer is cleared and the promise settled.
ChildCloses(e) ==
    /\ run[e] = "running"
    /\ timer' = [timer EXCEPT ![e] = FALSE]
    /\ Unterminated(e)
    /\ \E exit \in Exits(e), r \in JudgeStatus :
         Settles(exit, r) /\ result' = [result EXCEPT ![e] = r]
    /\ Reach(e, "cleanup")
    /\ UNCHANGED <<workdir, litter, faults>>

\* The child ends before it has taken its input: the write fails, and nobody
\* listens for the 'error' of child.stdin, which ends the service's process.
InputUnread(e) == run[e] = "running" /\ Suffer("unreadInput")

\* The finally block.
RemoveWorkdir(e) ==
    /\ run[e] = "cleanup"
    /\ workdir' = [workdir EXCEPT ![e] = FALSE]
    /\ Reach(e, "returned")
    /\ UNCHANGED <<timer, term, tooLarge, result, litter, faults>>

\* rm rejects in the finally block: the result is lost and run throws.
RemoveWorkdirFails(e) ==
    /\ run[e] = "cleanup"
    /\ Suffer("host")
    /\ workdir' = [workdir EXCEPT ![e] = FALSE]
    /\ litter' = litter + 1
    /\ Reach(e, "threw")
    /\ UNCHANGED <<timer, term, tooLarge, result>>

\* What the service does by itself, and what waits for the program.
ServiceStep(e) ==
    \/ \E name \in {"python", "rust"} : RunUnsupported(e, name) \/ MakeWorkdir(e, name)
    \/ MakeWorkdirFails(e) \/ PrepareAndSpawn(e) \/ PrepareFails(e)
    \/ TimerFires(e) \/ RemoveWorkdir(e) \/ RemoveWorkdirFails(e)
ProgramStep(e) == OutputExceeds(e) \/ ChildCloses(e)

-----------------------------------------------------------------------------
RunStarts(e) == run[e] = "idle" /\ Reach(e, "start")
RunEnded(e) == run[e] \in {"returned", "threw"}

\* The runs of E are over or gone with their process, which leaves directories.
Forget(E) ==
    /\ run' = [e \in Executors |-> IF e \in E THEN "idle" ELSE run[e]]
    /\ timer' = [e \in Executors |-> e \notin E /\ timer[e]]
    /\ term' = [e \in Executors |-> e \notin E /\ term[e]]
    /\ tooLarge' = [e \in Executors |-> e \notin E /\ tooLarge[e]]
    /\ workdir' = [e \in Executors |-> e \notin E /\ workdir[e]]
    /\ result' = [e \in Executors |-> IF e \in E THEN NoResult ELSE result[e]]
    /\ litter' = litter + Cardinality({e \in E : workdir[e]})

=============================================================================
