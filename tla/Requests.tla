------------------------------ MODULE Requests ------------------------------
(***************************************************************************)
(* The HTTP requests the API process handles at the same time.  A handler  *)
(* runs on after every await with what it has read before, so each of its  *)
(* database calls is a step of its own, between which the steps of other   *)
(* requests come.  A call, also a transaction, is atomic: SQLite.          *)
(***************************************************************************)
EXTENDS Naturals, FiniteSets

CONSTANTS
    Requests,   \* the requests; the id of a row is the request that made it
    Mixes,      \* sets of operations, one of which the requests ask for
    Undefined   \* a field a request does not give

VARIABLES
    mix,        \* the operations asked for
    boot,       \* "up", or the step of the start-up script of the container
    at,         \* where the handler of a request is
    local,      \* what it goes on with
    answer,     \* the status code of the response
    counted,    \* the status_code it is counted under in http_requests_total
    raced       \* another request has written since this one's first read

requestVars == <<at, local, answer, counted, raced>>
frameVars == <<mix, boot>>

Nothing == [read |-> {}]
NotCounted == 0

InFlight(r) == at[r] \notin {"none", "done"}

RequestsInit ==
    /\ mix \in Mixes
    /\ boot = "up"
    /\ at = [r \in Requests |-> "none"]
    /\ local = [r \in Requests |-> Nothing]
    /\ answer = [r \in Requests |-> 0]
    /\ counted = [r \in Requests |-> NotCounted]
    /\ raced = [r \in Requests |-> FALSE]

\* The awaits of the handlers: what is asked for, and the call that comes next.
Awaiting ==
    {"signup.hash",
     "update.write", "remove.write", "assign.user", "assign.write", "submit.write",
     "testcases.read", "testcases.reply",
     "interview.draw", "interview.write", "candidate.user", "candidate.write",
     "candidate.delete", "time.write", "assignment.user", "assignment.problem",
     "assignment.write", "assignment.delete",
     "list.read", "list.reply", "view.count", "view.reply",
     "summary.assess", "summary.reply"}

RequestsTypeOK ==
    /\ mix \in Mixes
    /\ at \in [Requests -> Awaiting \union {"none", "done"}]
    /\ answer \in [Requests -> Nat]
    /\ counted \in [Requests -> Nat]
    /\ raced \in [Requests -> BOOLEAN]
    /\ \A r \in Requests : ~InFlight(r) => ~raced[r] /\ local[r] = Nothing

\* The value given for a field, or another one.
Or(given, value) == IF given = Undefined THEN value ELSE given

-----------------------------------------------------------------------------
\* A request for op is not refused by a guard; its handler's first step follows.
Handles(r, op) == at[r] = "none" /\ boot = "up" /\ op \in mix

Goes(r, from, to, keeps) ==
    /\ at[r] = from
    /\ at' = [at EXCEPT ![r] = to]
    /\ local' = [local EXCEPT ![r] = keeps]

\* LoggingInterceptor counts the response when the handler has settled: before
\* GlobalHttpExceptionFilter sets the status of an error, so with the status
\* the route's success has.
Responds(r, code, success) ==
    /\ answer' = [answer EXCEPT ![r] = code]
    /\ counted' = [counted EXCEPT ![r] = success]

Looks == raced' = [q \in Requests |-> raced[q] /\ at'[q] \notin {"none", "done"}]
Writes(r) ==
    raced' = [q \in Requests |-> (raced[q] \/ q # r) /\ at'[q] \notin {"none", "done"}]

\* The steps of a handler: it reads and goes on, reads and answers (or fails),
\* or writes and answers.
Awaits(r, from, to, keeps) ==
    Goes(r, from, to, keeps) /\ Looks /\ UNCHANGED <<answer, counted, frameVars>>
Replies(r, from, code, success) ==
    Goes(r, from, "done", Nothing) /\ Responds(r, code, success) /\ Looks /\ UNCHANGED frameVars
Commits(r, from, code) ==
    Goes(r, from, "done", Nothing) /\ Responds(r, code, code) /\ Writes(r) /\ UNCHANGED frameVars

=============================================================================
