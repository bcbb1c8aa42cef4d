--------------------------- MODULE BackendProofs ---------------------------
(***************************************************************************)
(* Theorems about Backend, for every number of requests, any operations    *)
(* and any data: the types, the tables, deleted problems, test cases,      *)
(* answers of 500, windows of candidates, and what the seed script leaves. *)
(***************************************************************************)
EXTENDS Backend, TLAPS

-----------------------------------------------------------------------------
(* What a request is sure of at each of its awaits.                        *)

Found(p, r) == p \in ProblemIds /\ Exists(p) /\ p \notin gone[r]
HasUser(id) == id \in UserIds /\ UserById(id) # {}

KnowsAccount(r) ==
    at[r] = "signup.hash" =>
      /\ local[r].name \in Names /\ local[r].email \in Emails \union {NoEmail}
      /\ ~raced[r] => ~Taken(local[r].name, local[r].email)

KnowsProblem(r) ==
    /\ at[r] = "update.write" =>
         /\ local[r].problem \in ProblemIds /\ Exists(local[r].problem)
         /\ local[r].tests \in {Undefined} \union SUBSET TestCases /\ local[r].tests # {}
         /\ local[r].difficulty \in {Undefined} \union Difficulties
    /\ at[r] = "remove.write" => local[r].problem \in ProblemIds /\ Exists(local[r].problem)
    /\ at[r] \in {"assign.user", "assign.write", "submit.write"} => Found(local[r].problem, r)
    /\ at[r] = "assign.write" => HasUser(local[r].user)
    /\ at[r] = "testcases.read" => local[r].problem \in ProblemIds /\ Exists(local[r].problem)
    /\ at[r] = "testcases.reply" => local[r].tests # {}

KnowsDraws(r) ==
    at[r] \in {"interview.draw", "interview.write"} =>
      /\ HasUser(local[r].user)
      /\ local[r] = [user |-> local[r].user, counts |-> local[r].counts, drawn |-> local[r].drawn]
      /\ DOMAIN local[r].drawn \subseteq Difficulties
      /\ at[r] = "interview.write" => DOMAIN local[r].drawn = Difficulties
      /\ \A d \in DOMAIN local[r].drawn : \A p \in local[r].drawn[d] :
           /\ Found(p, r)
           /\ ~raced[r] => problem[p].difficulty = d

KnowsCandidate(r) ==
    /\ at[r] \in {"candidate.user", "candidate.write"} =>
         /\ local[r].jobId \in InterviewIds
         /\ local[r].startTime \in Columns /\ local[r].endTime \in Columns
         /\ validateTimeRange(local[r].startTime, local[r].endTime)
         /\ ~raced[r] => local[r].jobId \in interviews
    /\ at[r] = "candidate.write" => HasUser(local[r].userId)
    /\ at[r] = "time.write" =>
         /\ local[r].startTime \in Columns \union {Undefined}
         /\ local[r].endTime \in Columns \union {Undefined}
         /\ validateTimeRange(Or(local[r].startTime, local[r].row.startTime),
                              Or(local[r].endTime, local[r].row.endTime))
    /\ at[r] \in {"time.write", "candidate.delete"} /\ ~raced[r] => local[r].row \in candidates

KnowsAssignment(r) ==
    /\ at[r] \in {"assignment.user", "assignment.problem", "assignment.write"} =>
         /\ local[r].jobId \in InterviewIds
         /\ ~raced[r] => local[r].jobId \in interviews
    /\ at[r] \in {"assignment.problem", "assignment.write"} => HasUser(local[r].userId)
    /\ at[r] = "assignment.write" => Found(local[r].problemId, r)
    /\ at[r] = "assignment.delete" /\ ~raced[r] => local[r].row \in assignments

Knows(r) ==
    /\ KnowsAccount(r) /\ KnowsProblem(r) /\ KnowsDraws(r)
    /\ KnowsCandidate(r) /\ KnowsAssignment(r)

-----------------------------------------------------------------------------
(* What holds of the tables beyond TablesConsistent.                       *)

\* A row is made by a request that has been answered.
Makers ==
    /\ \A p \in Requests : Exists(p) => at[p] = "done"
    /\ \A i \in interviews \intersect Requests : at[i] = "done"
    /\ \A a \in assignments : at[a.id] = "done"
    /\ \A s \in submitted : s.id \in Requests => at[s.id] = "done"
    /\ \A u \in users : u.id \in Requests => at[u.id] = "done"

\* What was deleted when a request began stays deleted until it is answered.
GoneIsDeleted ==
    \A r \in Requests :
      /\ at[r] = "none" => gone[r] = {}
      /\ at[r] # "done" => \A p \in gone[r] : problem[p].state = "deleted"

RestOfDeleted ==
    /\ \A a \in assignments : a.problemId \notin gone[a.id]
    /\ \A s \in submitted : s.id \in Requests => s.problem \notin gone[s.id]

TestsThere == \A p \in ProblemIds : Exists(p) => problem[p].tests # {}

\* The seed script runs alone; what it has reached at each of its calls.
Filling == {"createProblems", "createTestCases", "createSubmissions", "createAssignments"}
SeedInv ==
    /\ boot # "up" => \A r \in Requests : ~InFlight(r)
    /\ boot \in {"up", "createSubmissions", "createAssignments"} => TestsThere
    /\ boot \in {"user", "createUsers"} => problem = NoProblem
    /\ boot = "createUsers" => users \subseteq SeededUsers
    /\ boot \in Filling =>
         /\ SeededUsers \subseteq users
         /\ \A p \in Requests : ~Exists(p)
    /\ boot \in Filling \ {"createProblems"} => \A p \in SeededProblems : Exists(p)

\* RequestsTypeOK says nothing of what a handler keeps.
Handlers == RequestsTypeOK /\ local = [r \in Requests |-> local[r]]

Inv ==
    /\ Handlers /\ BackendTypeOK
    /\ \A r \in Requests : Knows(r)
    /\ Makers /\ GoneIsDeleted /\ RestOfDeleted /\ TablesConsistent
    /\ SeedInv

-----------------------------------------------------------------------------
(* The shapes of a step of a request.                                      *)

Places == Awaiting \union {"none", "done"}

\* r goes on, or is answered; the other requests are where they were.
Moves(r) ==
    /\ at[r] # "done" /\ at'[r] # "none"
    /\ boot' = boot /\ mix' = mix
    /\ Handlers'
    /\ \A q \in Requests \ {r} : at'[q] = at[q] /\ local'[q] = local[q] /\ answer'[q] = answer[q]

LEMMA GoesMoves ==
    ASSUME Handlers, NEW r \in Requests, NEW from, NEW to \in Places, NEW keeps,
           Goes(r, from, to, keeps)
    PROVE  /\ at' \in [Requests -> Places] /\ at[r] = from /\ at'[r] = to
           /\ local' = [q \in Requests |-> local'[q]] /\ local'[r] = keeps
           /\ \A q \in Requests \ {r} : at'[q] = at[q] /\ local'[q] = local[q]
<1> DEFINE L == [q \in Requests |-> local[q]]
<1>1. L' = local' /\ local' = [L EXCEPT ![r] = keeps]
  BY DEF Handlers, Goes
<1> QED BY <1>1 DEF Handlers, RequestsTypeOK, Places, Goes

LEMMA AwaitsMoves ==
    ASSUME Handlers, NEW r \in Requests, NEW from, NEW to \in Places, NEW keeps,
           from # "done", to \notin {"none", "done"},
           Awaits(r, from, to, keeps)
    PROVE  /\ Moves(r) /\ at[r] = from /\ at'[r] = to /\ local'[r] = keeps
           /\ raced' = raced /\ answer' = answer
<1>1. Goes(r, from, to, keeps) /\ UNCHANGED <<answer, counted, mix, boot>> /\ Looks
  BY DEF Awaits, frameVars
<1>2. /\ at' \in [Requests -> Places] /\ at[r] = from /\ at'[r] = to
      /\ local' = [q \in Requests |-> local'[q]] /\ local'[r] = keeps
      /\ \A q \in Requests \ {r} : at'[q] = at[q] /\ local'[q] = local[q]
  BY <1>1, GoesMoves
<1>3. \A q \in Requests : raced'[q] = raced[q] /\ (~InFlight(q)' => ~InFlight(q))
  BY <1>1, <1>2 DEF Handlers, RequestsTypeOK, Places, Looks, InFlight
<1>4. raced' = raced /\ raced' \in [Requests -> BOOLEAN]
  BY <1>1, <1>3 DEF Handlers, RequestsTypeOK, Places, Looks
<1>5. \A q \in Requests : ~InFlight(q)' => ~raced'[q] /\ local'[q] = Nothing
  <2> TAKE q \in Requests
  <2>1. CASE q = r
    BY <2>1, <1>2 DEF InFlight
  <2>2. CASE q # r
    BY <2>2, <1>2, <1>4 DEF InFlight, Handlers, RequestsTypeOK
  <2> QED BY <2>1, <2>2
<1> QED BY <1>1, <1>2, <1>4, <1>5 DEF Handlers, RequestsTypeOK, Places, Moves, Nothing

\* An answer, with what becomes of raced left open.
LEMMA AnswerMoves ==
    ASSUME Handlers, NEW r \in Requests, NEW from, NEW code \in Nat, NEW success \in Nat,
           from # "done", Goes(r, from, "done", Nothing), Responds(r, code, success),
           UNCHANGED frameVars, Looks \/ Writes(r)
    PROVE  /\ Moves(r) /\ at[r] = from /\ at'[r] = "done" /\ answer'[r] = code
           /\ Looks => \A q \in Requests \ {r} : raced'[q] = raced[q]
           /\ Writes(r) => \A q \in Requests \ {r} : InFlight(q) => raced'[q]
<1>2. /\ at' \in [Requests -> Places] /\ at[r] = from /\ at'[r] = "done"
      /\ local' = [q \in Requests |-> local'[q]] /\ local'[r] = Nothing
      /\ \A q \in Requests \ {r} : at'[q] = at[q] /\ local'[q] = local[q]
  <2> DEFINE to == "done"
  <2>1. to \in Places /\ Goes(r, from, to, Nothing)
    BY DEF Places
  <2> HIDE DEF to
  <2>2. /\ at' \in [Requests -> Places] /\ at[r] = from /\ at'[r] = to
        /\ local' = [q \in Requests |-> local'[q]] /\ local'[r] = Nothing
        /\ \A q \in Requests \ {r} : at'[q] = at[q] /\ local'[q] = local[q]
    BY <2>1, GoesMoves
  <2>3. at'[r] = to
    BY <2>2
  <2>4. at'[r] = "done"
    BY <2>3 DEF to
  <2> QED BY <2>2, <2>4
<1>3. /\ answer' \in [Requests -> Nat] /\ counted' \in [Requests -> Nat] /\ answer'[r] = code
      /\ \A q \in Requests \ {r} : answer'[q] = answer[q]
  BY DEF Handlers, RequestsTypeOK, Places, Responds
<1>4. raced' \in [Requests -> BOOLEAN] /\ \A q \in Requests : raced'[q] => InFlight(q)'
  BY DEF Looks, Writes, InFlight, Handlers, RequestsTypeOK
<1>5. \A q \in Requests : ~InFlight(q)' => ~raced'[q] /\ local'[q] = Nothing
  <2> TAKE q \in Requests
  <2>1. CASE q = r
    BY <2>1, <1>2, <1>4 DEF InFlight
  <2>2. CASE q # r
    BY <2>2, <1>2, <1>4 DEF InFlight, Handlers, RequestsTypeOK
  <2> QED BY <2>1, <2>2
<1>6. ASSUME NEW q \in Requests \ {r}
      PROVE  /\ Looks => raced'[q] = raced[q]
             /\ Writes(r) /\ InFlight(q) => raced'[q]
  <2>1. CASE InFlight(q)
    <3>1. at'[q] \notin {"none", "done"} /\ raced[q] \in BOOLEAN
      BY <2>1, <1>2 DEF InFlight, Handlers, RequestsTypeOK
    <3>2. CASE Looks
      BY <3>1, <3>2 DEF Looks, Writes
    <3>3. CASE Writes(r)
      BY <3>1, <3>3 DEF Looks, Writes
    <3> QED BY <3>2, <3>3
  <2>2. CASE ~InFlight(q)
    BY <2>2, <1>2, <1>4 DEF InFlight, Handlers, RequestsTypeOK
  <2> QED BY <2>1, <2>2
<1> QED BY <1>2, <1>3, <1>4, <1>5, <1>6 DEF Handlers, RequestsTypeOK, Places, Moves, Nothing, frameVars

LEMMA RepliesMoves ==
    ASSUME Handlers, NEW r \in Requests, NEW from, NEW code \in Nat, NEW success \in Nat,
           from # "done", Replies(r, from, code, success)
    PROVE  /\ Moves(r) /\ at[r] = from /\ at'[r] = "done" /\ answer'[r] = code
           /\ \A q \in Requests \ {r} : raced'[q] = raced[q]
  BY AnswerMoves DEF Replies

LEMMA CommitsMoves ==
    ASSUME Handlers, NEW r \in Requests, NEW from, NEW code \in Nat,
           from # "done", Commits(r, from, code)
    PROVE  /\ Moves(r) /\ at[r] = from /\ at'[r] = "done" /\ answer'[r] = code
           /\ \A q \in Requests \ {r} : InFlight(q) => raced'[q]
  BY AnswerMoves DEF Commits

-----------------------------------------------------------------------------
(* What a step keeps of the other requests.                                *)

\* Users and problems are not removed while the API is up.
Grows ==
    /\ users \subseteq users'
    /\ \A p \in ProblemIds : Exists(p) => Exists(p)'

LEMMA OthersKnow ==
    ASSUME Inv, NEW r \in Requests, Moves(r), NEW q \in Requests \ {r}, gone'[q] = gone[q], Grows,
           \/ InFlight(q) => raced'[q]
           \/ /\ raced'[q] = raced[q]
              /\ UNCHANGED <<users, problem, interviews, candidates, assignments>>
    PROVE  Knows(q)'
<1>1. at'[q] = at[q] /\ local'[q] = local[q] /\ Knows(q)
  BY DEF Moves, Inv
<1>2. \A id : HasUser(id) => HasUser(id)'
  BY DEF HasUser, UserById, Grows
<1>3. \A p \in ProblemIds : Exists(p) => Exists(p)'
  BY DEF Grows
<1>4. \A x : Found(x, q) => Found(x, q)'
  BY <1>3 DEF Found
<1>5. CASE InFlight(q) => raced'[q]
  <2>1. ~raced'[q] => at[q] \in {"none", "done"}
    BY <1>5 DEF InFlight
  <2>2. KnowsAccount(q)'
    BY <1>1, <2>1 DEF Knows, KnowsAccount
  <2>3. KnowsProblem(q)'
    BY <1>1, <1>2, <1>3, <1>4 DEF Knows, KnowsProblem
  <2>4. KnowsDraws(q)'
    BY <1>1, <1>2, <1>4, <2>1 DEF Knows, KnowsDraws
  <2>5. KnowsCandidate(q)'
    BY <1>1, <1>2, <2>1 DEF Knows, KnowsCandidate
  <2>6. KnowsAssignment(q)'
    BY <1>1, <1>2, <1>4, <2>1 DEF Knows, KnowsAssignment
  <2> QED BY <2>2, <2>3, <2>4, <2>5, <2>6 DEF Knows
<1>6. CASE /\ raced'[q] = raced[q]
           /\ UNCHANGED <<users, problem, interviews, candidates, assignments>>
  <2>2. KnowsAccount(q)'
    BY <1>1, <1>6 DEF Knows, KnowsAccount, Taken
  <2>3. KnowsProblem(q)'
    BY <1>1, <1>2, <1>3, <1>4 DEF Knows, KnowsProblem
  <2>4. KnowsDraws(q)'
    BY <1>1, <1>2, <1>4, <1>6 DEF Knows, KnowsDraws
  <2>5. KnowsCandidate(q)'
    BY <1>1, <1>2, <1>6 DEF Knows, KnowsCandidate
  <2>6. KnowsAssignment(q)'
    BY <1>1, <1>2, <1>4, <1>6 DEF Knows, KnowsAssignment
  <2> QED BY <2>2, <2>3, <2>4, <2>5, <2>6 DEF Knows
<1> QED BY <1>5, <1>6

\* What a request finds deleted when it begins is noted then, or not at all.
Notes(r) ==
    \/ gone' = gone
    \/ /\ at[r] = "none"
       /\ gone' = [gone EXCEPT ![r] = {p \in ProblemIds : problem[p].state = "deleted"}]

DeletedStay ==
    \A p \in ProblemIds : problem[p].state = "deleted" => problem'[p].state = "deleted"

LEMMA NotesKeepGone ==
    ASSUME Inv, NEW r \in Requests, Moves(r), Notes(r), DeletedStay
    PROVE  GoneIsDeleted' /\ gone' \in [Requests -> SUBSET ProblemIds]
           /\ \A q \in Requests \ {r} : gone'[q] = gone[q]
<1>1. gone \in [Requests -> SUBSET ProblemIds] /\ GoneIsDeleted
  BY DEF Inv, BackendTypeOK, ProblemsTypeOK
<1>2. gone' \in [Requests -> SUBSET ProblemIds] /\ \A q \in Requests \ {r} : gone'[q] = gone[q]
  BY <1>1 DEF Notes
<1>3. ASSUME NEW q \in Requests \ {r}
      PROVE  /\ at'[q] = "none" => gone'[q] = {}
             /\ at'[q] # "done" => \A p \in gone'[q] : problem'[p].state = "deleted"
  BY <1>1, <1>2 DEF Moves, GoneIsDeleted, DeletedStay
<1>4. \A p \in gone'[r] : problem'[p].state = "deleted"
  BY <1>1 DEF Moves, GoneIsDeleted, DeletedStay, Notes
<1> QED BY <1>2, <1>3, <1>4 DEF Moves, GoneIsDeleted

\* A step that leaves the tables alone.
LEMMA ReadingKeeps ==
    ASSUME Inv, NEW r \in Requests, Moves(r), Notes(r), boot = "up",
           UNCHANGED <<users, problem, assigned, submitted, interviews, candidates, assignments, reports>>,
           \A q \in Requests \ {r} : raced'[q] = raced[q],
           Knows(r)'
    PROVE  Inv'
<1>1. DeletedStay /\ Grows
  BY DEF DeletedStay, Grows, Exists
<1>2. /\ GoneIsDeleted' /\ gone' \in [Requests -> SUBSET ProblemIds]
      /\ \A q \in Requests \ {r} : gone'[q] = gone[q]
  BY <1>1, NotesKeepGone
<1>3. \A q \in Requests : Knows(q)'
  <2> TAKE q \in Requests
  <2>1. CASE q # r
    BY <2>1, <1>1, <1>2, OthersKnow
  <2> QED BY <2>1
<1>4. BackendTypeOK'
  BY <1>2 DEF Inv, BackendTypeOK, Moves, Handlers, ProblemsTypeOK, InterviewsTypeOK, ReportsTypeOK
<1>5. Makers'
  <2>1. \A q \in Requests : at[q] = "done" => at'[q] = "done"
    BY DEF Moves
  <2>2. \A a \in assignments : a.id \in Requests
    BY DEF Inv, BackendTypeOK, InterviewsTypeOK
  <2> QED BY <2>1, <2>2 DEF Inv, Makers, Exists
<1>6. RestOfDeleted'
  <2>1. \A a \in assignments : a.id \in Requests /\ a.id # r
    BY DEF Inv, Makers, Moves, BackendTypeOK, InterviewsTypeOK
  <2>2. \A s \in submitted : s.id # r
    BY DEF Inv, Makers, Moves
  <2> QED BY <1>2, <2>1, <2>2 DEF Inv, RestOfDeleted
<1>7. TablesConsistent'
  BY DEF Inv, TablesConsistent, UniqueBy, UserById, Exists
<1>8. SeedInv'
  BY DEF Inv, SeedInv, TestsThere, Moves, Exists
<1> QED BY <1>2, <1>3, <1>4, <1>5, <1>6, <1>7, <1>8 DEF Inv, Moves

\* The types of the tables, and what holds of them while the API is up.
TableTypes ==
    users \subseteq UserRow /\ ProblemsTypeOK /\ InterviewsTypeOK /\ ReportsTypeOK
TablesInv == TableTypes /\ Makers /\ RestOfDeleted /\ TablesConsistent /\ TestsThere

\* A step that writes and answers.
LEMMA WritingKeeps ==
    ASSUME Inv, NEW r \in Requests, Moves(r), Notes(r), boot = "up", at'[r] = "done",
           \A q \in Requests \ {r} : InFlight(q) => raced'[q],
           Grows, DeletedStay, TablesInv'
    PROVE  Inv'
<1>2. /\ GoneIsDeleted'
      /\ \A q \in Requests \ {r} : gone'[q] = gone[q]
  BY NotesKeepGone
<1>3. \A q \in Requests : Knows(q)'
  <2> TAKE q \in Requests
  <2>1. CASE q # r
    BY <2>1, <1>2, OthersKnow
  <2>2. CASE q = r
    BY <2>2 DEF Knows, KnowsAccount, KnowsProblem, KnowsDraws, KnowsCandidate, KnowsAssignment
  <2> QED BY <2>1, <2>2
<1>4. BackendTypeOK'
  BY DEF Inv, BackendTypeOK, Moves, Handlers, TablesInv, TableTypes
<1>8. SeedInv'
  BY DEF SeedInv, Filling, TablesInv, Moves
<1> QED BY <1>2, <1>3, <1>4, <1>8 DEF Inv, Moves, TablesInv

\* A request that is answered from what it has read.
LEMMA ReplyingKeeps ==
    ASSUME Inv, NEW r \in Requests, NEW from, NEW code \in Nat, NEW success \in Nat,
           from # "done", Replies(r, from, code, success), Notes(r), boot = "up",
           UNCHANGED <<users, problem, assigned, submitted, interviews, candidates, assignments, reports>>
    PROVE  Inv' /\ at[r] = from /\ answer'[r] = code
<1>1. /\ Moves(r) /\ at[r] = from /\ at'[r] = "done" /\ answer'[r] = code
      /\ \A q \in Requests \ {r} : raced'[q] = raced[q]
  BY RepliesMoves DEF Inv
<1>2. Knows(r)'
  BY <1>1 DEF Knows, KnowsAccount, KnowsProblem, KnowsDraws, KnowsCandidate, KnowsAssignment
<1> QED BY <1>1, <1>2, ReadingKeeps

\* A request that goes on after a query.
LEMMA AwaitingKeeps ==
    ASSUME Inv, NEW r \in Requests, NEW from, NEW to \in Awaiting, NEW keeps,
           from # "done", Awaits(r, from, to, keeps), Notes(r), boot = "up",
           UNCHANGED <<users, problem, assigned, submitted, interviews, candidates, assignments, reports>>,
           at'[r] = to /\ local'[r] = keeps /\ raced'[r] = raced[r] => Knows(r)'
    PROVE  Inv' /\ at[r] = from /\ answer' = answer
<1>0. to \in Places /\ to \notin {"none", "done"}
  BY DEF Places, Awaiting
<1>1. /\ Moves(r) /\ at[r] = from /\ at'[r] = to /\ local'[r] = keeps
      /\ raced' = raced /\ answer' = answer
  BY <1>0, AwaitsMoves DEF Inv
<1> QED BY <1>1, ReadingKeeps

LEMMA InFlightIsUp ==
    ASSUME Inv, NEW r \in Requests, at[r] \notin {"none", "done"}
    PROVE  boot = "up"
  BY DEF Inv, SeedInv, InFlight

LEMMA ArrivesNotes ==
    ASSUME NEW r \in Requests, NEW op, NEW roles, Arrives(r, op, roles)
    PROVE  Notes(r) /\ boot = "up" /\ at[r] = "none"
  BY DEF Arrives, Handles, Notes

LEMMA FoundAtArrival ==
    ASSUME Inv, NEW r \in Requests, NEW op, NEW roles, Arrives(r, op, roles), problem' = problem,
           NEW p \in ProblemIds, Live(p)
    PROVE  Found(p, r)'
  BY DEF Arrives, Found, Live, Exists, Inv, BackendTypeOK, ProblemsTypeOK

-----------------------------------------------------------------------------
(* Accounts.                                                               *)

LEMMA AccountKeeps ==
    ASSUME Inv, NEW r \in Requests, AccountStep(r),
           UNCHANGED <<gone, problem, assigned, submitted, interviews, candidates, assignments, reports>>
    PROVE  Inv' /\ (answer'[r] = answer[r] \/ answer'[r] < 500 \/ raced[r])
<1> USE DEF Notes
<1>1. CASE SignupChecks(r)
  <2>0. boot = "up" /\ at[r] = "none" /\ ~raced[r] /\ users' = users
    BY <1>1 DEF SignupChecks, Handles, Inv, Handlers, RequestsTypeOK, InFlight
  <2>1. PICK name \in Names, given \in Emails \union {NoEmail, Blank} :
          IF Taken(name, normalizeEmail(given))
          THEN Replies(r, "none", 409, 201)
          ELSE Awaits(r, "none", "signup.hash", [name |-> name, email |-> normalizeEmail(given)])
    BY <1>1 DEF SignupChecks
  <2>2. CASE Taken(name, normalizeEmail(given))
    BY <2>0, <2>1, <2>2, ReplyingKeeps
  <2>3. CASE ~Taken(name, normalizeEmail(given))
    <3> DEFINE keeps == [name |-> name, email |-> normalizeEmail(given)]
    <3>1. at'[r] = "signup.hash" /\ local'[r] = keeps => Knows(r)'
      <4> SUFFICES ASSUME at'[r] = "signup.hash", local'[r] = keeps
                   PROVE  Knows(r)'
        OBVIOUS
      <4>1. normalizeEmail(given) \in Emails \union {NoEmail}
        BY DEF normalizeEmail
      <4>2. KnowsAccount(r)'
        BY <2>0, <2>3, <4>1 DEF KnowsAccount, Taken
      <4> QED BY <4>2 DEF Knows, KnowsProblem, KnowsDraws, KnowsCandidate, KnowsAssignment
    <3>2. Awaits(r, "none", "signup.hash", keeps)
      BY <2>1, <2>3
    <3> HIDE DEF keeps
    <3>3. Inv' /\ answer' = answer
      BY <2>0, <3>1, <3>2, AwaitingKeeps DEF Awaiting
    <3> QED BY <3>3
  <2> QED BY <2>2, <2>3
<1>2. CASE SignupInserts(r)
  <2>0. /\ boot = "up" /\ at[r] = "signup.hash" /\ KnowsAccount(r)
    BY <1>2, InFlightIsUp DEF SignupInserts, Inv, Knows
  <2>1. CASE Taken(local[r].name, local[r].email)
    <3>1. Replies(r, "signup.hash", 500, 201) /\ users' = users /\ raced[r]
      BY <1>2, <2>0, <2>1 DEF SignupInserts, KnowsAccount, Inv, Handlers, RequestsTypeOK
    <3> QED BY <2>0, <3>1, ReplyingKeeps
  <2>2. CASE ~Taken(local[r].name, local[r].email)
    <3> DEFINE u == [id |-> r, name |-> local[r].name, email |-> local[r].email,
                     role |-> "CANDIDATE"]
    <3>1. Commits(r, "signup.hash", 201) /\ users' = users \union {u}
      BY <1>2, <2>2 DEF SignupInserts
    <3>2. /\ Moves(r) /\ at'[r] = "done" /\ answer'[r] = 201
          /\ \A q \in Requests \ {r} : InFlight(q) => raced'[q]
      BY <3>1, CommitsMoves DEF Inv
    <3>3. u \in UserRow
      BY <2>0 DEF KnowsAccount, UserRow, UserIds, UserRole
    <3>4. TableTypes'
      BY <3>1, <3>3 DEF TableTypes, Inv, BackendTypeOK, ProblemsTypeOK, InterviewsTypeOK,
                        ReportsTypeOK
    <3>5. Makers'
      <4>1. \A q \in Requests : at[q] = "done" => at'[q] = "done"
        BY <3>2 DEF Moves
      <4>2. \A a \in assignments : a.id \in Requests
        BY DEF Inv, BackendTypeOK, InterviewsTypeOK
      <4> QED BY <3>1, <3>2, <4>1, <4>2 DEF Inv, Makers, Exists
    <3>6. TablesConsistent'
      <4>1. \A id : UserById(id) # {} => UserById(id)' # {}
        BY <3>1 DEF UserById
      <4>2. UniqueBy(users, LAMBDA v : v.name)'
        BY <2>2, <3>1 DEF Taken, UniqueBy, Inv, TablesConsistent
      <4>3. UniqueBy({v \in users : v.email # NoEmail}, LAMBDA v : v.email)'
        BY <2>2, <3>1 DEF Taken, UniqueBy, Inv, TablesConsistent
      <4> QED BY <4>1, <4>2, <4>3 DEF Inv, TablesConsistent, UniqueBy, Exists
    <3>7. RestOfDeleted' /\ TestsThere' /\ Grows /\ DeletedStay
      BY <2>0, <3>1 DEF Inv, RestOfDeleted, TestsThere, SeedInv, Grows, DeletedStay, Exists
    <3> QED BY <2>0, <3>2, <3>4, <3>5, <3>6, <3>7, WritingKeeps DEF TablesInv
  <2> QED BY <2>1, <2>2
<1>3. CASE Login(r)
  <2>0. boot = "up" /\ at[r] = "none" /\ users' = users
    BY <1>3 DEF Login, Handles
  <2>1. Replies(r, "none", 200, 200) \/ Replies(r, "none", 401, 200)
    BY <1>3 DEF Login
  <2> QED BY <2>0, <2>1, ReplyingKeeps
<1> QED BY <1>1, <1>2, <1>3 DEF AccountStep

-----------------------------------------------------------------------------
(* Problems.                                                               *)

ProblemRow == [state : {"absent", "live", "deleted"}, difficulty : Difficulties,
               tests : SUBSET TestCases]

LEMMA RowsOfTheDone ==
    ASSUME Inv, NEW r \in Requests, Moves(r)
    PROVE  /\ \A q \in Requests : at[q] = "done" => at'[q] = "done"
           /\ \A a \in assignments : a.id \in Requests /\ a.id # r
           /\ \A s \in submitted : s.id # r
           /\ r \notin interviews
           /\ ~Exists(r)
<1>1. \A q \in Requests : at[q] = "done" => at'[q] = "done"
  BY DEF Moves
<1>2. \A a \in assignments : a.id \in Requests
  BY DEF Inv, BackendTypeOK, InterviewsTypeOK
<1> QED BY <1>1, <1>2 DEF Inv, Makers, Moves

\* One row of problems is written.
WritesRow(p, row) == problem' = [problem EXCEPT ![p] = row]

LEMMA ProblemWritingKeeps ==
    ASSUME Inv, NEW r \in Requests, Moves(r), Notes(r), boot = "up", at'[r] = "done",
           \A q \in Requests \ {r} : InFlight(q) => raced'[q],
           UNCHANGED <<users, assigned, submitted, interviews, candidates, assignments, reports>>,
           NEW p \in ProblemIds, NEW row \in ProblemRow, WritesRow(p, row),
           row.state # "absent", row.tests # {},
           p = r \/ Exists(p), problem[p].state = "deleted" => row.state = "deleted"
    PROVE  Inv'
<1>1. problem \in [ProblemIds -> ProblemRow]
  BY DEF Inv, BackendTypeOK, ProblemsTypeOK, ProblemRow
<1>2. /\ problem' \in [ProblemIds -> ProblemRow] /\ problem'[p] = row
      /\ \A q \in ProblemIds \ {p} : problem'[q] = problem[q]
  BY <1>1 DEF WritesRow
<1>3. /\ \A q \in ProblemIds : Exists(q) => Exists(q)'
      /\ DeletedStay /\ Grows
  BY <1>2 DEF Exists, DeletedStay, Grows
<1>4. gone' \in [Requests -> SUBSET ProblemIds] /\ \A q \in Requests \ {r} : gone'[q] = gone[q]
  BY <1>3, NotesKeepGone
<1>5. TableTypes'
  BY <1>2, <1>4 DEF TableTypes, Inv, BackendTypeOK, ProblemsTypeOK, InterviewsTypeOK,
                    ReportsTypeOK, ProblemRow
<1>6. Makers'
  <2>1. \A q \in Requests : Exists(q)' => at'[q] = "done"
    <3> SUFFICES ASSUME NEW q \in Requests, Exists(q)'
                 PROVE  at'[q] = "done"
      OBVIOUS
    <3>1. CASE q = r
      BY <3>1
    <3>2. CASE q # r
      <4>1. Exists(q)
        BY <1>2, <3>2 DEF Exists, ProblemIds
      <4> QED BY <4>1, RowsOfTheDone DEF Inv, Makers
    <3> QED BY <3>1, <3>2
  <2> QED BY <2>1, RowsOfTheDone DEF Inv, Makers
<1>7. RestOfDeleted'
  BY <1>4, RowsOfTheDone DEF Inv, RestOfDeleted
<1>8. TablesConsistent'
  <2>1. \A a \in assignments : a.problemId \in ProblemIds
    BY DEF Inv, BackendTypeOK, InterviewsTypeOK
  <2>2. /\ \A s \in submitted : s.problem \in ProblemIds
        /\ \A x \in assigned : x.problem \in ProblemIds
    BY DEF Inv, BackendTypeOK, ProblemsTypeOK
  <2> QED BY <1>3, <2>1, <2>2 DEF Inv, TablesConsistent, UniqueBy, UserById
<1>9. TestsThere'
  BY <1>2 DEF Inv, SeedInv, TestsThere, Exists
<1> QED BY <1>3, <1>5, <1>6, <1>7, <1>8, <1>9, WritingKeeps DEF TablesInv

LEMMA CreateProblemKeeps ==
    ASSUME Inv, NEW r \in Requests, CreateProblem(r),
           UNCHANGED <<users, interviews, candidates, assignments, reports>>
    PROVE  Inv' /\ answer'[r] < 500
<1>0. Notes(r) /\ boot = "up" /\ at[r] = "none" /\ UNCHANGED <<assigned, submitted>>
  BY ArrivesNotes DEF CreateProblem
<1>1. PICK tests \in SUBSET TestCases, d \in Difficulties :
        IF ~assertHasTestCases(tests)
        THEN Replies(r, "none", 400, 201) /\ UNCHANGED problem
        ELSE /\ Commits(r, "none", 201)
             /\ problem' = [problem EXCEPT
                  ![r] = [state |-> "live", difficulty |-> d, tests |-> tests]]
  BY DEF CreateProblem
<1>2. CASE tests = {}
  BY <1>0, <1>1, <1>2, ReplyingKeeps DEF assertHasTestCases
<1>3. CASE tests # {}
  <2> DEFINE row == [state |-> "live", difficulty |-> d, tests |-> tests]
  <2>1. Commits(r, "none", 201) /\ problem' = [problem EXCEPT ![r] = row]
    BY <1>1, <1>3 DEF assertHasTestCases
  <2>2. /\ Moves(r) /\ at'[r] = "done" /\ answer'[r] = 201
        /\ \A q \in Requests \ {r} : InFlight(q) => raced'[q]
    BY <2>1, CommitsMoves DEF Inv
  <2>3. row \in ProblemRow
    BY DEF ProblemRow
  <2>6. r \in ProblemIds
    BY DEF ProblemIds
  <2>7. row.state # "absent" /\ row.tests # {}
    <3>1. row.tests = tests
      OBVIOUS
    <3>2. row.state = "live"
      OBVIOUS
    <3> QED BY <1>3, <3>1, <3>2
  <2>5. problem[r].state = "absent"
    BY <2>2, RowsOfTheDone DEF Exists
  <2> HIDE DEF row
  <2>4. Inv'
    <3>1. UNCHANGED <<users, assigned, submitted, interviews, candidates, assignments, reports>>
      BY <1>0
    <3>2. problem[r].state = "deleted" => row.state = "deleted"
      BY <2>5
    <3>3. WritesRow(r, row)
      BY <2>1 DEF WritesRow
    <3> QED BY <1>0, <2>2, <2>3, <2>6, <2>7, <3>1, <3>2, <3>3, ProblemWritingKeeps
  <2> QED BY <2>2, <2>4
<1> QED BY <1>2, <1>3

ProblemPlaces == {"update.write", "remove.write", "assign.user", "assign.write", "submit.write",
                  "testcases.read", "testcases.reply"}

LEMMA KnowsOfProblem ==
    ASSUME NEW r \in Requests, at'[r] \in ProblemPlaces, KnowsProblem(r)'
    PROVE  Knows(r)'
  BY DEF ProblemPlaces, Knows, KnowsAccount, KnowsDraws, KnowsCandidate, KnowsAssignment

\* A step of ProblemStep that only reads.
LEMMA ProblemAwaitingKeeps ==
    ASSUME Inv, NEW r \in Requests, NEW from, NEW to \in ProblemPlaces, NEW keeps,
           from # "done", Awaits(r, from, to, keeps), Notes(r), boot = "up",
           UNCHANGED <<users, problem, assigned, submitted, interviews, candidates, assignments, reports>>,
           at'[r] = to /\ local'[r] = keeps => KnowsProblem(r)'
    PROVE  Inv' /\ answer'[r] = answer[r]
<1>1. to \in Awaiting
  BY DEF ProblemPlaces, Awaiting
<1>2. at'[r] = to /\ local'[r] = keeps /\ raced'[r] = raced[r] => Knows(r)'
  BY KnowsOfProblem
<1>3. Inv' /\ answer' = answer
  BY <1>1, <1>2, AwaitingKeeps
<1> QED BY <1>3

LEMMA UpdateProblemKeeps ==
    ASSUME Inv, NEW r \in Requests, UpdateFindsProblem(r) \/ UpdateWritesProblem(r),
           UNCHANGED <<users, interviews, candidates, assignments, reports>>
    PROVE  Inv' /\ (answer'[r] = answer[r] \/ answer'[r] < 500)
<1>1. CASE UpdateFindsProblem(r)
  <2>0. Notes(r) /\ boot = "up" /\ at[r] = "none" /\ UNCHANGED <<problem, assigned, submitted>>
    BY <1>1, ArrivesNotes DEF UpdateFindsProblem, problemTables
  <2>1. PICK p \in ProblemIds, tests \in {Undefined} \union SUBSET TestCases,
             d \in {Undefined} \union Difficulties :
          IF ~hasUpdatePayload(tests, d) \/ ~assertHasTestCases(tests)
          THEN Replies(r, "none", 400, 200)
          ELSE IF ~Live(p) THEN Replies(r, "none", 404, 200)
          ELSE Awaits(r, "none", "update.write",
                      [problem |-> p, tests |-> tests, difficulty |-> d])
    BY <1>1 DEF UpdateFindsProblem
  <2>2. CASE Replies(r, "none", 400, 200) \/ Replies(r, "none", 404, 200)
    BY <2>0, <2>2, ReplyingKeeps
  <2>3. CASE /\ tests # {} /\ Live(p)
             /\ Awaits(r, "none", "update.write",
                       [problem |-> p, tests |-> tests, difficulty |-> d])
    <3> DEFINE keeps == [problem |-> p, tests |-> tests, difficulty |-> d]
    <3>1. at'[r] = "update.write" /\ local'[r] = keeps => KnowsProblem(r)'
      <4> SUFFICES ASSUME at'[r] = "update.write", local'[r] = keeps
                   PROVE  KnowsProblem(r)'
        OBVIOUS
      <4>1. Exists(p)'
        BY <2>0, <2>3 DEF Live, Exists
      <4>2. local'[r].problem = p /\ local'[r].tests = tests /\ local'[r].difficulty = d
        OBVIOUS
      <4> HIDE DEF keeps
      <4> QED BY <2>3, <4>1, <4>2 DEF KnowsProblem
    <3>2. Awaits(r, "none", "update.write", keeps) /\ "update.write" \in ProblemPlaces
      BY <2>3 DEF ProblemPlaces
    <3> HIDE DEF keeps
    <3>3. Inv' /\ answer'[r] = answer[r]
      BY <2>0, <3>1, <3>2, ProblemAwaitingKeeps
    <3> QED BY <3>3
  <2> QED BY <2>1, <2>2, <2>3 DEF assertHasTestCases
<1>2. CASE UpdateWritesProblem(r)
  <2> DEFINE p == local[r].problem
             T == Or(local[r].tests, problem[p].tests)
             D == Or(local[r].difficulty, problem[p].difficulty)
             row == [state |-> problem[p].state, difficulty |-> D, tests |-> T]
  <2>0. boot = "up" /\ at[r] = "update.write" /\ Knows(r) /\ UNCHANGED <<assigned, submitted>> /\ Notes(r)
    BY <1>2, InFlightIsUp DEF UpdateWritesProblem, Inv, Notes
  <2>1. /\ p \in ProblemIds /\ Exists(p)
        /\ local[r].tests \in {Undefined} \union SUBSET TestCases /\ local[r].tests # {}
        /\ local[r].difficulty \in {Undefined} \union Difficulties
    BY <2>0 DEF Knows, KnowsProblem
  <2>2. problem \in [ProblemIds -> ProblemRow] /\ problem[p].tests # {}
    BY <2>0, <2>1 DEF Inv, BackendTypeOK, ProblemsTypeOK, ProblemRow, SeedInv, TestsThere
  <2>3. problem' = [problem EXCEPT ![p] = row] /\ Commits(r, "update.write", 200)
    <3>1. problem' = [problem EXCEPT ![p].tests = T, ![p].difficulty = D]
      <4>1. problem' = [problem EXCEPT ![local[r].problem].tests = Or(local[r].tests, @),
                                       ![local[r].problem].difficulty = Or(local[r].difficulty, @)]
        BY <1>2 DEF UpdateWritesProblem
      <4> QED BY <2>1, <2>2, <4>1
    <3>2. problem' = [problem EXCEPT ![p] = row]
      <4> HIDE DEF p, T, D
      <4> DEFINE h == [problem EXCEPT ![p].tests = T]
      <4>1. problem[p] = [state |-> problem[p].state, difficulty |-> problem[p].difficulty,
                          tests |-> problem[p].tests]
        BY <2>1, <2>2 DEF ProblemRow
      <4>2. h = [problem EXCEPT ![p] = [problem[p] EXCEPT !.tests = T]]
        BY <2>1, <2>2
      <4>3. problem' = [h EXCEPT ![p].difficulty = D]
        BY <3>1
      <4>4. problem' = [h EXCEPT ![p] = [h[p] EXCEPT !.difficulty = D]]
        BY <4>3
      <4>5. [problem[p] EXCEPT !.tests = T]
              = [state |-> problem[p].state, difficulty |-> problem[p].difficulty, tests |-> T]
        BY <4>1
      <4>6. h[p] = [state |-> problem[p].state, difficulty |-> problem[p].difficulty, tests |-> T]
        BY <2>1, <2>2, <4>2, <4>5
      <4>7. [h[p] EXCEPT !.difficulty = D] = row
        BY <4>6
      <4> HIDE DEF row
      <4>8. problem' = [h EXCEPT ![p] = row]
        BY <4>4, <4>7
      <4>9. \A x : [h EXCEPT ![p] = x] = [problem EXCEPT ![p] = x]
        BY <2>1, <2>2, <4>2
      <4> QED BY <4>8, <4>9
    <3> QED BY <1>2, <3>2 DEF UpdateWritesProblem
  <2>4. /\ problem[p].state \in {"absent", "live", "deleted"}
        /\ T \in SUBSET TestCases /\ T # {} /\ D \in Difficulties
    BY <2>1, <2>2 DEF ProblemRow, Or
  <2>9. row \in ProblemRow /\ row.tests # {} /\ row.state = problem[p].state
    BY <2>4 DEF ProblemRow
  <2>5. row.state # "absent" /\ (problem[p].state = "deleted" => row.state = "deleted")
    BY <2>1, <2>9 DEF Exists
  <2>6. /\ Moves(r) /\ at'[r] = "done" /\ answer'[r] = 200
        /\ \A q \in Requests \ {r} : InFlight(q) => raced'[q]
    BY <2>3, CommitsMoves DEF Inv
  <2>7. UNCHANGED <<users, assigned, submitted, interviews, candidates, assignments, reports>>
    BY <2>0
  <2> HIDE DEF row, p
  <2>10. WritesRow(p, row)
    BY <2>3 DEF WritesRow
  <2>8. Inv'
    BY <2>0, <2>1, <2>10, <2>9, <2>5, <2>6, <2>7, ProblemWritingKeeps
  <2> QED BY <2>6, <2>8
<1> QED BY <1>1, <1>2

LEMMA RemoveProblemKeeps ==
    ASSUME Inv, NEW r \in Requests, RemoveFindsProblem(r) \/ RemoveWritesProblem(r),
           UNCHANGED <<users, interviews, candidates, assignments, reports>>
    PROVE  Inv' /\ (answer'[r] = answer[r] \/ answer'[r] < 500)
<1>1. CASE RemoveFindsProblem(r)
  <2>0. Notes(r) /\ boot = "up" /\ at[r] = "none" /\ UNCHANGED <<problem, assigned, submitted>>
    BY <1>1, ArrivesNotes DEF RemoveFindsProblem, problemTables
  <2>1. PICK p \in ProblemIds :
          IF Exists(p) THEN Awaits(r, "none", "remove.write", [problem |-> p])
                       ELSE Replies(r, "none", 404, 204)
    BY <1>1 DEF RemoveFindsProblem
  <2>2. CASE Replies(r, "none", 404, 204)
    BY <2>0, <2>2, ReplyingKeeps
  <2>3. CASE Exists(p) /\ Awaits(r, "none", "remove.write", [problem |-> p])
    <3> DEFINE keeps == [problem |-> p]
    <3>1. at'[r] = "remove.write" /\ local'[r] = keeps => KnowsProblem(r)'
      BY <2>0, <2>3 DEF KnowsProblem, Exists
    <3>2. Awaits(r, "none", "remove.write", keeps) /\ "remove.write" \in ProblemPlaces
      BY <2>3 DEF ProblemPlaces
    <3> HIDE DEF keeps
    <3>3. Inv' /\ answer'[r] = answer[r]
      BY <2>0, <3>1, <3>2, ProblemAwaitingKeeps
    <3> QED BY <3>3
  <2> QED BY <2>1, <2>2, <2>3
<1>2. CASE RemoveWritesProblem(r)
  <2> DEFINE p == local[r].problem
             row == [problem[p] EXCEPT !.state = "deleted"]
  <2>1. Commits(r, "remove.write", 204)
    BY <1>2 DEF RemoveWritesProblem
  <2>2. /\ Moves(r) /\ at[r] = "remove.write" /\ at'[r] = "done" /\ answer'[r] = 204
        /\ \A q \in Requests \ {r} : InFlight(q) => raced'[q]
    BY <2>1, CommitsMoves DEF Inv
  <2>3. boot = "up" /\ Notes(r) /\ p \in ProblemIds /\ Exists(p)
    BY <1>2, <2>2, InFlightIsUp DEF RemoveWritesProblem, Inv, Notes, Knows, KnowsProblem
  <2>4. problem[p] \in ProblemRow /\ problem[p].tests # {} /\ problem \in [ProblemIds -> ProblemRow]
    BY <2>3 DEF Inv, BackendTypeOK, ProblemsTypeOK, ProblemRow, SeedInv, TestsThere
  <2>5. row \in ProblemRow /\ row.tests = problem[p].tests /\ row.state = "deleted"
    BY <2>4 DEF ProblemRow
  <2>6. problem' = [problem EXCEPT ![p] = row]
    BY <1>2 DEF RemoveWritesProblem
  <2>7. /\ UNCHANGED <<users, assigned, submitted, interviews, candidates, assignments, reports>>
        /\ problem[p].state = "deleted" => row.state = "deleted"
        /\ row.state # "absent" /\ row.tests # {}
    BY <1>2, <2>4, <2>5 DEF RemoveWritesProblem
  <2> HIDE DEF row, p
  <2>9. WritesRow(p, row)
    BY <2>6 DEF WritesRow
  <2>8. Inv'
    BY <2>2, <2>3, <2>5, <2>7, <2>9, ProblemWritingKeeps
  <2> QED BY <2>2, <2>8
<1> QED BY <1>1, <1>2

LEMMA ReaderKeeps ==
    ASSUME Inv, NEW r \in Requests,
           ReaderFindsProblem(r) \/ ReaderReadsTestCases(r) \/ ReaderReplies(r),
           UNCHANGED <<users, interviews, candidates, assignments, reports>>
    PROVE  Inv' /\ (answer'[r] = answer[r] \/ answer'[r] < 500)
<1>0. UNCHANGED <<problem, assigned, submitted>>
  BY DEF ReaderFindsProblem, ReaderReadsTestCases, ReaderReplies, problemTables
<1>1. CASE ReaderFindsProblem(r)
  <2>0. Notes(r) /\ boot = "up" /\ at[r] = "none"
    BY <1>1, ArrivesNotes DEF ReaderFindsProblem
  <2>1. PICK p \in ProblemIds :
          IF Live(p) THEN Awaits(r, "none", "testcases.read", [problem |-> p])
                     ELSE Replies(r, "none", 404, 200)
    BY <1>1 DEF ReaderFindsProblem
  <2>2. CASE Replies(r, "none", 404, 200)
    BY <1>0, <2>0, <2>2, ReplyingKeeps
  <2>3. CASE Live(p) /\ Awaits(r, "none", "testcases.read", [problem |-> p])
    <3> DEFINE keeps == [problem |-> p]
    <3>1. at'[r] = "testcases.read" /\ local'[r] = keeps => KnowsProblem(r)'
      BY <1>0, <2>3 DEF KnowsProblem, Exists, Live
    <3>2. Awaits(r, "none", "testcases.read", keeps) /\ "testcases.read" \in ProblemPlaces
      BY <2>3 DEF ProblemPlaces
    <3> HIDE DEF keeps
    <3>3. Inv' /\ answer'[r] = answer[r]
      BY <1>0, <2>0, <3>1, <3>2, ProblemAwaitingKeeps
    <3> QED BY <3>3
  <2> QED BY <2>1, <2>2, <2>3
<1>2. CASE ReaderReadsTestCases(r)
  <2> DEFINE keeps == [problem |-> local[r].problem, tests |-> problem[local[r].problem].tests]
  <2>1. Awaits(r, "testcases.read", "testcases.reply", keeps) /\ gone' = gone
    BY <1>2 DEF ReaderReadsTestCases
  <2>2. at[r] = "testcases.read"
    BY <2>1 DEF Awaits, Goes
  <2>3. boot = "up" /\ Notes(r)
    BY <2>1, <2>2, InFlightIsUp DEF Notes
  <2>4. problem[local[r].problem].tests # {}
    BY <2>2, <2>3 DEF Inv, SeedInv, TestsThere, Knows, KnowsProblem
  <2>5. at'[r] = "testcases.reply" /\ local'[r] = keeps => KnowsProblem(r)'
    BY <2>4 DEF KnowsProblem
  <2>6. "testcases.reply" \in ProblemPlaces
    BY DEF ProblemPlaces
  <2> HIDE DEF keeps
  <2>7. Inv' /\ answer'[r] = answer[r]
    BY <1>0, <2>1, <2>3, <2>5, <2>6, ProblemAwaitingKeeps
  <2> QED BY <2>7
<1>3. CASE ReaderReplies(r)
  <2>1. boot = "up" /\ Notes(r)
    BY <1>3, InFlightIsUp DEF ReaderReplies, Notes
  <2>2. Replies(r, "testcases.reply", 404, 200) \/ Replies(r, "testcases.reply", 200, 200)
    BY <1>3 DEF ReaderReplies
  <2> QED BY <1>0, <2>1, <2>2, ReplyingKeeps
<1> QED BY <1>1, <1>2, <1>3

LEMMA AssignKeeps ==
    ASSUME Inv, NEW r \in Requests,
           AssignFindsProblem(r) \/ AssignFindsUser(r) \/ AssignUpserts(r),
           UNCHANGED <<users, interviews, candidates, assignments, reports>>
    PROVE  Inv' /\ (answer'[r] = answer[r] \/ answer'[r] < 500)
<1>1. CASE AssignFindsProblem(r)
  <2>0. /\ Notes(r) /\ boot = "up" /\ at[r] = "none" /\ UNCHANGED <<problem, assigned, submitted>>
        /\ Arrives(r, "assign", ProblemRoles.assign)
    BY <1>1, ArrivesNotes DEF AssignFindsProblem, problemTables
  <2>1. PICK p \in ProblemIds :
          IF Live(p) THEN Awaits(r, "none", "assign.user", [problem |-> p])
                     ELSE Replies(r, "none", 404, 200)
    BY <1>1 DEF AssignFindsProblem
  <2>2. CASE Replies(r, "none", 404, 200)
    BY <2>0, <2>2, ReplyingKeeps
  <2>3. CASE Live(p) /\ Awaits(r, "none", "assign.user", [problem |-> p])
    <3> DEFINE keeps == [problem |-> p]
    <3>0. Found(p, r)'
      BY <2>0, <2>3, FoundAtArrival
    <3>1. at'[r] = "assign.user" /\ local'[r] = keeps => KnowsProblem(r)'
      BY <3>0 DEF KnowsProblem
    <3>2. Awaits(r, "none", "assign.user", keeps) /\ "assign.user" \in ProblemPlaces
      BY <2>3 DEF ProblemPlaces
    <3> HIDE DEF keeps
    <3>3. Inv' /\ answer'[r] = answer[r]
      BY <2>0, <3>1, <3>2, ProblemAwaitingKeeps
    <3> QED BY <3>3
  <2> QED BY <2>1, <2>2, <2>3
<1>2. CASE AssignFindsUser(r)
  <2>0. /\ at[r] = "assign.user" /\ boot = "up" /\ Notes(r) /\ UNCHANGED <<problem, assigned, submitted>>
        /\ gone' = gone
    BY <1>2, InFlightIsUp DEF AssignFindsUser, problemTables, Notes
  <2>1. \/ \E code \in {404, 400} : Replies(r, "assign.user", code, 200)
        \/ \E u \in users : Awaits(r, "assign.user", "assign.write",
                                   [problem |-> local[r].problem, user |-> u.id])
    BY <1>2 DEF AssignFindsUser
  <2>2. CASE \E code \in {404, 400} : Replies(r, "assign.user", code, 200)
    <3>1. PICK code \in {404, 400} : Replies(r, "assign.user", code, 200)
      BY <2>2
    <3> QED BY <2>0, <3>1, ReplyingKeeps
  <2>3. CASE \E u \in users : Awaits(r, "assign.user", "assign.write",
                                     [problem |-> local[r].problem, user |-> u.id])
    <3>1. PICK u \in users : Awaits(r, "assign.user", "assign.write",
                                    [problem |-> local[r].problem, user |-> u.id])
      BY <2>3
    <3> DEFINE keeps == [problem |-> local[r].problem, user |-> u.id]
    <3>2. HasUser(u.id)'
      BY <2>0 DEF HasUser, UserById, Inv, BackendTypeOK, UserRow
    <3>3. Found(local[r].problem, r)
      BY <2>0 DEF Inv, Knows, KnowsProblem
    <3>4. Found(local[r].problem, r) => \A x : x = local[r].problem => Found(x, r)'
      BY <2>0 DEF Found, Exists
    <3>5. keeps.problem = local[r].problem /\ keeps.user = u.id
      OBVIOUS
    <3>6. Awaits(r, "assign.user", "assign.write", keeps) /\ "assign.write" \in ProblemPlaces
      BY <3>1 DEF ProblemPlaces
    <3> HIDE DEF keeps
    <3>7. at'[r] = "assign.write" /\ local'[r] = keeps => KnowsProblem(r)'
      BY <3>2, <3>3, <3>4, <3>5 DEF KnowsProblem
    <3>8. Inv' /\ answer'[r] = answer[r]
      BY <2>0, <3>6, <3>7, ProblemAwaitingKeeps
    <3> QED BY <3>8
  <2> QED BY <2>1, <2>2, <2>3
<1>3. CASE AssignUpserts(r)
  <2> DEFINE row == [problem |-> local[r].problem, user |-> local[r].user]
  <2>1. /\ Commits(r, "assign.write", 200) /\ assigned' = assigned \union {row}
        /\ UNCHANGED <<problem, submitted, gone>>
    BY <1>3 DEF AssignUpserts
  <2>2. /\ Moves(r) /\ at[r] = "assign.write" /\ at'[r] = "done" /\ answer'[r] = 200
        /\ \A q \in Requests \ {r} : InFlight(q) => raced'[q]
    BY <2>1, CommitsMoves DEF Inv
  <2>3. boot = "up" /\ Notes(r)
    BY <2>1, <2>2, InFlightIsUp DEF Notes
  <2>4. /\ local[r].problem \in ProblemIds /\ Exists(local[r].problem)
        /\ local[r].user \in UserIds /\ UserById(local[r].user) # {}
    BY <2>2 DEF Inv, Knows, KnowsProblem, Found, HasUser
  <2>5. TableTypes'
    <3>1. row \in [problem : ProblemIds, user : UserIds]
      BY <2>4
    <3> QED BY <2>1, <3>1 DEF TableTypes, Inv, BackendTypeOK, ProblemsTypeOK, InterviewsTypeOK,
                              ReportsTypeOK
  <2>6. Makers' /\ RestOfDeleted'
    BY <2>1, <2>2, RowsOfTheDone DEF Inv, Makers, RestOfDeleted, Exists
  <2>7. TablesConsistent'
    <3>1. \A x \in assigned' : Exists(x.problem) /\ UserById(x.user) # {}
      BY <2>1, <2>4 DEF Inv, TablesConsistent, UniqueBy
    <3> QED BY <2>1, <3>1 DEF Inv, TablesConsistent, UniqueBy, UserById, Exists
  <2>8. TestsThere' /\ Grows /\ DeletedStay
    BY <2>1, <2>3 DEF Inv, TestsThere, SeedInv, Grows, DeletedStay, Exists
  <2>9. Inv'
    BY <2>2, <2>3, <2>5, <2>6, <2>7, <2>8, WritingKeeps DEF TablesInv
  <2> QED BY <2>2, <2>9
<1> QED BY <1>1, <1>2, <1>3

LEMMA SubmitKeeps ==
    ASSUME Inv, NEW r \in Requests, SubmitFindsProblem(r) \/ SubmitInserts(r),
           UNCHANGED <<users, interviews, candidates, assignments, reports>>
    PROVE  Inv' /\ (answer'[r] = answer[r] \/ answer'[r] < 500)
<1>1. CASE SubmitFindsProblem(r)
  <2>0. /\ Notes(r) /\ boot = "up" /\ at[r] = "none" /\ UNCHANGED <<problem, assigned, submitted>>
        /\ Arrives(r, "submit", SubmissionRoles.submit)
    BY <1>1, ArrivesNotes DEF SubmitFindsProblem, problemTables
  <2>1. PICK p \in ProblemIds :
          IF Live(p) THEN Awaits(r, "none", "submit.write", [problem |-> p])
                     ELSE Replies(r, "none", 404, 202)
    BY <1>1 DEF SubmitFindsProblem
  <2>2. CASE Replies(r, "none", 404, 202)
    BY <2>0, <2>2, ReplyingKeeps
  <2>3. CASE Live(p) /\ Awaits(r, "none", "submit.write", [problem |-> p])
    <3> DEFINE keeps == [problem |-> p]
    <3>0. Found(p, r)'
      BY <2>0, <2>3, FoundAtArrival
    <3>1. at'[r] = "submit.write" /\ local'[r] = keeps => KnowsProblem(r)'
      BY <3>0 DEF KnowsProblem
    <3>2. Awaits(r, "none", "submit.write", keeps) /\ "submit.write" \in ProblemPlaces
      BY <2>3 DEF ProblemPlaces
    <3> HIDE DEF keeps
    <3>3. Inv' /\ answer'[r] = answer[r]
      BY <2>0, <3>1, <3>2, ProblemAwaitingKeeps
    <3> QED BY <3>3
  <2> QED BY <2>1, <2>2, <2>3
<1>2. CASE SubmitInserts(r)
  <2> DEFINE row == [id |-> r, problem |-> local[r].problem, status |-> "PENDING"]
  <2>1. /\ Commits(r, "submit.write", 202) /\ submitted' = submitted \union {row}
        /\ UNCHANGED <<problem, assigned, gone>>
    BY <1>2 DEF SubmitInserts
  <2>2. /\ Moves(r) /\ at[r] = "submit.write" /\ at'[r] = "done" /\ answer'[r] = 202
        /\ \A q \in Requests \ {r} : InFlight(q) => raced'[q]
    BY <2>1, CommitsMoves DEF Inv
  <2>3. boot = "up" /\ Notes(r)
    BY <2>1, <2>2, InFlightIsUp DEF Notes
  <2>4. Found(local[r].problem, r)
    BY <2>2 DEF Inv, Knows, KnowsProblem
  <2>5. TableTypes'
    <3>1. row \in [id : SubmissionIds, problem : ProblemIds, status : SubmissionStatus]
      <4>0. r \in SubmissionIds
        BY DEF SubmissionIds
      <4>1. local[r].problem \in ProblemIds
        BY <2>4 DEF Found
      <4>2. "PENDING" \in SubmissionStatus
        BY DEF SubmissionStatus
      <4> QED BY <4>0, <4>1, <4>2
    <3> QED BY <2>1, <3>1 DEF TableTypes, Inv, BackendTypeOK, ProblemsTypeOK, InterviewsTypeOK,
                              ReportsTypeOK
  <2>6. Makers'
    BY <2>1, <2>2, RowsOfTheDone DEF Inv, Makers, Exists
  <2>7. RestOfDeleted'
    BY <2>1, <2>4 DEF Inv, RestOfDeleted, Found
  <2>8. TablesConsistent'
    BY <2>1, <2>4 DEF Inv, TablesConsistent, UniqueBy, UserById, Exists, Found
  <2>9. TestsThere' /\ Grows /\ DeletedStay
    BY <2>1, <2>3 DEF Inv, TestsThere, SeedInv, Grows, DeletedStay, Exists
  <2>10. Inv'
    BY <2>2, <2>3, <2>5, <2>6, <2>7, <2>8, <2>9, WritingKeeps DEF TablesInv
  <2> QED BY <2>2, <2>10
<1> QED BY <1>1, <1>2

LEMMA ProblemKeeps ==
    ASSUME Inv, NEW r \in Requests, ProblemStep(r),
           UNCHANGED <<users, interviews, candidates, assignments, reports>>
    PROVE  Inv' /\ (answer'[r] = answer[r] \/ answer'[r] < 500 \/ raced[r])
  BY CreateProblemKeeps, UpdateProblemKeeps, RemoveProblemKeeps, AssignKeeps, SubmitKeeps,
     ReaderKeeps DEF ProblemStep

-----------------------------------------------------------------------------
(* Interviews.                                                             *)

CandidateRow == [id : InterviewIds, jobId : InterviewIds, userId : UserIds,
                 startTime : Columns, endTime : Columns]
AssignmentRow == [id : Requests, jobId : InterviewIds, userId : UserIds, problemId : ProblemIds]

SameSeat(c, d) == c.jobId = d.jobId /\ c.userId = d.userId
SameTask(a, b) == a.jobId = b.jobId /\ a.userId = b.userId /\ a.problemId = b.problemId

\* What holds of the rows of the interview tables.
LEMMA InterviewRows ==
    ASSUME Inv
    PROVE  /\ interviews \subseteq InterviewIds
           /\ candidates \subseteq CandidateRow /\ assignments \subseteq AssignmentRow
           /\ \A c \in candidates : c.jobId \in interviews /\ UserById(c.userId) # {}
           /\ \A a \in assignments :
                /\ a.jobId \in interviews /\ UserById(a.userId) # {} /\ Exists(a.problemId)
                /\ a.problemId \notin gone[a.id]
           /\ \A c, d \in candidates : SameSeat(c, d) => c = d
           /\ \A a, b \in assignments : SameTask(a, b) => a = b
<1>1. /\ interviews \subseteq InterviewIds
      /\ candidates \subseteq CandidateRow /\ assignments \subseteq AssignmentRow
  BY DEF Inv, BackendTypeOK, InterviewsTypeOK, CandidateRow, AssignmentRow
<1>2. /\ \A c \in candidates : c.jobId \in interviews /\ UserById(c.userId) # {}
      /\ \A a \in assignments :
           a.jobId \in interviews /\ UserById(a.userId) # {} /\ Exists(a.problemId)
  BY DEF Inv, TablesConsistent, UniqueBy
<1>3. /\ \A c, d \in candidates : SameSeat(c, d) => c = d
      /\ \A a, b \in assignments : SameTask(a, b) => a = b
  BY DEF Inv, TablesConsistent, UniqueBy, SameSeat, SameTask
<1> QED BY <1>1, <1>2, <1>3 DEF Inv, RestOfDeleted

\* Rows of the interview tables are written.
LEMMA InterviewWritingKeeps ==
    ASSUME Inv, NEW r \in Requests, Moves(r), Notes(r), boot = "up", at'[r] = "done",
           \A q \in Requests \ {r} : InFlight(q) => raced'[q],
           UNCHANGED <<users, problem, assigned, submitted, reports>>,
           interviews' \subseteq interviews \union {r},
           candidates' \subseteq CandidateRow, assignments' \subseteq AssignmentRow,
           \A c \in candidates' : c.jobId \in interviews' /\ UserById(c.userId) # {},
           \A a \in assignments' :
             \/ a \in assignments /\ a.jobId \in interviews'
             \/ /\ a.id = r /\ a.jobId \in interviews' /\ UserById(a.userId) # {}
                /\ Found(a.problemId, r) /\ gone' = gone,
           \A c, d \in candidates' : SameSeat(c, d) => c = d,
           \A a, b \in assignments' : SameTask(a, b) => a = b
    PROVE  Inv'
<1>1. Grows /\ DeletedStay
  BY DEF Grows, DeletedStay, Exists
<1>2. gone' \in [Requests -> SUBSET ProblemIds] /\ \A q \in Requests \ {r} : gone'[q] = gone[q]
  BY <1>1, NotesKeepGone
<1>3. TableTypes'
  <2>1. interviews' \subseteq InterviewIds
    BY InterviewRows DEF InterviewIds
  <2> QED BY <1>2, <2>1 DEF TableTypes, Inv, BackendTypeOK, ProblemsTypeOK, InterviewsTypeOK,
                            ReportsTypeOK, CandidateRow, AssignmentRow
<1>4. Makers'
  <2>1. \A i \in interviews' \intersect Requests : at'[i] = "done"
    BY RowsOfTheDone DEF Inv, Makers
  <2>2. \A a \in assignments' : at'[a.id] = "done"
    BY RowsOfTheDone DEF Inv, Makers
  <2> QED BY <2>1, <2>2, RowsOfTheDone DEF Inv, Makers, Exists
<1>5. RestOfDeleted'
  <2>1. \A a \in assignments' : a.problemId \notin gone'[a.id]
    <3> SUFFICES ASSUME NEW a \in assignments'
                 PROVE  a.problemId \notin gone'[a.id]
      OBVIOUS
    <3>1. CASE a \in assignments
      BY <1>2, <3>1, RowsOfTheDone, InterviewRows
    <3>2. CASE a.id = r /\ Found(a.problemId, r) /\ gone' = gone
      BY <3>2 DEF Found
    <3> QED BY <3>1, <3>2
  <2> QED BY <1>2, <2>1, RowsOfTheDone DEF Inv, RestOfDeleted
<1>6. TablesConsistent'
  <2>1. \A a \in assignments' :
          a.jobId \in interviews' /\ UserById(a.userId) # {} /\ Exists(a.problemId)
    BY InterviewRows DEF Found
  <2> QED BY <2>1 DEF Inv, TablesConsistent, UniqueBy, UserById, Exists, SameSeat, SameTask
<1>7. TestsThere'
  BY DEF Inv, SeedInv, TestsThere, Exists
<1> QED BY <1>1, <1>3, <1>4, <1>5, <1>6, <1>7, WritingKeeps DEF TablesInv

LEMMA InterviewAloneKeeps ==
    ASSUME Inv, NEW r \in Requests,
           CreateInterviewAlone(r) \/ RenameInterview(r) \/ RemoveInterview(r),
           UNCHANGED <<users, problem, assigned, submitted, reports>>
    PROVE  Inv' /\ answer'[r] < 500
<1>1. CASE CreateInterviewAlone(r)
  <2>0. Notes(r) /\ boot = "up" /\ at[r] = "none" /\ UNCHANGED <<candidates, assignments>>
    BY <1>1, ArrivesNotes DEF CreateInterviewAlone
  <2>1. \/ Replies(r, "none", 400, 201) /\ UNCHANGED interviews
        \/ Commits(r, "none", 201) /\ interviews' = interviews \union {r}
    BY <1>1 DEF CreateInterviewAlone
  <2>2. CASE Replies(r, "none", 400, 201) /\ UNCHANGED interviews
    BY <2>0, <2>2, ReplyingKeeps
  <2>3. CASE Commits(r, "none", 201) /\ interviews' = interviews \union {r}
    <3>1. /\ Moves(r) /\ at'[r] = "done" /\ answer'[r] = 201
          /\ \A q \in Requests \ {r} : InFlight(q) => raced'[q]
      BY <2>3, CommitsMoves DEF Inv
    <3>2. Inv'
      BY <2>0, <2>3, <3>1, InterviewRows, InterviewWritingKeeps
    <3> QED BY <3>1, <3>2
  <2> QED BY <2>1, <2>2, <2>3
<1>2. CASE RenameInterview(r)
  <2>0. Notes(r) /\ boot = "up" /\ at[r] = "none" /\ UNCHANGED <<interviews, candidates, assignments>>
    BY <1>2, ArrivesNotes DEF RenameInterview, interviewTables
  <2>1. Replies(r, "none", 404, 200) \/ Commits(r, "none", 200)
    BY <1>2 DEF RenameInterview
  <2>2. CASE Replies(r, "none", 404, 200)
    BY <2>0, <2>2, ReplyingKeeps
  <2>3. CASE Commits(r, "none", 200)
    <3>1. /\ Moves(r) /\ at'[r] = "done" /\ answer'[r] = 200
          /\ \A q \in Requests \ {r} : InFlight(q) => raced'[q]
      BY <2>3, CommitsMoves DEF Inv
    <3>2. Inv'
      BY <2>0, <2>3, <3>1, InterviewRows, InterviewWritingKeeps
    <3> QED BY <3>1, <3>2
  <2> QED BY <2>1, <2>2, <2>3
<1>3. CASE RemoveInterview(r)
  <2>0. Notes(r) /\ boot = "up" /\ at[r] = "none"
    BY <1>3, ArrivesNotes DEF RemoveInterview
  <2>1. PICK i \in InterviewIds :
          \/ Replies(r, "none", 404, 204) /\ UNCHANGED interviewTables
          \/ /\ Commits(r, "none", 204)
             /\ interviews' = interviews \ {i}
             /\ candidates' = {c \in candidates : c.jobId # i}
             /\ assignments' = {a \in assignments : a.jobId # i}
    BY <1>3 DEF RemoveInterview
  <2>2. CASE Replies(r, "none", 404, 204) /\ UNCHANGED interviewTables
    <3>1. UNCHANGED <<interviews, candidates, assignments>>
      BY <2>2 DEF interviewTables
    <3> QED BY <2>0, <2>2, <3>1, ReplyingKeeps
  <2>3. CASE /\ Commits(r, "none", 204)
             /\ interviews' = interviews \ {i}
             /\ candidates' = {c \in candidates : c.jobId # i}
             /\ assignments' = {a \in assignments : a.jobId # i}
    <3>1. /\ Moves(r) /\ at'[r] = "done" /\ answer'[r] = 204
          /\ \A q \in Requests \ {r} : InFlight(q) => raced'[q]
      BY <2>3, CommitsMoves DEF Inv
    <3>2. Inv'
      BY <2>0, <2>3, <3>1, InterviewRows, InterviewWritingKeeps
    <3> QED BY <3>1, <3>2
  <2> QED BY <2>1, <2>2, <2>3
<1> QED BY <1>1, <1>2, <1>3

LEMMA KnowsOfDraws ==
    ASSUME NEW r \in Requests, at'[r] \in {"interview.draw", "interview.write"}, KnowsDraws(r)'
    PROVE  Knows(r)'
  BY DEF Knows, KnowsAccount, KnowsProblem, KnowsCandidate, KnowsAssignment

LEMMA InterviewFindsUserKeeps ==
    ASSUME Inv, NEW r \in Requests, InterviewFindsUser(r),
           UNCHANGED <<users, problem, assigned, submitted, reports>>
    PROVE  Inv' /\ (answer'[r] = answer[r] \/ answer'[r] < 500)
<1>0. Notes(r) /\ boot = "up" /\ at[r] = "none" /\ UNCHANGED <<interviews, candidates, assignments>>
  BY ArrivesNotes DEF InterviewFindsUser, interviewTables
<1>1. PICK id \in UserIds, counts \in Counts :
        IF UserById(id) = {}
        THEN Replies(r, "none", 404, 201)
        ELSE Awaits(r, "none", DrawOrWrite(UndrawnOf(counts)),
                    [user |-> id, counts |-> counts,
                     drawn |-> [d \in Difficulties \ UndrawnOf(counts) |-> {}]])
  BY DEF InterviewFindsUser
<1>2. CASE UserById(id) = {}
  BY <1>0, <1>1, <1>2, ReplyingKeeps
<1>3. CASE UserById(id) # {}
  <2> DEFINE drawn == [d \in Difficulties \ UndrawnOf(counts) |-> {}]
             keeps == [user |-> id, counts |-> counts, drawn |-> drawn]
             to == DrawOrWrite(UndrawnOf(counts))
  <2>1. Awaits(r, "none", to, keeps)
    BY <1>1, <1>3
  <2>2. /\ keeps.user = id /\ keeps.counts = counts /\ keeps.drawn = drawn
        /\ keeps = [user |-> keeps.user, counts |-> keeps.counts, drawn |-> keeps.drawn]
    OBVIOUS
  <2>3. /\ to \in {"interview.draw", "interview.write"} /\ to \in Awaiting
        /\ to = "interview.write" => UndrawnOf(counts) = {}
    BY DEF DrawOrWrite, Awaiting
  <2>4. /\ DOMAIN drawn = Difficulties \ UndrawnOf(counts)
        /\ \A d \in DOMAIN drawn : drawn[d] = {}
    OBVIOUS
  <2>5. HasUser(id)'
    BY <1>3 DEF HasUser, UserById
  <2> HIDE DEF drawn, keeps, to
  <2>6. at'[r] = to /\ local'[r] = keeps => Knows(r)'
    <3> SUFFICES ASSUME at'[r] = to, local'[r] = keeps
                 PROVE  Knows(r)'
      OBVIOUS
    <3>1. KnowsDraws(r)'
      BY <2>2, <2>3, <2>4, <2>5 DEF KnowsDraws
    <3> QED BY <2>3, <3>1, KnowsOfDraws
  <2>7. Inv' /\ answer' = answer
    BY <1>0, <2>1, <2>3, <2>6, AwaitingKeeps
  <2> QED BY <2>7
<1> QED BY <1>2, <1>3

LEMMA DrawProblemsKeeps ==
    ASSUME Inv, NEW r \in Requests, DrawProblems(r),
           UNCHANGED <<users, problem, assigned, submitted, reports>>
    PROVE  Inv' /\ (answer'[r] = answer[r] \/ answer'[r] < 500)
<1> DEFINE L == local[r]
<1>0. /\ at[r] = "interview.draw" /\ boot = "up" /\ Notes(r) /\ gone' = gone
      /\ UNCHANGED <<interviews, candidates, assignments>>
  BY InFlightIsUp DEF DrawProblems, interviewTables, Notes
<1>1. /\ HasUser(L.user) /\ L = [user |-> L.user, counts |-> L.counts, drawn |-> L.drawn]
      /\ DOMAIN L.drawn \subseteq Difficulties
      /\ \A d \in DOMAIN L.drawn : \A p \in L.drawn[d] :
           Found(p, r) /\ (~raced[r] => problem[p].difficulty = d)
  BY <1>0 DEF Inv, Knows, KnowsDraws
<1>2. PICK d \in Difficulties \ DOMAIN L.drawn :
        IF Cardinality(Drawable(d)) < L.counts[d]
        THEN Replies(r, "interview.draw", 400, 201)
        ELSE \E picks \in SUBSET Drawable(d) :
               /\ Cardinality(picks) = L.counts[d]
               /\ LET drawn == [e \in DOMAIN L.drawn \union {d} |->
                                  IF e = d THEN picks ELSE L.drawn[e]]
                  IN Awaits(r, "interview.draw",
                       DrawOrWrite(Difficulties \ DOMAIN drawn),
                       [L EXCEPT !.drawn = drawn])
  BY DEF DrawProblems
<1>3. CASE Replies(r, "interview.draw", 400, 201)
  BY <1>0, <1>3, ReplyingKeeps
<1>4. CASE ~Replies(r, "interview.draw", 400, 201)
  <2>1. PICK picks \in SUBSET Drawable(d) :
          LET drawn == [e \in DOMAIN L.drawn \union {d} |->
                          IF e = d THEN picks ELSE L.drawn[e]]
          IN Awaits(r, "interview.draw", DrawOrWrite(Difficulties \ DOMAIN drawn),
                    [L EXCEPT !.drawn = drawn])
    BY <1>2, <1>4
  <2> DEFINE drawn == [e \in DOMAIN L.drawn \union {d} |-> IF e = d THEN picks ELSE L.drawn[e]]
             keeps == [L EXCEPT !.drawn = drawn]
             to == DrawOrWrite(Difficulties \ DOMAIN drawn)
  <2>2. Awaits(r, "interview.draw", to, keeps)
    BY <2>1
  <2>3. /\ DOMAIN drawn = DOMAIN L.drawn \union {d} /\ drawn[d] = picks
        /\ \A e \in DOMAIN drawn : e # d => e \in DOMAIN L.drawn /\ drawn[e] = L.drawn[e]
    OBVIOUS
  <2>4. /\ to \in {"interview.draw", "interview.write"} /\ to \in Awaiting
        /\ to = "interview.write" => Difficulties \subseteq DOMAIN drawn
    BY DEF DrawOrWrite, Awaiting
  <2> HIDE DEF drawn, to
  <2>5. keeps = [user |-> L.user, counts |-> L.counts, drawn |-> drawn]
    BY <1>1
  <2>6. \A p \in picks : Found(p, r) /\ problem[p].difficulty = d
    BY <1>0 DEF Drawable, Live, Found, Exists, Inv, GoneIsDeleted
  <2>7. \A e \in DOMAIN drawn : \A p \in drawn[e] :
          Found(p, r)' /\ (~raced[r] => problem'[p].difficulty = e)
    BY <1>0, <1>1, <2>3, <2>6 DEF Found, Exists
  <2>8. HasUser(L.user) => \A id : id = L.user => HasUser(id)'
    BY DEF HasUser, UserById
  <2> HIDE DEF L, keeps
  <2>9. keeps.user = L.user /\ keeps.drawn = drawn
        /\ keeps = [user |-> keeps.user, counts |-> keeps.counts, drawn |-> keeps.drawn]
    BY <2>5
  <2>10. at'[r] = to /\ local'[r] = keeps /\ raced'[r] = raced[r] => Knows(r)'
    <3> SUFFICES ASSUME at'[r] = to, local'[r] = keeps, raced'[r] = raced[r]
                 PROVE  Knows(r)'
      OBVIOUS
    <3>1. DOMAIN drawn \subseteq Difficulties /\ (to = "interview.write" => DOMAIN drawn = Difficulties)
      BY <1>1, <2>3, <2>4
    <3>2. KnowsDraws(r)'
      BY <1>1, <2>7, <2>8, <2>9, <3>1 DEF KnowsDraws
    <3> QED BY <2>4, <3>2, KnowsOfDraws
  <2>11. Inv' /\ answer' = answer
    BY <1>0, <2>2, <2>4, <2>10, AwaitingKeeps
  <2> QED BY <2>11
<1> QED BY <1>3, <1>4

LEMMA InterviewWritesKeeps ==
    ASSUME Inv, NEW r \in Requests, InterviewWrites(r),
           UNCHANGED <<users, problem, assigned, submitted, reports>>
    PROVE  Inv' /\ (answer'[r] = answer[r] \/ answer'[r] < 500 \/ raced[r])
<1> DEFINE L == local[r]
<1>0. at[r] = "interview.write" /\ boot = "up" /\ Notes(r) /\ gone' = gone
  BY InFlightIsUp DEF InterviewWrites, Notes
<1>1. /\ HasUser(L.user) /\ DOMAIN L.drawn = Difficulties
      /\ \A d \in Difficulties : \A p \in L.drawn[d] :
           Found(p, r) /\ (~raced[r] => problem[p].difficulty = d)
  BY <1>0 DEF Inv, Knows, KnowsDraws
<1>2. CASE DrawnTwice(r)
  <2>1. Replies(r, "interview.write", 500, 201) /\ UNCHANGED interviewTables
    BY <1>2 DEF InterviewWrites
  <2>2. raced[r]
    BY <1>1, <1>2 DEF DrawnTwice, Inv, Handlers, RequestsTypeOK
  <2>3. UNCHANGED <<interviews, candidates, assignments>>
    BY <2>1 DEF interviewTables
  <2> QED BY <1>0, <2>1, <2>2, <2>3, ReplyingKeeps
<1>3. CASE ~DrawnTwice(r)
  <2> DEFINE seat == [id |-> r, jobId |-> r, userId |-> L.user, startTime |-> Null, endTime |-> Null]
             tasks == {[id |-> r, jobId |-> r, userId |-> L.user, problemId |-> p] : p \in Drawn(r)}
  <2>1. /\ Commits(r, "interview.write", 201)
        /\ interviews' = interviews \union {r}
        /\ candidates' = candidates \union {seat}
        /\ assignments' = assignments \union tasks
    BY <1>3 DEF InterviewWrites
  <2>2. /\ Moves(r) /\ at'[r] = "done" /\ answer'[r] = 201
        /\ \A q \in Requests \ {r} : InFlight(q) => raced'[q]
    BY <2>1, CommitsMoves DEF Inv
  <2>3. r \notin interviews
    BY <2>2, RowsOfTheDone
  <2>4. L.user \in UserIds /\ UserById(L.user) # {} /\ r \in InterviewIds
    BY <1>1 DEF HasUser, InterviewIds
  <2>5. /\ seat \in CandidateRow /\ seat.jobId = r /\ seat.userId = L.user
    BY <2>4 DEF CandidateRow, Columns
  <2>6. \A p \in Drawn(r) : Found(p, r) /\ p \in ProblemIds
    BY <1>1 DEF Drawn, Found
  <2>7. ASSUME NEW a \in tasks
        PROVE  /\ a \in AssignmentRow /\ a.id = r /\ a.jobId = r /\ a.userId = L.user
               /\ Found(a.problemId, r)
               /\ a = [id |-> r, jobId |-> r, userId |-> L.user, problemId |-> a.problemId]
    BY <2>4, <2>6 DEF AssignmentRow
  <2> HIDE DEF seat, tasks
  <2>8. /\ \A c \in candidates' : c.jobId \in interviews' /\ UserById(c.userId) # {}
        /\ \A c, d \in candidates' : SameSeat(c, d) => c = d
        /\ candidates' \subseteq CandidateRow
    BY <2>1, <2>3, <2>4, <2>5, InterviewRows DEF SameSeat
  <2>9. /\ assignments' \subseteq AssignmentRow
        /\ \A a \in assignments' :
             \/ a \in assignments /\ a.jobId \in interviews'
             \/ /\ a.id = r /\ a.jobId \in interviews' /\ UserById(a.userId) # {}
                /\ Found(a.problemId, r) /\ gone' = gone
    BY <1>0, <2>1, <2>4, <2>7, InterviewRows
  <2>10. \A a, b \in assignments' : SameTask(a, b) => a = b
    <3> SUFFICES ASSUME NEW a \in assignments', NEW b \in assignments', SameTask(a, b)
                 PROVE  a = b
      OBVIOUS
    <3>1. CASE a \in tasks /\ b \in tasks
      BY <2>7, <3>1 DEF SameTask
    <3>2. CASE a \in assignments /\ b \in assignments
      BY <3>2, InterviewRows
    <3>3. (a \in tasks <=> a.jobId = r) /\ (b \in tasks <=> b.jobId = r)
      BY <2>1, <2>3, <2>7, InterviewRows
    <3> QED BY <2>1, <3>1, <3>2, <3>3 DEF SameTask
  <2>11. Inv'
    BY <1>0, <2>1, <2>2, <2>8, <2>9, <2>10, InterviewWritingKeeps
  <2> QED BY <2>2, <2>11
<1> QED BY <1>2, <1>3

LEMMA InterviewKeeps ==
    ASSUME Inv, NEW r \in Requests, InterviewStep(r),
           UNCHANGED <<users, problem, assigned, submitted, reports>>
    PROVE  Inv' /\ (answer'[r] = answer[r] \/ answer'[r] < 500 \/ raced[r])
  BY InterviewAloneKeeps, InterviewFindsUserKeeps, DrawProblemsKeeps, InterviewWritesKeeps
     DEF InterviewStep

-----------------------------------------------------------------------------
(* Assignments.                                                            *)

AssignmentPlaces ==
    {"assignment.user", "assignment.problem", "assignment.write", "assignment.delete"}

LEMMA AssignmentAwaitingKeeps ==
    ASSUME Inv, NEW r \in Requests, NEW from, NEW to \in AssignmentPlaces, NEW keeps,
           from # "done", Awaits(r, from, to, keeps), Notes(r), boot = "up",
           UNCHANGED <<users, problem, assigned, submitted, interviews, candidates, assignments, reports>>,
           at'[r] = to /\ local'[r] = keeps /\ raced'[r] = raced[r] => KnowsAssignment(r)'
    PROVE  Inv' /\ answer'[r] = answer[r]
<1>1. to \in Awaiting
  BY DEF AssignmentPlaces, Awaiting
<1>2. at'[r] = to /\ local'[r] = keeps /\ raced'[r] = raced[r] => Knows(r)'
  BY DEF AssignmentPlaces, Knows, KnowsAccount, KnowsProblem, KnowsDraws, KnowsCandidate
<1>3. Inv' /\ answer' = answer
  BY <1>1, <1>2, AwaitingKeeps
<1> QED BY <1>3

LEMMA AssignmentFindsKeeps ==
    ASSUME Inv, NEW r \in Requests,
           \/ AssignmentFindsInterview(r) \/ AssignmentFindsUser(r) \/ AssignmentFindsProblem(r)
           \/ RemoveFindsAssignment(r),
           UNCHANGED <<users, problem, assigned, submitted, reports>>
    PROVE  Inv' /\ (answer'[r] = answer[r] \/ answer'[r] < 500)
<1>0. UNCHANGED <<interviews, candidates, assignments>>
  BY DEF AssignmentFindsInterview, AssignmentFindsUser, AssignmentFindsProblem,
         RemoveFindsAssignment, interviewTables
<1>1. CASE AssignmentFindsInterview(r)
  <2>0. Notes(r) /\ boot = "up" /\ at[r] = "none"
    BY <1>1, ArrivesNotes DEF AssignmentFindsInterview
  <2>1. PICK i \in InterviewIds :
          IF i \in interviews THEN Awaits(r, "none", "assignment.user", [jobId |-> i])
                              ELSE Replies(r, "none", 404, 201)
    BY <1>1 DEF AssignmentFindsInterview
  <2>2. CASE i \in interviews
    <3> DEFINE keeps == [jobId |-> i]
    <3>1. at'[r] = "assignment.user" /\ local'[r] = keeps => KnowsAssignment(r)'
      BY <1>0, <2>2 DEF KnowsAssignment
    <3>2. Awaits(r, "none", "assignment.user", keeps) /\ "assignment.user" \in AssignmentPlaces
      BY <2>1, <2>2 DEF AssignmentPlaces
    <3> HIDE DEF keeps
    <3>3. Inv' /\ answer'[r] = answer[r]
      BY <1>0, <2>0, <3>1, <3>2, AssignmentAwaitingKeeps
    <3> QED BY <3>3
  <2> QED BY <1>0, <2>0, <2>1, <2>2, ReplyingKeeps
<1>2. CASE AssignmentFindsUser(r)
  <2>0. at[r] = "assignment.user" /\ boot = "up" /\ Notes(r)
    BY <1>2, InFlightIsUp DEF AssignmentFindsUser, Notes
  <2>1. PICK id \in UserIds :
          \/ Replies(r, "assignment.user", 404, 201)
          \/ Replies(r, "assignment.user", 400, 201)
          \/ /\ UserById(id) # {}
             /\ Awaits(r, "assignment.user", "assignment.problem",
                       [jobId |-> local[r].jobId, userId |-> id])
    BY <1>2 DEF AssignmentFindsUser
  <2>2. CASE Replies(r, "assignment.user", 404, 201) \/ Replies(r, "assignment.user", 400, 201)
    BY <1>0, <2>0, <2>2, ReplyingKeeps
  <2>3. CASE /\ UserById(id) # {}
             /\ Awaits(r, "assignment.user", "assignment.problem",
                       [jobId |-> local[r].jobId, userId |-> id])
    <3> DEFINE keeps == [jobId |-> local[r].jobId, userId |-> id]
    <3>1. keeps.jobId = local[r].jobId /\ keeps.userId = id
      OBVIOUS
    <3>2. HasUser(id)'
      BY <2>3 DEF HasUser, UserById
    <3>3. local[r].jobId \in InterviewIds /\ (~raced[r] => local[r].jobId \in interviews')
      BY <1>0, <2>0 DEF Inv, Knows, KnowsAssignment
    <3>4. Awaits(r, "assignment.user", "assignment.problem", keeps)
          /\ "assignment.problem" \in AssignmentPlaces
      BY <2>3 DEF AssignmentPlaces
    <3> HIDE DEF keeps
    <3>5. at'[r] = "assignment.problem" /\ local'[r] = keeps /\ raced'[r] = raced[r]
            => KnowsAssignment(r)'
      BY <3>1, <3>2, <3>3 DEF KnowsAssignment
    <3>6. Inv' /\ answer'[r] = answer[r]
      BY <1>0, <2>0, <3>4, <3>5, AssignmentAwaitingKeeps
    <3> QED BY <3>6
  <2> QED BY <2>1, <2>2, <2>3
<1>3. CASE AssignmentFindsProblem(r)
  <2>0. at[r] = "assignment.problem" /\ boot = "up" /\ Notes(r) /\ gone' = gone
    BY <1>3, InFlightIsUp DEF AssignmentFindsProblem, Notes
  <2>1. PICK p \in ProblemIds :
          IF Live(p)
          THEN Awaits(r, "assignment.problem", "assignment.write",
                      [jobId |-> local[r].jobId, userId |-> local[r].userId, problemId |-> p])
          ELSE Replies(r, "assignment.problem", 404, 201)
    BY <1>3 DEF AssignmentFindsProblem
  <2>2. CASE ~Live(p)
    BY <1>0, <2>0, <2>1, <2>2, ReplyingKeeps
  <2>3. CASE Live(p)
    <3> DEFINE keeps == [jobId |-> local[r].jobId, userId |-> local[r].userId, problemId |-> p]
    <3>1. keeps.jobId = local[r].jobId /\ keeps.userId = local[r].userId /\ keeps.problemId = p
      OBVIOUS
    <3>2. HasUser(local[r].userId) => \A id : id = local[r].userId => HasUser(id)'
      BY DEF HasUser, UserById
    <3>3. /\ local[r].jobId \in InterviewIds /\ (~raced[r] => local[r].jobId \in interviews')
          /\ HasUser(local[r].userId)
      BY <1>0, <2>0 DEF Inv, Knows, KnowsAssignment
    <3>4. Found(p, r)'
      BY <2>0, <2>3 DEF Live, Found, Exists, Inv, GoneIsDeleted
    <3>5. Awaits(r, "assignment.problem", "assignment.write", keeps)
          /\ "assignment.write" \in AssignmentPlaces
      BY <2>1, <2>3 DEF AssignmentPlaces
    <3> HIDE DEF keeps
    <3>6. at'[r] = "assignment.write" /\ local'[r] = keeps /\ raced'[r] = raced[r]
            => KnowsAssignment(r)'
      BY <3>1, <3>2, <3>3, <3>4 DEF KnowsAssignment
    <3>7. Inv' /\ answer'[r] = answer[r]
      BY <1>0, <2>0, <3>5, <3>6, AssignmentAwaitingKeeps
    <3> QED BY <3>7
  <2> QED BY <2>2, <2>3
<1>4. CASE RemoveFindsAssignment(r)
  <2>0. Notes(r) /\ boot = "up" /\ at[r] = "none"
    BY <1>4, ArrivesNotes DEF RemoveFindsAssignment
  <2>1. CASE Replies(r, "none", 404, 204)
    BY <1>0, <2>0, <2>1, ReplyingKeeps
  <2>2. CASE \E a \in assignments : Awaits(r, "none", "assignment.delete", [row |-> a])
    <3>1. PICK a \in assignments : Awaits(r, "none", "assignment.delete", [row |-> a])
      BY <2>2
    <3> DEFINE keeps == [row |-> a]
    <3>2. at'[r] = "assignment.delete" /\ local'[r] = keeps => KnowsAssignment(r)'
      BY <1>0, <3>1 DEF KnowsAssignment
    <3>3. Awaits(r, "none", "assignment.delete", keeps) /\ "assignment.delete" \in AssignmentPlaces
      BY <3>1 DEF AssignmentPlaces
    <3> HIDE DEF keeps
    <3>4. Inv' /\ answer'[r] = answer[r]
      BY <1>0, <2>0, <3>2, <3>3, AssignmentAwaitingKeeps
    <3> QED BY <3>4
  <2> QED BY <1>4, <2>1, <2>2 DEF RemoveFindsAssignment
<1> QED BY <1>1, <1>2, <1>3, <1>4

LEMMA AssignmentInsertsKeeps ==
    ASSUME Inv, NEW r \in Requests, AssignmentInserts(r),
           UNCHANGED <<users, problem, assigned, submitted, reports>>
    PROVE  Inv' /\ (answer'[r] = answer[r] \/ answer'[r] < 500 \/ raced[r])
<1> DEFINE L == local[r]
           row == [id |-> r, jobId |-> L.jobId, userId |-> L.userId, problemId |-> L.problemId]
<1>0. /\ at[r] = "assignment.write" /\ boot = "up" /\ Notes(r) /\ gone' = gone
      /\ UNCHANGED <<interviews, candidates>>
  BY InFlightIsUp DEF AssignmentInserts, Notes
<1>1. /\ L.jobId \in InterviewIds /\ (~raced[r] => L.jobId \in interviews)
      /\ HasUser(L.userId) /\ Found(L.problemId, r)
  BY <1>0 DEF Inv, Knows, KnowsAssignment
<1>2. CASE Replies(r, "assignment.write", 500, 201) /\ L.jobId \notin interviews /\ UNCHANGED assignments
  <2>1. raced[r]
    BY <1>1, <1>2 DEF Inv, Handlers, RequestsTypeOK
  <2> QED BY <1>0, <1>2, <2>1, ReplyingKeeps
<1>3. CASE Replies(r, "assignment.write", 409, 201) /\ UNCHANGED assignments
  BY <1>0, <1>3, ReplyingKeeps
<1>4. CASE /\ L.jobId \in interviews
           /\ ~\E a \in assignments :
                 a.jobId = L.jobId /\ a.userId = L.userId /\ a.problemId = L.problemId
           /\ Commits(r, "assignment.write", 201)
           /\ assignments' = assignments \union {row}
  <2>1. /\ Moves(r) /\ at'[r] = "done" /\ answer'[r] = 201
        /\ \A q \in Requests \ {r} : InFlight(q) => raced'[q]
    BY <1>4, CommitsMoves DEF Inv
  <2>2. /\ row \in AssignmentRow /\ row.id = r /\ row.jobId = L.jobId /\ row.userId = L.userId
        /\ row.problemId = L.problemId /\ UserById(L.userId) # {}
    BY <1>1 DEF AssignmentRow, HasUser, Found
  <2> HIDE DEF row, L
  <2>3. /\ assignments' \subseteq AssignmentRow
        /\ \A a \in assignments' :
             \/ a \in assignments /\ a.jobId \in interviews'
             \/ /\ a.id = r /\ a.jobId \in interviews' /\ UserById(a.userId) # {}
                /\ Found(a.problemId, r) /\ gone' = gone
    BY <1>0, <1>1, <1>4, <2>2, InterviewRows
  <2>4. \A a, b \in assignments' : SameTask(a, b) => a = b
    BY <1>4, <2>2, InterviewRows DEF SameTask
  <2>5. Inv'
    BY <1>0, <2>1, <2>3, <2>4, InterviewRows, InterviewWritingKeeps
  <2> QED BY <2>1, <2>5
<1> QED BY <1>2, <1>3, <1>4 DEF AssignmentInserts

LEMMA DeletesAssignmentKeeps ==
    ASSUME Inv, NEW r \in Requests, DeletesAssignment(r),
           UNCHANGED <<users, problem, assigned, submitted, reports>>
    PROVE  Inv' /\ (answer'[r] = answer[r] \/ answer'[r] < 500 \/ raced[r])
<1>0. /\ at[r] = "assignment.delete" /\ boot = "up" /\ Notes(r)
      /\ UNCHANGED <<interviews, candidates>> /\ assignments' \subseteq assignments
  BY InFlightIsUp DEF DeletesAssignment, Notes
<1>1. CASE local[r].row \in assignments
  <2>0. Commits(r, "assignment.delete", 204)
    BY <1>1 DEF DeletesAssignment
  <2>1. /\ Moves(r) /\ at'[r] = "done" /\ answer'[r] = 204
        /\ \A q \in Requests \ {r} : InFlight(q) => raced'[q]
    BY <2>0, CommitsMoves DEF Inv
  <2>2. Inv'
    BY <1>0, <2>1, InterviewRows, InterviewWritingKeeps
  <2> QED BY <2>1, <2>2
<1>2. CASE local[r].row \notin assignments
  <2>1. Replies(r, "assignment.delete", 500, 204) /\ assignments' = assignments
    BY <1>2 DEF DeletesAssignment
  <2>2. raced[r]
    BY <1>0, <1>2 DEF Inv, Knows, KnowsAssignment, Handlers, RequestsTypeOK
  <2> QED BY <1>0, <2>1, <2>2, ReplyingKeeps
<1> QED BY <1>1, <1>2

LEMMA AssignmentKeeps ==
    ASSUME Inv, NEW r \in Requests, AssignmentStep(r),
           UNCHANGED <<users, problem, assigned, submitted, reports>>
    PROVE  Inv' /\ (answer'[r] = answer[r] \/ answer'[r] < 500 \/ raced[r])
  BY AssignmentFindsKeeps, AssignmentInsertsKeeps, DeletesAssignmentKeeps DEF AssignmentStep

-----------------------------------------------------------------------------
(* Candidates.                                                             *)

CandidatePlaces == {"candidate.user", "candidate.write", "time.write", "candidate.delete"}

LEMMA CandidateAwaitingKeeps ==
    ASSUME Inv, NEW r \in Requests, NEW from, NEW to \in CandidatePlaces, NEW keeps,
           from # "done", Awaits(r, from, to, keeps), Notes(r), boot = "up",
           UNCHANGED <<users, problem, assigned, submitted, interviews, candidates, assignments, reports>>,
           at'[r] = to /\ local'[r] = keeps /\ raced'[r] = raced[r] => KnowsCandidate(r)'
    PROVE  Inv' /\ answer'[r] = answer[r]
<1>1. to \in Awaiting
  BY DEF CandidatePlaces, Awaiting
<1>2. at'[r] = to /\ local'[r] = keeps /\ raced'[r] = raced[r] => Knows(r)'
  BY DEF CandidatePlaces, Knows, KnowsAccount, KnowsProblem, KnowsDraws, KnowsAssignment
<1>3. Inv' /\ answer' = answer
  BY <1>1, <1>2, AwaitingKeeps
<1> QED BY <1>3

LEMMA CandidateFindsKeeps ==
    ASSUME Inv, NEW r \in Requests,
           CandidateFindsInterview(r) \/ CandidateFindsUser(r) \/ RemoveFindsCandidate(r),
           UNCHANGED <<users, problem, assigned, submitted, reports>>
    PROVE  Inv' /\ (answer'[r] = answer[r] \/ answer'[r] < 500)
<1>0. UNCHANGED <<interviews, candidates, assignments>>
  BY DEF CandidateFindsInterview, CandidateFindsUser, RemoveFindsCandidate, interviewTables
<1>1. CASE CandidateFindsInterview(r)
  <2>0. Notes(r) /\ boot = "up" /\ at[r] = "none"
    BY <1>1, ArrivesNotes DEF CandidateFindsInterview
  <2>1. PICK i \in InterviewIds, start \in Columns, end \in Columns :
          \/ Replies(r, "none", 400, 201)
          \/ Replies(r, "none", 404, 201)
          \/ /\ validateTimeRange(start, end) /\ i \in interviews
             /\ Awaits(r, "none", "candidate.user",
                       [jobId |-> i, startTime |-> start, endTime |-> end])
    BY <1>1 DEF CandidateFindsInterview
  <2>2. CASE Replies(r, "none", 400, 201) \/ Replies(r, "none", 404, 201)
    BY <1>0, <2>0, <2>2, ReplyingKeeps
  <2>3. CASE /\ validateTimeRange(start, end) /\ i \in interviews
             /\ Awaits(r, "none", "candidate.user",
                       [jobId |-> i, startTime |-> start, endTime |-> end])
    <3> DEFINE keeps == [jobId |-> i, startTime |-> start, endTime |-> end]
    <3>1. keeps.jobId = i /\ keeps.startTime = start /\ keeps.endTime = end
      OBVIOUS
    <3>2. Awaits(r, "none", "candidate.user", keeps) /\ "candidate.user" \in CandidatePlaces
      BY <2>3 DEF CandidatePlaces
    <3> HIDE DEF keeps
    <3>3. at'[r] = "candidate.user" /\ local'[r] = keeps => KnowsCandidate(r)'
      BY <1>0, <2>3, <3>1 DEF KnowsCandidate
    <3>4. Inv' /\ answer'[r] = answer[r]
      BY <1>0, <2>0, <3>2, <3>3, CandidateAwaitingKeeps
    <3> QED BY <3>4
  <2> QED BY <2>1, <2>2, <2>3
<1>2. CASE CandidateFindsUser(r)
  <2>0. at[r] = "candidate.user" /\ boot = "up" /\ Notes(r)
    BY <1>2, InFlightIsUp DEF CandidateFindsUser, Notes
  <2>1. PICK id \in UserIds :
          \/ Replies(r, "candidate.user", 404, 201)
          \/ Replies(r, "candidate.user", 400, 201)
          \/ /\ UserById(id) # {}
             /\ Awaits(r, "candidate.user", "candidate.write",
                       [jobId |-> local[r].jobId, userId |-> id,
                        startTime |-> local[r].startTime, endTime |-> local[r].endTime])
    BY <1>2 DEF CandidateFindsUser
  <2>2. CASE Replies(r, "candidate.user", 404, 201) \/ Replies(r, "candidate.user", 400, 201)
    BY <1>0, <2>0, <2>2, ReplyingKeeps
  <2>3. CASE /\ UserById(id) # {}
             /\ Awaits(r, "candidate.user", "candidate.write",
                       [jobId |-> local[r].jobId, userId |-> id,
                        startTime |-> local[r].startTime, endTime |-> local[r].endTime])
    <3> DEFINE keeps == [jobId |-> local[r].jobId, userId |-> id,
                         startTime |-> local[r].startTime, endTime |-> local[r].endTime]
    <3>1. /\ keeps.jobId = local[r].jobId /\ keeps.userId = id
          /\ keeps.startTime = local[r].startTime /\ keeps.endTime = local[r].endTime
      OBVIOUS
    <3>2. HasUser(id)'
      BY <2>3 DEF HasUser, UserById
    <3>3. /\ local[r].jobId \in InterviewIds /\ (~raced[r] => local[r].jobId \in interviews')
          /\ local[r].startTime \in Columns /\ local[r].endTime \in Columns
          /\ validateTimeRange(local[r].startTime, local[r].endTime)
      BY <1>0, <2>0 DEF Inv, Knows, KnowsCandidate
    <3>4. Awaits(r, "candidate.user", "candidate.write", keeps) /\ "candidate.write" \in CandidatePlaces
      BY <2>3 DEF CandidatePlaces
    <3> HIDE DEF keeps
    <3>5. at'[r] = "candidate.write" /\ local'[r] = keeps /\ raced'[r] = raced[r] => KnowsCandidate(r)'
      BY <3>1, <3>2, <3>3 DEF KnowsCandidate
    <3>6. Inv' /\ answer'[r] = answer[r]
      BY <1>0, <2>0, <3>4, <3>5, CandidateAwaitingKeeps
    <3> QED BY <3>6
  <2> QED BY <2>1, <2>2, <2>3
<1>3. CASE RemoveFindsCandidate(r)
  <2>0. Notes(r) /\ boot = "up" /\ at[r] = "none"
    BY <1>3, ArrivesNotes DEF RemoveFindsCandidate
  <2>1. CASE Replies(r, "none", 404, 204)
    BY <1>0, <2>0, <2>1, ReplyingKeeps
  <2>2. CASE \E c \in candidates : Awaits(r, "none", "candidate.delete", [row |-> c])
    <3>1. PICK c \in candidates : Awaits(r, "none", "candidate.delete", [row |-> c])
      BY <2>2
    <3> DEFINE keeps == [row |-> c]
    <3>2. at'[r] = "candidate.delete" /\ local'[r] = keeps => KnowsCandidate(r)'
      BY <1>0, <3>1 DEF KnowsCandidate
    <3>3. Awaits(r, "none", "candidate.delete", keeps) /\ "candidate.delete" \in CandidatePlaces
      BY <3>1 DEF CandidatePlaces
    <3> HIDE DEF keeps
    <3>4. Inv' /\ answer'[r] = answer[r]
      BY <1>0, <2>0, <3>2, <3>3, CandidateAwaitingKeeps
    <3> QED BY <3>4
  <2> QED BY <1>3, <2>1, <2>2 DEF RemoveFindsCandidate
<1> QED BY <1>1, <1>2, <1>3

LEMMA UpdateTimeFindsKeeps ==
    ASSUME Inv, NEW r \in Requests, UpdateTimeFinds(r),
           UNCHANGED <<users, problem, assigned, submitted, reports>>
    PROVE  Inv' /\ (answer'[r] = answer[r] \/ answer'[r] < 500)
<1>0. /\ Notes(r) /\ boot = "up" /\ at[r] = "none"
      /\ UNCHANGED <<interviews, candidates, assignments>>
  BY ArrivesNotes DEF UpdateTimeFinds, interviewTables
<1>1. CASE \E code \in {404, 400, 200} : Replies(r, "none", code, 200)
  <2>1. PICK code \in {404, 400, 200} : Replies(r, "none", code, 200)
    BY <1>1
  <2> QED BY <1>0, <2>1, ReplyingKeeps
<1>2. ASSUME NEW c \in candidates, NEW start \in Columns \union {Undefined},
             NEW end \in Columns \union {Undefined},
             validateTimeRange(Or(start, c.startTime), Or(end, c.endTime)),
             Awaits(r, "none", "time.write", [row |-> c, startTime |-> start, endTime |-> end])
      PROVE  Inv' /\ answer'[r] = answer[r]
  <2> DEFINE keeps == [row |-> c, startTime |-> start, endTime |-> end]
  <2>1. keeps.row = c /\ keeps.startTime = start /\ keeps.endTime = end
    OBVIOUS
  <2>2. Awaits(r, "none", "time.write", keeps) /\ "time.write" \in CandidatePlaces
    BY <1>2 DEF CandidatePlaces
  <2> HIDE DEF keeps
  <2>3. at'[r] = "time.write" /\ local'[r] = keeps => KnowsCandidate(r)'
    BY <1>0, <1>2, <2>1 DEF KnowsCandidate
  <2> QED BY <1>0, <2>2, <2>3, CandidateAwaitingKeeps
<1>3. CASE \E c \in candidates, start, end \in Columns \union {Undefined} :
             /\ validateTimeRange(Or(start, c.startTime), Or(end, c.endTime))
             /\ Awaits(r, "none", "time.write", [row |-> c, startTime |-> start, endTime |-> end])
  BY <1>2, <1>3
<1> QED BY <1>1, <1>3 DEF UpdateTimeFinds

LEMMA CandidateInsertsKeeps ==
    ASSUME Inv, NEW r \in Requests, CandidateInserts(r),
           UNCHANGED <<users, problem, assigned, submitted, reports>>
    PROVE  Inv' /\ (answer'[r] = answer[r] \/ answer'[r] < 500 \/ raced[r])
<1> DEFINE L == local[r]
           row == [id |-> r, jobId |-> L.jobId, userId |-> L.userId,
                   startTime |-> L.startTime, endTime |-> L.endTime]
<1>0. /\ at[r] = "candidate.write" /\ boot = "up" /\ Notes(r) /\ gone' = gone
      /\ UNCHANGED <<interviews, assignments>>
  BY InFlightIsUp DEF CandidateInserts, Notes
<1>1. /\ L.jobId \in InterviewIds /\ (~raced[r] => L.jobId \in interviews)
      /\ L.startTime \in Columns /\ L.endTime \in Columns /\ HasUser(L.userId)
  BY <1>0 DEF Inv, Knows, KnowsCandidate
<1>2. CASE Replies(r, "candidate.write", 500, 201) /\ L.jobId \notin interviews /\ UNCHANGED candidates
  <2>1. raced[r]
    BY <1>1, <1>2 DEF Inv, Handlers, RequestsTypeOK
  <2> QED BY <1>0, <1>2, <2>1, ReplyingKeeps
<1>3. CASE Replies(r, "candidate.write", 409, 201) /\ UNCHANGED candidates
  BY <1>0, <1>3, ReplyingKeeps
<1>4. CASE /\ L.jobId \in interviews
           /\ ~\E c \in candidates : c.jobId = L.jobId /\ c.userId = L.userId
           /\ Commits(r, "candidate.write", 201)
           /\ candidates' = candidates \union {row}
  <2>1. /\ Moves(r) /\ at'[r] = "done" /\ answer'[r] = 201
        /\ \A q \in Requests \ {r} : InFlight(q) => raced'[q]
    BY <1>4, CommitsMoves DEF Inv
  <2>2. /\ row \in CandidateRow /\ row.jobId = L.jobId /\ row.userId = L.userId
        /\ UserById(L.userId) # {}
    BY <1>1 DEF CandidateRow, HasUser, InterviewIds
  <2> HIDE DEF row, L
  <2>3. /\ candidates' \subseteq CandidateRow
        /\ \A c \in candidates' : c.jobId \in interviews' /\ UserById(c.userId) # {}
    BY <1>0, <1>4, <2>2, InterviewRows
  <2>4. \A c, d \in candidates' : SameSeat(c, d) => c = d
    BY <1>4, <2>2, InterviewRows DEF SameSeat
  <2>5. Inv'
    BY <1>0, <2>1, <2>3, <2>4, InterviewRows, InterviewWritingKeeps
  <2> QED BY <2>1, <2>5
<1> QED BY <1>2, <1>3, <1>4 DEF CandidateInserts

LEMMA UpdateTimeWritesKeeps ==
    ASSUME Inv, NEW r \in Requests, UpdateTimeWrites(r),
           UNCHANGED <<users, problem, assigned, submitted, reports>>
    PROVE  Inv' /\ (answer'[r] = answer[r] \/ answer'[r] < 500 \/ raced[r])
<1> DEFINE L == local[r]
           Written(c) == IF c.id # L.row.id THEN c
                         ELSE [c EXCEPT !.startTime = Or(L.startTime, @),
                                        !.endTime = Or(L.endTime, @)]
<1>0. /\ at[r] = "time.write" /\ boot = "up" /\ Notes(r)
      /\ UNCHANGED <<interviews, assignments>>
  BY InFlightIsUp DEF UpdateTimeWrites, Notes
<1>1. /\ L.startTime \in Columns \union {Undefined} /\ L.endTime \in Columns \union {Undefined}
      /\ ~raced[r] => L.row \in candidates
  BY <1>0 DEF Inv, Knows, KnowsCandidate
<1>2. CASE \A c \in candidates : c.id # L.row.id
  <2>1. Replies(r, "time.write", 500, 200) /\ UNCHANGED candidates
    BY <1>2 DEF UpdateTimeWrites
  <2>2. raced[r]
    BY <1>1, <1>2 DEF Inv, Handlers, RequestsTypeOK
  <2> QED BY <1>0, <2>1, <2>2, ReplyingKeeps
<1>3. CASE ~\A c \in candidates : c.id # L.row.id
  <2>0. candidates' = {Written(c) : c \in candidates}
    BY <1>3 DEF UpdateTimeWrites
  <2>6. Commits(r, "time.write", 200)
    BY <1>3 DEF UpdateTimeWrites
  <2>1. /\ Moves(r) /\ at'[r] = "done" /\ answer'[r] = 200
        /\ \A q \in Requests \ {r} : InFlight(q) => raced'[q]
    BY <2>6, CommitsMoves DEF Inv
  <2>2. ASSUME NEW c \in CandidateRow
        PROVE  /\ Written(c) \in CandidateRow
               /\ Written(c).jobId = c.jobId /\ Written(c).userId = c.userId
    <3> DEFINE S == Or(L.startTime, c.startTime)
               E == Or(L.endTime, c.endTime)
    <3>1. S \in Columns /\ E \in Columns
      BY <1>1 DEF CandidateRow, Or
    <3>2. c = [id |-> c.id, jobId |-> c.jobId, userId |-> c.userId,
               startTime |-> c.startTime, endTime |-> c.endTime]
      BY DEF CandidateRow
    <3>3. Written(c) = IF c.id # L.row.id THEN c ELSE [c EXCEPT !.startTime = S, !.endTime = E]
      BY <3>2
    <3> HIDE DEF S, E, L, Written
    <3>4. [c EXCEPT !.startTime = S, !.endTime = E]
            = [id |-> c.id, jobId |-> c.jobId, userId |-> c.userId, startTime |-> S, endTime |-> E]
      <4> DEFINE x == [c EXCEPT !.startTime = S]
      <4>1. x = [id |-> c.id, jobId |-> c.jobId, userId |-> c.userId,
                 startTime |-> S, endTime |-> c.endTime]
        BY <3>2
      <4>2. [c EXCEPT !.startTime = S, !.endTime = E] = [x EXCEPT !.endTime = E]
        OBVIOUS
      <4> HIDE DEF x
      <4> QED BY <4>1, <4>2
    <3>5. [id |-> c.id, jobId |-> c.jobId, userId |-> c.userId, startTime |-> S, endTime |-> E]
            \in CandidateRow
      <4>1. c.id \in InterviewIds /\ c.jobId \in InterviewIds /\ c.userId \in UserIds
        BY DEF CandidateRow
      <4> QED BY <3>1, <4>1 DEF CandidateRow
    <3>6. CASE c.id = L.row.id
      <4> DEFINE w == [id |-> c.id, jobId |-> c.jobId, userId |-> c.userId, startTime |-> S, endTime |-> E]
      <4>1. Written(c) = w
        BY <3>3, <3>4, <3>6
      <4>2. w.jobId = c.jobId /\ w.userId = c.userId
        OBVIOUS
      <4> QED BY <3>5, <4>1, <4>2
    <3> QED BY <3>3, <3>6
  <2> HIDE DEF Written
  <2>3. /\ candidates' \subseteq CandidateRow
        /\ \A c \in candidates' : c.jobId \in interviews' /\ UserById(c.userId) # {}
    BY <1>0, <2>0, <2>2, InterviewRows
  <2>4. \A c, d \in candidates' : SameSeat(c, d) => c = d
    <3> SUFFICES ASSUME NEW c \in candidates, NEW d \in candidates,
                        SameSeat(Written(c), Written(d))
                 PROVE  Written(c) = Written(d)
      BY <2>0
    <3>1. SameSeat(c, d)
      BY <2>2, InterviewRows DEF SameSeat
    <3> QED BY <3>1, InterviewRows
  <2>5. Inv'
    BY <1>0, <2>1, <2>3, <2>4, InterviewRows, InterviewWritingKeeps
  <2> QED BY <2>1, <2>5
<1> QED BY <1>2, <1>3

LEMMA DeletesCandidateKeeps ==
    ASSUME Inv, NEW r \in Requests, DeletesCandidate(r),
           UNCHANGED <<users, problem, assigned, submitted, reports>>
    PROVE  Inv' /\ (answer'[r] = answer[r] \/ answer'[r] < 500 \/ raced[r])
<1> DEFINE row == {c \in candidates : c.id = local[r].row.id}
<1>0. /\ at[r] = "candidate.delete" /\ boot = "up" /\ Notes(r)
      /\ UNCHANGED <<interviews, assignments>> /\ candidates' = candidates \ row
  BY InFlightIsUp DEF DeletesCandidate, Notes
<1>1. CASE row # {}
  <2>0. Commits(r, "candidate.delete", 204)
    BY <1>1 DEF DeletesCandidate
  <2>1. /\ Moves(r) /\ at'[r] = "done" /\ answer'[r] = 204
        /\ \A q \in Requests \ {r} : InFlight(q) => raced'[q]
    BY <2>0, CommitsMoves DEF Inv
  <2>2. Inv'
    BY <1>0, <2>1, InterviewRows, InterviewWritingKeeps
  <2> QED BY <2>1, <2>2
<1>2. CASE row = {}
  <2>1. Replies(r, "candidate.delete", 500, 204) /\ candidates' = candidates
    BY <1>0, <1>2 DEF DeletesCandidate
  <2>2. raced[r]
    BY <1>0, <1>2 DEF Inv, Knows, KnowsCandidate, Handlers, RequestsTypeOK
  <2> QED BY <1>0, <2>1, <2>2, ReplyingKeeps
<1> QED BY <1>1, <1>2

LEMMA CandidateKeeps ==
    ASSUME Inv, NEW r \in Requests, CandidateStep(r),
           UNCHANGED <<users, problem, assigned, submitted, reports>>
    PROVE  Inv' /\ (answer'[r] = answer[r] \/ answer'[r] < 500 \/ raced[r])
  BY CandidateFindsKeeps, CandidateInsertsKeeps, UpdateTimeFindsKeeps, UpdateTimeWritesKeeps,
     DeletesCandidateKeeps DEF CandidateStep

-----------------------------------------------------------------------------
(* Views, reports, refused callers.                                        *)

ReadingPlaces == {"list.read", "list.reply", "view.count", "view.reply",
                  "summary.assess", "summary.reply"}

LEMMA LookingKeeps ==
    ASSUME Inv, NEW r \in Requests, NEW from, NEW to \in ReadingPlaces, NEW keeps,
           from # "done", Awaits(r, from, to, keeps), Notes(r), boot = "up",
           UNCHANGED <<users, problem, assigned, submitted, interviews, candidates, assignments, reports>>
    PROVE  Inv' /\ answer'[r] = answer[r]
<1>1. to \in Awaiting
  BY DEF ReadingPlaces, Awaiting
<1>2. at'[r] = to => Knows(r)'
  BY DEF ReadingPlaces, Knows, KnowsAccount, KnowsProblem, KnowsDraws, KnowsCandidate,
         KnowsAssignment
<1>3. Inv' /\ answer' = answer
  BY <1>1, <1>2, AwaitingKeeps
<1> QED BY <1>3

LEMMA KeepingKeeps ==
    ASSUME Inv, NEW r \in Requests, NEW from, NEW to, NEW fields, NEW field, NEW value,
           from \in ReadingPlaces, to \in ReadingPlaces, Keeping(r, from, to, fields, field, value),
           UNCHANGED <<users, problem, assigned, submitted, interviews, candidates, assignments, reports>>
    PROVE  Inv' /\ answer'[r] = answer[r]
<1> DEFINE next == IF fields \subseteq DOMAIN local[r] \union {field} THEN to ELSE from
           keeps == [f \in DOMAIN local[r] \union {field} |->
                       IF f = field THEN value ELSE local[r][f]]
<1>1. at[r] = from /\ Awaits(r, from, next, keeps) /\ gone' = gone /\ next \in ReadingPlaces
  BY DEF Keeping
<1>2. from \notin {"none", "done"}
  BY DEF ReadingPlaces
<1>3. boot = "up" /\ Notes(r)
  BY <1>1, <1>2, InFlightIsUp DEF Notes
<1> HIDE DEF next, keeps
<1> QED BY <1>1, <1>2, <1>3, LookingKeeps

LEMMA ViewKeeps ==
    ASSUME Inv, NEW r \in Requests, ViewStep(r), UNCHANGED reports
    PROVE  Inv' /\ (answer'[r] = answer[r] \/ answer'[r] < 500 \/ raced[r])
<1>0. UNCHANGED <<users, problem, assigned, submitted, interviews, candidates, assignments, reports>>
  BY DEF ViewStep, problemTables, interviewTables
<1>1. CASE ListStarts(r)
  <2>1. PICK op \in DOMAIN ListRoles, page \in GivenPages, limit \in GivenLimits :
          /\ Arrives(r, op, ListRoles[op])
          /\ Awaits(r, "none", "list.read", [list |-> op, by |-> parsePagination(page, limit)])
    BY <1>1 DEF ListStarts
  <2>2. Notes(r) /\ boot = "up"
    BY <2>1, ArrivesNotes
  <2> DEFINE keeps == [list |-> op, by |-> parsePagination(page, limit)]
  <2>3. Awaits(r, "none", "list.read", keeps) /\ "list.read" \in ReadingPlaces
    BY <2>1 DEF ReadingPlaces
  <2> HIDE DEF keeps
  <2> QED BY <1>0, <2>2, <2>3, LookingKeeps
<1>2. CASE ListCounts(r) \/ ListTakes(r)
  <2>1. \E field, value : Keeping(r, "list.read", "list.reply", {"total", "items"}, field, value)
    BY <1>2 DEF ListCounts, ListTakes, PageQuery
  <2>2. "list.read" \in ReadingPlaces /\ "list.reply" \in ReadingPlaces
    BY DEF ReadingPlaces
  <2> QED BY <1>0, <2>1, <2>2, KeepingKeeps
<1>3. CASE ViewCountsAssigned(r) \/ ViewCounts(r)
  <2>1. \E field, value :
          Keeping(r, "view.count", "view.reply", {"assignedCount", "analytics"}, field, value)
    BY <1>3 DEF ViewCountsAssigned, ViewCounts, AnalyticsQuery
  <2>2. "view.count" \in ReadingPlaces /\ "view.reply" \in ReadingPlaces
    BY DEF ReadingPlaces
  <2> QED BY <1>0, <2>1, <2>2, KeepingKeeps
<1>4. CASE ListReplies(r) \/ ViewReplies(r)
  <2>1. at[r] \in {"list.reply", "view.reply"} /\ Replies(r, at[r], 200, 200) /\ gone' = gone
    BY <1>4 DEF ListReplies, ViewReplies
  <2>2. at[r] \notin {"none", "done"}
    BY <2>1
  <2>3. boot = "up" /\ Notes(r)
    BY <2>1, <2>2, InFlightIsUp DEF Notes
  <2> QED BY <1>0, <2>1, <2>2, <2>3, ReplyingKeeps
<1>5. CASE ViewFindsProblem(r)
  <2>0. Notes(r) /\ boot = "up" /\ at[r] = "none"
    BY <1>5, ArrivesNotes DEF ViewFindsProblem
  <2>1. PICK p \in ProblemIds :
          IF Live(p) THEN Awaits(r, "none", "view.count", [problem |-> p])
                     ELSE Replies(r, "none", 404, 200)
    BY <1>5 DEF ViewFindsProblem
  <2>2. CASE Replies(r, "none", 404, 200)
    BY <1>0, <2>0, <2>2, ReplyingKeeps
  <2>3. CASE Awaits(r, "none", "view.count", [problem |-> p])
    <3> DEFINE keeps == [problem |-> p]
    <3>1. Awaits(r, "none", "view.count", keeps) /\ "view.count" \in ReadingPlaces
      BY <2>3 DEF ReadingPlaces
    <3> HIDE DEF keeps
    <3> QED BY <1>0, <2>0, <3>1, LookingKeeps
  <2> QED BY <2>1, <2>2, <2>3
<1> QED BY <1>1, <1>2, <1>3, <1>4, <1>5 DEF ViewStep

LEMMA ReportKeeps ==
    ASSUME Inv, NEW r \in Requests, ReportStep(r),
           UNCHANGED <<gone, users, problem, assigned, submitted, interviews, candidates, assignments>>
    PROVE  Inv' /\ (answer'[r] = answer[r] \/ answer'[r] < 500 \/ raced[r])
<1>0. Notes(r)
  BY DEF Notes
<1>1. CASE CreateReport(r)
  <2>0. boot = "up" /\ at[r] = "none"
    BY <1>1 DEF CreateReport, Handles
  <2>1. CASE Replies(r, "none", 401, NotCounted) /\ UNCHANGED reports
    BY <1>0, <2>0, <2>1, ReplyingKeeps DEF NotCounted
  <2>2. ASSUME NEW e \in Endpoints, NEW f \in Figures, NEW given \in Assessment \union {Undefined},
               Commits(r, "none", 201),
               reports' = reports \union {[id |-> r, endpoint |-> e, figures |-> f,
                                           assessment |-> Or(given, calculateAssessment(f))]}
        PROVE  Inv' /\ answer'[r] < 500
    <3> DEFINE verdict == Or(given, calculateAssessment(f))
    <3>1. /\ Moves(r) /\ at'[r] = "done" /\ answer'[r] = 201
          /\ \A q \in Requests \ {r} : InFlight(q) => raced'[q]
      BY <2>2, CommitsMoves DEF Inv
    <3>2. verdict \in Assessment
      BY <2>2 DEF Or, calculateAssessment, Assessment
    <3>3. ReportsTypeOK'
      BY <2>2, <3>2 DEF ReportsTypeOK, Inv, BackendTypeOK
    <3>4. TableTypes'
      BY <3>3 DEF TableTypes, Inv, BackendTypeOK, ProblemsTypeOK, InterviewsTypeOK
    <3>5. Makers' /\ RestOfDeleted'
      BY <3>1, RowsOfTheDone DEF Inv, Makers, RestOfDeleted, Exists
    <3>6. TablesConsistent'
      BY DEF Inv, TablesConsistent, UniqueBy, UserById, Exists
    <3>7. TestsThere' /\ Grows /\ DeletedStay
      BY <2>0 DEF Inv, TestsThere, SeedInv, Grows, DeletedStay, Exists
    <3>8. Inv'
      BY <1>0, <2>0, <3>1, <3>4, <3>5, <3>6, <3>7, WritingKeeps DEF TablesInv
    <3> QED BY <3>1, <3>8
  <2> QED BY <1>1, <2>1, <2>2 DEF CreateReport
<1>2. CASE SummaryCounts(r)
  <2> DEFINE keeps == [reportsCount |->
                         [e \in {x.endpoint : x \in reports} |-> Count(reports, e)]]
  <2>1. /\ boot = "up" /\ Awaits(r, "none", "summary.assess", keeps) /\ UNCHANGED reports
        /\ "summary.assess" \in ReadingPlaces
    BY <1>2 DEF SummaryCounts, Handles, ReadingPlaces
  <2> HIDE DEF keeps
  <2> QED BY <1>0, <2>1, LookingKeeps
<1>3. CASE SummaryAssesses(r)
  <2>1. PICK keeps : Awaits(r, "summary.assess", "summary.reply", keeps) /\ UNCHANGED reports
    BY <1>3 DEF SummaryAssesses
  <2>2. at[r] = "summary.assess" /\ "summary.reply" \in ReadingPlaces
    BY <2>1 DEF Awaits, Goes, ReadingPlaces
  <2>3. boot = "up"
    BY <2>2, InFlightIsUp
  <2> QED BY <1>0, <2>1, <2>2, <2>3, LookingKeeps
<1>4. CASE SummaryReplies(r)
  <2>1. Replies(r, "summary.reply", 200, 200) /\ UNCHANGED reports
    BY <1>4 DEF SummaryReplies
  <2>2. at[r] = "summary.reply"
    BY <2>1 DEF Replies, Goes
  <2>3. boot = "up"
    BY <2>2, InFlightIsUp
  <2> QED BY <1>0, <2>1, <2>3, ReplyingKeeps
<1> QED BY <1>1, <1>2, <1>3, <1>4 DEF ReportStep

LEMMA RefuseKeeps ==
    ASSUME Inv, NEW r \in Requests, NEW op, NEW roles, RefuseCaller(r, op, roles),
           UNCHANGED <<gone, problem, assigned, submitted, interviews, candidates, assignments, reports>>
    PROVE  Inv' /\ (answer'[r] = answer[r] \/ answer'[r] < 500 \/ raced[r])
<1>1. PICK code \in {401, 403} : Replies(r, "none", code, NotCounted)
  BY DEF RefuseCaller
<1>2. boot = "up" /\ UNCHANGED users /\ Notes(r)
  BY DEF RefuseCaller, Handles, Notes
<1> QED BY <1>1, <1>2, ReplyingKeeps DEF NotCounted

\* The step of a handler keeps the invariant; 500 is answered after a race only.
LEMMA RequestKeeps ==
    ASSUME Inv, NEW r \in Requests,
           \/ AccountStep(r) /\ UNCHANGED <<gone, problemTables, interviewTables, reports>>
           \/ ProblemStep(r) /\ UNCHANGED <<users, interviewTables, reports>>
           \/ /\ InterviewStep(r) \/ CandidateStep(r) \/ AssignmentStep(r)
              /\ UNCHANGED <<users, problemTables, reports>>
           \/ ViewStep(r) /\ UNCHANGED reports
           \/ ReportStep(r) /\ UNCHANGED <<gone, users, problemTables, interviewTables>>
           \/ \E route \in GuardedRoutes :
                /\ RefuseCaller(r, route[1], route[2])
                /\ UNCHANGED <<gone, problemTables, interviewTables, reports>>
    PROVE  Inv' /\ (answer'[r] = answer[r] \/ answer'[r] < 500 \/ raced[r])
  BY AccountKeeps, ProblemKeeps, InterviewKeeps, CandidateKeeps, AssignmentKeeps, ViewKeeps,
     ReportKeeps, RefuseKeeps DEF problemTables, interviewTables

-----------------------------------------------------------------------------
(* What is written to the status of a submission, and the seed script.     *)

LEMMA StatusBecomes ==
    ASSUME NEW s, StatusWritten(s)
    PROVE  \E status \in SubmissionStatus : Becomes(s, status)
<1>1. /\ {"RUNNING", "RUNTIME_ERROR", "PENDING"} \subseteq SubmissionStatus
      /\ Verdicts \subseteq SubmissionStatus
  BY ProblemsAssumption DEF SubmissionStatus, TERMINAL_SUBMISSION_STATUSES
<1>2. CASE MarkedRunning(s)
  BY <1>1, <1>2 DEF MarkedRunning
<1>3. CASE Judged(s)
  <2>1. PICK verdict \in Verdicts :
          Becomes(s, IF problem[s.problem].tests = {} THEN "RUNTIME_ERROR" ELSE verdict)
    BY <1>3 DEF Judged
  <2> QED BY <1>1, <2>1
<1>4. CASE Failed(s)
  BY <1>1, <1>4 DEF Failed
<1>5. CASE Requeued(s)
  BY <1>1, <1>5 DEF Requeued
<1> QED BY <1>2, <1>3, <1>4, <1>5 DEF StatusWritten

LEMMA StatusKeeps ==
    ASSUME Inv, NEW s \in submitted, StatusWritten(s), UNCHANGED <<interviewTables, reports>>
    PROVE  Inv' /\ answer' = answer
<1>1. PICK verdict \in SubmissionStatus : Becomes(s, verdict)
  BY StatusBecomes
<1>0. /\ UNCHANGED <<at, local, answer, counted, raced, mix, boot>>
      /\ UNCHANGED <<users, problem, assigned, gone, interviews, candidates, assignments, reports>>
  BY <1>1 DEF Becomes, requestVars, frameVars, interviewTables
<1>2. s \in [id : SubmissionIds, problem : ProblemIds, status : SubmissionStatus]
  BY DEF Inv, BackendTypeOK, ProblemsTypeOK
<1> DEFINE t == [s EXCEPT !.status = verdict]
<1>4. /\ t \in [id : SubmissionIds, problem : ProblemIds, status : SubmissionStatus]
      /\ t.id = s.id /\ t.problem = s.problem
  BY <1>2
<1> HIDE DEF t
<1>5. submitted' \subseteq submitted \union {t}
  BY <1>1 DEF t, Becomes
<1>6. Handlers' /\ BackendTypeOK'
  BY <1>0, <1>4, <1>5 DEF Inv, Handlers, BackendTypeOK, RequestsTypeOK, InFlight, ProblemsTypeOK,
                          InterviewsTypeOK, ReportsTypeOK
<1>7. \A r \in Requests : Knows(r)'
  <2> SUFFICES ASSUME NEW r \in Requests PROVE Knows(r)'
    OBVIOUS
  <2>1. Knows(r)
    BY DEF Inv
  <2>2. KnowsAccount(r)'
    BY <1>0, <2>1 DEF Knows, KnowsAccount, Taken
  <2>3. KnowsProblem(r)'
    BY <1>0, <2>1 DEF Knows, KnowsProblem, Found, HasUser, UserById, Exists
  <2>4. KnowsDraws(r)'
    BY <1>0, <2>1 DEF Knows, KnowsDraws, Found, HasUser, UserById, Exists
  <2>5. KnowsCandidate(r)'
    BY <1>0, <2>1 DEF Knows, KnowsCandidate, HasUser, UserById
  <2>6. KnowsAssignment(r)'
    BY <1>0, <2>1 DEF Knows, KnowsAssignment, Found, HasUser, UserById, Exists
  <2> QED BY <2>2, <2>3, <2>4, <2>5, <2>6 DEF Knows
<1>8. Makers' /\ GoneIsDeleted'
  BY <1>0, <1>4, <1>5 DEF Inv, Makers, GoneIsDeleted, Exists
<1>9. RestOfDeleted'
  BY <1>0, <1>4, <1>5 DEF Inv, RestOfDeleted
<1>10. TablesConsistent'
  BY <1>0, <1>4, <1>5 DEF Inv, TablesConsistent, UniqueBy, UserById, Exists
<1>11. SeedInv'
  BY <1>0 DEF Inv, SeedInv, TestsThere, InFlight, Exists
<1> QED BY <1>0, <1>6, <1>7, <1>8, <1>9, <1>10, <1>11 DEF Inv

LEMMA NoneInFlight ==
    ASSUME \A r \in Requests : ~InFlight(r)'
    PROVE  \A r \in Requests : Knows(r)'
  BY DEF InFlight, Knows, KnowsAccount, KnowsProblem, KnowsDraws, KnowsCandidate, KnowsAssignment

\* A call of the script.
Calls(step) ==
    /\ boot = step /\ boot' \in DOMAIN After \union {"up"}
    /\ UNCHANGED <<mix, requestVars, gone>>

LEMMA SeedingCalls ==
    ASSUME NEW step \in DOMAIN After, Seeding(step)
    PROVE  Calls(step) /\ boot' = After[step]
  BY DEF Seeding, Calls, After

LEMMA CreatingCalls ==
    ASSUME NEW step \in DOMAIN After, NEW left, Creating(step, left)
    PROVE  /\ Calls(step)
           /\ \/ left = {} /\ boot' = After[step]
              \/ left # {} /\ boot' = step
<1>1. After[step] \in DOMAIN After \union {"up"}
  BY DEF After
<1> QED BY <1>1 DEF Creating, Calls

LEMMA SeedingKeeps ==
    ASSUME Inv, NEW step \in DOMAIN After, Calls(step), UNCHANGED reports,
           TableTypes', TablesConsistent', SeedInv',
           \A p \in Requests : Exists(p)' => Exists(p),
           interviews' \subseteq interviews, assignments' \subseteq assignments,
           \A s \in submitted' : s \in submitted \/ s.id \notin Requests,
           \A u \in users' : u \in users \/ u \in SeededUsers
    PROVE  Inv' /\ answer' = answer
<1>1. /\ boot = step /\ boot' \in DOMAIN After \union {"up"} /\ boot # "up"
      /\ UNCHANGED <<mix, at, local, answer, counted, raced, gone>>
  BY DEF Calls, requestVars, After
<1>2. \A r \in Requests : ~InFlight(r) /\ ~InFlight(r)'
  BY <1>1 DEF Inv, SeedInv, InFlight
<1>3. \A r \in Requests : Knows(r)'
  BY <1>2, NoneInFlight
<1>4. Handlers'
  BY <1>1 DEF Inv, Handlers, RequestsTypeOK, InFlight
<1>6. BackendTypeOK'
  BY <1>1, <1>4 DEF BackendTypeOK, Handlers, TableTypes
<1>7. GoneIsDeleted'
  BY <1>1, <1>2 DEF Inv, GoneIsDeleted, InFlight
<1>8. \A u \in SeededUsers : u.id \notin Requests
  BY AccountsAssumption
<1>9. Makers'
  BY <1>1, <1>8 DEF Inv, Makers
<1>10. RestOfDeleted'
  BY <1>1, <1>8 DEF Inv, RestOfDeleted
<1> QED BY <1>1, <1>3, <1>4, <1>6, <1>7, <1>9, <1>10 DEF Inv

LEMMA ApiStopsKeeps ==
    ASSUME Inv, ApiStops \/ SeedStops, UNCHANGED reports
    PROVE  Inv' /\ answer' = answer
<1>1. /\ boot' = "submission" /\ UNCHANGED <<mix, answer, counted, gone>>
      /\ UNCHANGED <<users, problem, assigned, submitted, interviews, candidates, assignments, reports>>
  BY DEF ApiStops, SeedStops, requestVars, problemTables, interviewTables
<1>2. /\ \A r \in Requests : ~InFlight(r)' /\ (at[r] = "done" => at'[r] = "done")
      /\ \A r \in Requests : at'[r] = "none" => at[r] = "none"
      /\ Handlers'
  <2>1. CASE ApiStops
    <3>1. /\ at' = [r \in Requests |-> IF InFlight(r) THEN "done" ELSE at[r]]
          /\ local' = [r \in Requests |-> Nothing] /\ raced' = [r \in Requests |-> FALSE]
      BY <2>1 DEF ApiStops
    <3> QED BY <1>1, <3>1 DEF Inv, Handlers, RequestsTypeOK, InFlight, Nothing
  <2>2. CASE SeedStops
    <3>1. boot # "up" /\ UNCHANGED <<at, local, raced>>
      BY <2>2 DEF SeedStops, requestVars
    <3> QED BY <1>1, <3>1 DEF Inv, Handlers, RequestsTypeOK, InFlight, SeedInv
  <2> QED BY <2>1, <2>2
<1>3. \A r \in Requests : Knows(r)'
  BY <1>2, NoneInFlight
<1>4. BackendTypeOK'
  <2>1. boot' \in DOMAIN After \union {"up"}
    BY <1>1 DEF After
  <2> QED BY <1>1, <1>2, <2>1 DEF Inv, BackendTypeOK, Handlers, ProblemsTypeOK, InterviewsTypeOK,
                                  ReportsTypeOK
<1>5. Makers'
  <2>1. \A a \in assignments : a.id \in Requests
    BY DEF Inv, BackendTypeOK, InterviewsTypeOK
  <2> QED BY <1>1, <1>2, <2>1 DEF Inv, Makers, Exists
<1>6. GoneIsDeleted'
  BY <1>1, <1>2 DEF Inv, GoneIsDeleted, InFlight
<1>7. RestOfDeleted' /\ TablesConsistent'
  BY <1>1 DEF Inv, RestOfDeleted, TablesConsistent, UniqueBy, UserById, Exists
<1>8. SeedInv'
  BY <1>1, <1>2 DEF SeedInv, Filling
<1> QED BY <1>1, <1>2, <1>3, <1>4, <1>5, <1>6, <1>7, <1>8 DEF Inv

\* What the script relies on at each of its calls.
LEMMA SeedTypes ==
    ASSUME Inv
    PROVE  /\ TableTypes /\ problem \in [ProblemIds -> ProblemRow]
           /\ \A p \in ProblemIds : Exists(p) => problem[p].state \in {"live", "deleted"}
           /\ (boot # "up" => \A r \in Requests : ~InFlight(r))
  BY DEF Inv, BackendTypeOK, TableTypes, ProblemsTypeOK, ProblemRow, SeedInv, Exists

LEMMA SeedWipesRowsKeep ==
    ASSUME Inv, UNCHANGED reports,
           \/ SeedWipesSubmissions \/ SeedWipesAssignments \/ SeedWipesCandidates
           \/ SeedWipesInterviews \/ SeedWipesTestCases
    PROVE  Inv' /\ answer' = answer
<1>1. PICK step \in {"submission", "assignment", "interviewCandidate", "interview", "testCase"} :
        Seeding(step)
  BY DEF SeedWipesSubmissions, SeedWipesAssignments, SeedWipesCandidates, SeedWipesInterviews,
         SeedWipesTestCases
<1>2. /\ step \in DOMAIN After /\ boot # "up" /\ UNCHANGED at
      /\ boot' \in {"assignment", "interviewCandidate", "interview", "testCase", "problem"}
  BY <1>1 DEF Seeding, After, requestVars
<1>3. /\ users' = users /\ UNCHANGED gone
      /\ assigned' \subseteq assigned /\ submitted' \subseteq submitted
      /\ interviews' \subseteq interviews /\ candidates' \subseteq candidates
      /\ assignments' \subseteq assignments
      /\ \/ UNCHANGED interviews
         \/ interviews' = {} /\ candidates' = {} /\ assignments' = {}
  BY DEF SeedWipesSubmissions, SeedWipesAssignments, SeedWipesCandidates, SeedWipesInterviews,
         SeedWipesTestCases, problemTables, interviewTables, Seeding
<1>4. /\ problem' \in [ProblemIds -> ProblemRow]
      /\ \A p \in ProblemIds : Exists(p) <=> Exists(p)'
  <2>1. CASE problem' = problem
    BY <2>1, SeedTypes DEF Exists
  <2>2. CASE problem' = [p \in ProblemIds |-> [problem[p] EXCEPT !.tests = {}]]
    BY <2>2, SeedTypes DEF Exists, ProblemRow
  <2> QED BY <2>1, <2>2 DEF SeedWipesSubmissions, SeedWipesAssignments, SeedWipesCandidates,
                            SeedWipesInterviews, SeedWipesTestCases, problemTables
<1>5. TableTypes'
  BY <1>3, <1>4, SeedTypes DEF TableTypes, ProblemsTypeOK, InterviewsTypeOK, ReportsTypeOK, ProblemRow
<1>6. TablesConsistent'
  <2>1. /\ \A c \in candidates' : c.jobId \in interviews' /\ UserById(c.userId)' # {}
        /\ \A c, d \in candidates' : SameSeat(c, d) => c = d
    BY <1>3, InterviewRows DEF UserById
  <2>2. /\ \A a \in assignments' :
             a.jobId \in interviews' /\ UserById(a.userId)' # {} /\ Exists(a.problemId)'
        /\ \A a, b \in assignments' : SameTask(a, b) => a = b
    BY <1>3, <1>4, InterviewRows DEF UserById, AssignmentRow
  <2>3. /\ \A s \in submitted' : Exists(s.problem)'
        /\ \A x \in assigned' : Exists(x.problem)' /\ UserById(x.user)' # {}
    <3>1. /\ \A s \in submitted : s.problem \in ProblemIds
          /\ \A x \in assigned : x.problem \in ProblemIds
      BY SeedTypes DEF TableTypes, ProblemsTypeOK
    <3> QED BY <1>3, <1>4, <3>1 DEF UserById, Inv, TablesConsistent, UniqueBy
  <2> QED BY <1>3, <2>1, <2>2, <2>3 DEF Inv, TablesConsistent, UniqueBy, SameSeat, SameTask
<1>7. SeedInv'
  BY <1>2, SeedTypes DEF SeedInv, Filling, InFlight
<1>8. \A p \in Requests : Exists(p)' => Exists(p)
  BY <1>4 DEF ProblemIds
<1>9. Calls(step)
  BY <1>1, <1>2, SeedingCalls
<1> QED BY <1>2, <1>3, <1>5, <1>6, <1>7, <1>8, <1>9, SeedingKeeps

LEMMA NoProblemRows ==
    /\ NoProblem \in [ProblemIds -> ProblemRow]
    /\ \A p \in ProblemIds : NoProblem[p].state = "absent"
<1>1. AbsentProblem \in ProblemRow /\ AbsentProblem.state = "absent"
  BY ProblemsAssumption DEF AbsentProblem, ProblemRow
<1> QED BY <1>1 DEF NoProblem

LEMMA SeedWipesProblemsKeeps ==
    ASSUME Inv, SeedWipesProblems \/ SeedWipesUsers, UNCHANGED reports
    PROVE  Inv' /\ answer' = answer
<1>1. CASE SeedWipesProblems
  <2>1. /\ Seeding("problem") /\ submitted = {} /\ submitted' = {}
        /\ problem' = NoProblem /\ assigned' = {} /\ assignments' = {}
        /\ UNCHANGED <<users, interviews, candidates>> /\ UNCHANGED <<at, gone>>
    BY <1>1 DEF SeedWipesProblems, BlocksProblems, Seeding, requestVars
  <2>2. "problem" \in DOMAIN After /\ boot' = "user" /\ boot # "up"
    BY <2>1 DEF After, Seeding
  <2>3. TableTypes'
    BY <2>1, SeedTypes, NoProblemRows
       DEF TableTypes, ProblemsTypeOK, InterviewsTypeOK, ReportsTypeOK, ProblemRow
  <2>4. TablesConsistent'
    BY <2>1 DEF Inv, TablesConsistent, UniqueBy, UserById
  <2>5. SeedInv'
    BY <2>1, <2>2, SeedTypes DEF SeedInv, Filling, InFlight
  <2>6. \A p \in Requests : Exists(p)' => Exists(p)
    BY <2>1, NoProblemRows DEF Exists, ProblemIds
  <2>7. Calls("problem")
    BY <2>1, <2>2, SeedingCalls
  <2> QED BY <2>1, <2>2, <2>3, <2>4, <2>5, <2>6, <2>7, SeedingKeeps
<1>2. CASE SeedWipesUsers
  <2>1. /\ Seeding("user") /\ submitted = {} /\ assigned = {} /\ interviews = {}
        /\ users' = {} /\ candidates' = {} /\ assignments' = {}
        /\ UNCHANGED <<problem, assigned, submitted, interviews>> /\ UNCHANGED <<at, gone>>
    BY <1>2 DEF SeedWipesUsers, BlocksUsers, Seeding, requestVars, problemTables
  <2>2. "user" \in DOMAIN After /\ boot' = "createUsers" /\ boot = "user"
    BY <2>1 DEF After, Seeding
  <2>3. TableTypes'
    BY <2>1, SeedTypes
       DEF TableTypes, ProblemsTypeOK, InterviewsTypeOK, ReportsTypeOK, ProblemRow
  <2>4. TablesConsistent'
    BY <2>1 DEF Inv, TablesConsistent, UniqueBy, UserById
  <2>5. SeedInv'
    <3>1. problem = NoProblem
      BY <2>2 DEF Inv, SeedInv
    <3>2. NoProblem' = NoProblem
      BY DEF NoProblem, AbsentProblem, ProblemIds
    <3> QED BY <2>1, <2>2, <3>1, <3>2, SeedTypes DEF SeedInv, Filling, InFlight
  <2>6. \A p \in Requests : Exists(p)' => Exists(p)
    BY <2>1 DEF Exists
  <2>7. Calls("user")
    BY <2>1, <2>2, SeedingCalls
  <2> QED BY <2>1, <2>2, <2>3, <2>4, <2>5, <2>6, <2>7, SeedingKeeps
<1> QED BY <1>1, <1>2

LEMMA SeedCreatesUserKeeps ==
    ASSUME Inv, SeedCreatesUser, UNCHANGED reports
    PROVE  Inv' /\ answer' = answer
<1>1. PICK u \in SeededUsers \ users : users' = users \union {u}
  BY DEF SeedCreatesUser
<1>2. /\ Creating("createUsers", SeededUsers \ users')
      /\ UNCHANGED <<problem, assigned, submitted, interviews, candidates, assignments>>
  BY DEF SeedCreatesUser, problemTables, interviewTables
<1>3. "createUsers" \in DOMAIN After /\ After["createUsers"] = "createProblems"
  BY DEF After
<1>4. /\ Calls("createUsers")
      /\ \/ SeededUsers \subseteq users' /\ boot' = "createProblems"
         \/ boot' = "createUsers"
  BY <1>2, <1>3, CreatingCalls
<1>5. boot = "createUsers" /\ UNCHANGED <<at, gone>>
  BY <1>4 DEF Calls, requestVars
<1>6. problem = NoProblem /\ users \subseteq SeededUsers /\ users' \subseteq SeededUsers
  BY <1>1, <1>5 DEF Inv, SeedInv
<1>7. TableTypes'
  BY <1>2, <1>5, <1>6, SeedTypes, AccountsAssumption
     DEF TableTypes, ProblemsTypeOK, InterviewsTypeOK, ReportsTypeOK, ProblemRow
<1>8. TablesConsistent'
  <2>1. /\ \A v, w \in users' : v.name = w.name => v = w
        /\ \A v, w \in users' : v.email = w.email /\ v.email # NoEmail => v = w
    BY <1>6, AccountsAssumption
  <2>2. \A id : UserById(id) # {} => UserById(id)' # {}
    BY <1>1 DEF UserById
  <2> QED BY <1>2, <2>1, <2>2 DEF Inv, TablesConsistent, UniqueBy, Exists
<1>9. \A p \in Requests : ~Exists(p) /\ ~Exists(p)'
  BY <1>2, <1>6, NoProblemRows DEF Exists, ProblemIds
<1>10. SeedInv'
  <2>1. NoProblem' = NoProblem
    BY DEF NoProblem, AbsentProblem, ProblemIds
  <2> QED BY <1>2, <1>4, <1>5, <1>6, <1>9, <2>1, SeedTypes DEF SeedInv, Filling, InFlight
<1> QED BY <1>1, <1>2, <1>3, <1>4, <1>7, <1>8, <1>9, <1>10, SeedingKeeps

\* The script writes the row of a problem.
LEMMA SeedWritesProblem ==
    ASSUME Inv, boot \in Filling, UNCHANGED <<gone, reports>>,
           NEW p \in SeededProblems, NEW row \in ProblemRow, row.state # "absent",
           problem' = [problem EXCEPT ![p] = row],
           UNCHANGED <<users, assigned, submitted, interviews, candidates, assignments>>
    PROVE  /\ TableTypes' /\ TablesConsistent'
           /\ \A q \in ProblemIds \ {p} : problem'[q] = problem[q]
           /\ problem'[p] = row /\ Exists(p)'
           /\ \A q \in Requests : ~Exists(q) /\ ~Exists(q)'
<1>1. p \in ProblemIds /\ p \notin Requests
  BY ProblemsAssumption DEF ProblemIds
<1>2. /\ problem' \in [ProblemIds -> ProblemRow]
      /\ \A q \in ProblemIds \ {p} : problem'[q] = problem[q]
      /\ problem'[p] = row
  BY <1>1, SeedTypes
<1>3. \A q \in ProblemIds : Exists(q) => Exists(q)'
  BY <1>2 DEF Exists
<1>4. TableTypes'
  BY <1>2, SeedTypes DEF TableTypes, ProblemsTypeOK, InterviewsTypeOK, ReportsTypeOK, ProblemRow
<1>5. TablesConsistent'
  <2>1. /\ \A s \in submitted : s.problem \in ProblemIds
        /\ \A x \in assigned : x.problem \in ProblemIds
        /\ \A a \in assignments : a.problemId \in ProblemIds
    BY SeedTypes DEF TableTypes, ProblemsTypeOK, InterviewsTypeOK
  <2> QED BY <1>3, <2>1 DEF Inv, TablesConsistent, UniqueBy, UserById
<1>6. \A q \in Requests : ~Exists(q) /\ ~Exists(q)'
  <2>1. \A q \in Requests : ~Exists(q) /\ q \in ProblemIds \ {p}
    BY <1>1 DEF Inv, SeedInv, ProblemIds
  <2> QED BY <1>2, <2>1 DEF Exists
<1> QED BY <1>2, <1>4, <1>5, <1>6 DEF Exists

LEMMA SeedCreatesProblemKeeps ==
    ASSUME Inv, SeedCreatesProblem, UNCHANGED reports
    PROVE  Inv' /\ answer' = answer
<1>1. PICK p \in SeededProblems, d \in Difficulties :
        problem' = [problem EXCEPT ![p] = [state |-> "live", difficulty |-> d, tests |-> {}]]
  BY DEF SeedCreatesProblem
<1> DEFINE row == [state |-> "live", difficulty |-> d, tests |-> {}]
<1>2. /\ Creating("createProblems", {q \in SeededProblems : problem'[q].state = "absent"})
      /\ UNCHANGED <<users, assigned, submitted, interviews, candidates, assignments>>
  BY DEF SeedCreatesProblem, interviewTables
<1>3. "createProblems" \in DOMAIN After /\ After["createProblems"] = "createTestCases"
  BY DEF After
<1>4. /\ Calls("createProblems")
      /\ \/ (\A q \in SeededProblems : Exists(q)') /\ boot' = "createTestCases"
         \/ boot' = "createProblems"
  BY <1>2, <1>3, CreatingCalls DEF Exists
<1>5. boot = "createProblems" /\ boot \in Filling /\ UNCHANGED <<at, gone>>
  BY <1>4 DEF Calls, Filling, requestVars
<1>6. row \in ProblemRow /\ row.state # "absent"
  BY DEF ProblemRow
<1>7. problem' = [problem EXCEPT ![p] = row]
  BY <1>1
<1> HIDE DEF row
<1>8. TableTypes' /\ TablesConsistent' /\ \A q \in Requests : ~Exists(q) /\ ~Exists(q)'
  BY <1>2, <1>5, <1>6, <1>7, SeedWritesProblem
<1>9. SeedInv'
  BY <1>2, <1>4, <1>5, <1>8, SeedTypes DEF Inv, SeedInv, Filling, InFlight
<1> QED BY <1>2, <1>3, <1>4, <1>8, <1>9, SeedingKeeps

LEMMA SeedCreatesTestCasesKeeps ==
    ASSUME Inv, SeedCreatesTestCases, UNCHANGED reports
    PROVE  Inv' /\ answer' = answer
<1>1. PICK p \in SeededProblems : problem' = [problem EXCEPT ![p].tests = TestCases]
  BY DEF SeedCreatesTestCases
<1> DEFINE row == [problem[p] EXCEPT !.tests = TestCases]
<1>2. /\ Creating("createTestCases", {q \in SeededProblems : problem'[q].tests = {}})
      /\ UNCHANGED <<users, assigned, submitted, interviews, candidates, assignments>>
  BY DEF SeedCreatesTestCases, interviewTables
<1>3. "createTestCases" \in DOMAIN After /\ After["createTestCases"] = "createSubmissions"
  BY DEF After
<1>4. /\ Calls("createTestCases")
      /\ \/ (\A q \in SeededProblems : problem'[q].tests # {}) /\ boot' = "createSubmissions"
         \/ boot' = "createTestCases"
  BY <1>2, <1>3, CreatingCalls
<1>5. boot = "createTestCases" /\ boot \in Filling /\ UNCHANGED <<at, gone>>
  BY <1>4 DEF Calls, Filling, requestVars
<1>6. \A q \in SeededProblems : q \in ProblemIds /\ Exists(q)
  BY <1>5 DEF Inv, SeedInv, Filling, ProblemIds
<1>7. row \in ProblemRow /\ row.state # "absent" /\ problem' = [problem EXCEPT ![p] = row]
  BY <1>1, <1>6, SeedTypes DEF ProblemRow, Exists
<1> HIDE DEF row
<1>8. /\ TableTypes' /\ TablesConsistent' /\ (\A q \in Requests : ~Exists(q) /\ ~Exists(q)')
      /\ Exists(p)' /\ \A q \in ProblemIds \ {p} : problem'[q] = problem[q]
  BY <1>2, <1>5, <1>6, <1>7, SeedWritesProblem DEF Exists
<1>9. \A q \in SeededProblems : Exists(q)'
  BY <1>6, <1>8 DEF Exists
<1>10. boot' = "createSubmissions" => TestsThere'
  BY <1>4, <1>8 DEF TestsThere, ProblemIds
<1>11. SeedInv'
  BY <1>2, <1>4, <1>5, <1>8, <1>9, <1>10, SeedTypes DEF Inv, SeedInv, Filling, InFlight
<1> QED BY <1>2, <1>3, <1>4, <1>8, <1>11, SeedingKeeps

LEMMA SampleRows ==
    /\ SampleSubmissions \subseteq [id : SubmissionIds, problem : ProblemIds, status : SubmissionStatus]
    /\ \A s \in SampleSubmissions : s.id \notin Requests /\ s.problem \in SeededProblems
    /\ SampleAssignments \subseteq [problem : ProblemIds, user : UserIds]
    /\ \A a \in SampleAssignments :
         a.problem \in SeededProblems /\ \E u \in SeededUsers : a.user = u.id
<1>1. SeededProblems \subseteq ProblemIds /\ TERMINAL_SUBMISSION_STATUSES \subseteq SubmissionStatus
  BY DEF ProblemIds, SubmissionStatus, TERMINAL_SUBMISSION_STATUSES
<1>2. SampleSubmissions \subseteq [id : SubmissionIds \ Requests, problem : SeededProblems,
                                   status : TERMINAL_SUBMISSION_STATUSES]
  BY ProblemsAssumption
<1>3. SampleAssignments \subseteq [problem : SeededProblems, user : {u.id : u \in SeededUsers}]
  BY ProblemsAssumption
<1>4. {u.id : u \in SeededUsers} \subseteq UserIds
  BY DEF UserIds
<1> QED BY <1>1, <1>2, <1>3, <1>4

LEMMA SeedCreatesSubmissionKeeps ==
    ASSUME Inv, SeedCreatesSubmission, UNCHANGED reports
    PROVE  Inv' /\ answer' = answer
<1>1. PICK s \in SampleSubmissions : submitted' = submitted \union {s}
  BY DEF SeedCreatesSubmission
<1>2. /\ Creating("createSubmissions", SampleSubmissions \ submitted')
      /\ UNCHANGED <<users, problem, assigned, interviews, candidates, assignments>>
  BY DEF SeedCreatesSubmission, interviewTables
<1>3. "createSubmissions" \in DOMAIN After /\ After["createSubmissions"] = "createAssignments"
  BY DEF After
<1>4. Calls("createSubmissions") /\ boot' \in {"createSubmissions", "createAssignments"}
  BY <1>2, <1>3, CreatingCalls
<1>5. boot = "createSubmissions" /\ UNCHANGED <<at, gone>>
  BY <1>4 DEF Calls, requestVars
<1>6. TestsThere /\ SeededUsers \subseteq users
      /\ (\A p \in Requests : ~Exists(p)) /\ \A p \in SeededProblems : Exists(p)
  BY <1>5 DEF Inv, SeedInv, Filling
<1>7. TableTypes'
  BY <1>1, <1>2, <1>5, SampleRows, SeedTypes
     DEF TableTypes, ProblemsTypeOK, InterviewsTypeOK, ReportsTypeOK, ProblemRow
<1>8. TablesConsistent'
  <2>1. \A t \in submitted' : Exists(t.problem)
    BY <1>1, <1>6, SampleRows DEF Inv, TablesConsistent
  <2> QED BY <1>2, <2>1 DEF Inv, TablesConsistent, UniqueBy, UserById, Exists
<1>9. SeedInv'
  BY <1>2, <1>4, <1>5, <1>6, SeedTypes DEF SeedInv, Filling, TestsThere, Exists, InFlight
<1>10. \A p \in Requests : Exists(p)' => Exists(p)
  BY <1>2 DEF Exists
<1> QED BY <1>1, <1>2, <1>3, <1>4, <1>7, <1>8, <1>9, <1>10, SampleRows, SeedingKeeps

LEMMA SeedCreatesAssignmentKeeps ==
    ASSUME Inv, SeedCreatesAssignment, UNCHANGED reports
    PROVE  Inv' /\ answer' = answer
<1>1. PICK a \in SampleAssignments : assigned' = assigned \union {a}
  BY DEF SeedCreatesAssignment
<1>2. /\ Creating("createAssignments", SampleAssignments \ assigned')
      /\ UNCHANGED <<users, problem, submitted, interviews, candidates, assignments>>
  BY DEF SeedCreatesAssignment, interviewTables
<1>3. "createAssignments" \in DOMAIN After /\ After["createAssignments"] = "up"
  BY DEF After
<1>4. Calls("createAssignments") /\ boot' \in {"createAssignments", "up"}
  BY <1>2, <1>3, CreatingCalls
<1>5. boot = "createAssignments" /\ UNCHANGED <<at, gone>>
  BY <1>4 DEF Calls, requestVars
<1>6. TestsThere /\ SeededUsers \subseteq users
      /\ (\A p \in Requests : ~Exists(p)) /\ \A p \in SeededProblems : Exists(p)
  BY <1>5 DEF Inv, SeedInv, Filling
<1>7. TableTypes'
  BY <1>1, <1>2, <1>5, SampleRows, SeedTypes
     DEF TableTypes, ProblemsTypeOK, InterviewsTypeOK, ReportsTypeOK, ProblemRow
<1>8. TablesConsistent'
  <2>1. Exists(a.problem) /\ UserById(a.user) # {}
    BY <1>6, SampleRows DEF UserById
  <2>2. \A x \in assigned' : Exists(x.problem) /\ UserById(x.user) # {}
    BY <1>1, <2>1 DEF Inv, TablesConsistent
  <2> QED BY <1>2, <2>2 DEF Inv, TablesConsistent, UniqueBy, UserById, Exists
<1>9. SeedInv'
  BY <1>2, <1>4, <1>5, <1>6, SeedTypes DEF SeedInv, Filling, TestsThere, Exists, InFlight
<1>10. \A p \in Requests : Exists(p)' => Exists(p)
  BY <1>2 DEF Exists
<1> QED BY <1>1, <1>2, <1>3, <1>4, <1>7, <1>8, <1>9, <1>10, SeedingKeeps

LEMMA SeedKeeps ==
    ASSUME Inv, SeedStep, UNCHANGED reports
    PROVE  Inv' /\ answer' = answer
  BY ApiStopsKeeps, SeedWipesRowsKeep, SeedWipesProblemsKeeps, SeedCreatesUserKeeps,
     SeedCreatesProblemKeeps, SeedCreatesTestCasesKeeps, SeedCreatesSubmissionKeeps,
     SeedCreatesAssignmentKeeps DEF SeedStep

-----------------------------------------------------------------------------
(* The invariant holds from the start.                                     *)

LEMMA InitInv ==
    ASSUME Init PROVE Inv
<1>1. /\ mix \in Mixes /\ boot = "up" /\ users = SeededUsers
      /\ at = [r \in Requests |-> "none"] /\ local = [r \in Requests |-> Nothing]
      /\ answer = [r \in Requests |-> 0] /\ counted = [r \in Requests |-> 0]
      /\ raced = [r \in Requests |-> FALSE] /\ gone = [r \in Requests |-> {}]
      /\ assigned = SampleAssignments /\ submitted = SampleSubmissions
      /\ assignments = {} /\ reports = {}
      /\ interviews = SeededInterviews
  BY DEF Init, RequestsInit, NotCounted
<1>2. AbsentProblem.difficulty \in Difficulties
  BY ProblemsAssumption DEF AbsentProblem
<1>3. problem = [p \in ProblemIds |->
         IF p \in SeededProblems
         THEN [state |-> "live", difficulty |-> AbsentProblem.difficulty, tests |-> TestCases]
         ELSE AbsentProblem]
  BY DEF Init
<1>4. \A p \in ProblemIds :
        /\ p \in SeededProblems => problem[p].tests = TestCases
        /\ Exists(p) <=> p \in SeededProblems
        /\ problem[p] \in ProblemRow /\ problem[p].state # "deleted"
  BY <1>2, <1>3 DEF ProblemRow, AbsentProblem, Exists
<1>5. problem \in [ProblemIds -> ProblemRow]
  BY <1>3, <1>4
<1>6. PICK host \in [SeededInterviews -> {u.id : u \in {v \in users : hasUserRole(v, "CANDIDATE")}}] :
        candidates = {[id |-> i, jobId |-> i, userId |-> host[i],
                       startTime |-> Null, endTime |-> Null] : i \in SeededInterviews}
  BY DEF Init
<1>7. \A i \in SeededInterviews : \E u \in users : host[i] = u.id
  OBVIOUS
<1>8. ASSUME NEW c \in candidates
      PROVE  /\ c \in [id : InterviewIds, jobId : InterviewIds, userId : UserIds,
                       startTime : Columns, endTime : Columns]
             /\ c.jobId \in SeededInterviews /\ UserById(c.userId) # {}
             /\ c = [id |-> c.jobId, jobId |-> c.jobId, userId |-> host[c.jobId],
                     startTime |-> Null, endTime |-> Null]
  <2>1. PICK i \in SeededInterviews :
          c = [id |-> i, jobId |-> i, userId |-> host[i], startTime |-> Null, endTime |-> Null]
    BY <1>6
  <2>2. PICK u \in users : host[i] = u.id
    BY <1>7
  <2>3. host[i] \in UserIds /\ UserById(host[i]) # {}
    BY <1>1, <2>2 DEF UserIds, UserById
  <2> QED BY <2>1, <2>3 DEF InterviewIds, Columns
<1>9. Handlers
  BY <1>1 DEF Handlers, RequestsTypeOK, InFlight
<1>10. BackendTypeOK
  <2>1. users \subseteq UserRow /\ ReportsTypeOK
    BY <1>1, AccountsAssumption DEF ReportsTypeOK
  <2>2. ProblemsTypeOK
    BY <1>1, <1>5, SampleRows DEF ProblemsTypeOK, ProblemRow
  <2>3. InterviewsTypeOK
    BY <1>1, <1>8 DEF InterviewsTypeOK, InterviewIds
  <2> QED BY <1>1, <1>9, <2>1, <2>2, <2>3 DEF BackendTypeOK, Handlers
<1>11. \A r \in Requests : Knows(r)
  BY <1>1 DEF Knows, KnowsAccount, KnowsProblem, KnowsDraws, KnowsCandidate, KnowsAssignment
<1>12. Makers /\ GoneIsDeleted /\ RestOfDeleted
  <2>1. /\ \A p \in Requests : ~Exists(p)
        /\ interviews \intersect Requests = {}
        /\ \A u \in users : u.id \notin Requests
    BY <1>1, <1>4, ProblemsAssumption, InterviewsAssumption, AccountsAssumption DEF ProblemIds
  <2> QED BY <1>1, <2>1, SampleRows DEF Makers, GoneIsDeleted, RestOfDeleted
<1>13. TablesConsistent
  <2>1. \A x, y \in candidates : <<x.jobId, x.userId>> = <<y.jobId, y.userId>> => x = y
    BY <1>8
  <2>2. /\ \A u, v \in users : u.name = v.name => u = v
        /\ \A u, v \in users : u.email = v.email /\ u.email # NoEmail => u = v
    BY <1>1, AccountsAssumption
  <2>3. /\ \A s \in submitted : Exists(s.problem)
        /\ \A x \in assigned : Exists(x.problem) /\ UserById(x.user) # {}
    <3>1. \A p \in SeededProblems : Exists(p)
      BY <1>4 DEF ProblemIds
    <3> QED BY <1>1, <3>1, SampleRows DEF UserById
  <2> QED BY <1>1, <1>8, <2>1, <2>2, <2>3 DEF TablesConsistent, UniqueBy
<1>14. SeedInv
  BY <1>1, <1>4, ProblemsAssumption DEF SeedInv, Filling, TestsThere
<1> QED BY <1>9, <1>10, <1>11, <1>12, <1>13, <1>14 DEF Inv

LEMMA StutterKeeps ==
    ASSUME Inv, UNCHANGED vars
    PROVE  Inv' /\ answer' = answer
<1>1. /\ UNCHANGED <<mix, boot, at, local, answer, counted, raced, gone, users>>
      /\ UNCHANGED <<problem, assigned, submitted, interviews, candidates, assignments, reports>>
  BY DEF vars, frameVars, requestVars, tables, problemTables, interviewTables
<1>2. Handlers' /\ BackendTypeOK'
  BY <1>1 DEF Inv, Handlers, BackendTypeOK, RequestsTypeOK, InFlight, ProblemsTypeOK,
              InterviewsTypeOK, ReportsTypeOK
<1>3. ASSUME NEW r \in Requests PROVE Knows(r)'
  <2>1. Knows(r)
    BY DEF Inv
  <2>2. KnowsAccount(r)'
    BY <1>1, <2>1 DEF Knows, KnowsAccount, Taken
  <2>3. KnowsProblem(r)'
    BY <1>1, <2>1 DEF Knows, KnowsProblem, Found, HasUser, UserById, Exists
  <2>4. KnowsDraws(r)'
    BY <1>1, <2>1 DEF Knows, KnowsDraws, Found, HasUser, UserById, Exists
  <2>5. KnowsCandidate(r)'
    BY <1>1, <2>1 DEF Knows, KnowsCandidate, HasUser, UserById
  <2>6. KnowsAssignment(r)'
    BY <1>1, <2>1 DEF Knows, KnowsAssignment, Found, HasUser, UserById, Exists
  <2> QED BY <2>2, <2>3, <2>4, <2>5, <2>6 DEF Knows
<1>4. Makers' /\ GoneIsDeleted' /\ RestOfDeleted'
  BY <1>1 DEF Inv, Makers, GoneIsDeleted, RestOfDeleted, Exists
<1>5. TablesConsistent'
  BY <1>1 DEF Inv, TablesConsistent, UniqueBy, UserById, Exists
<1>6. SeedInv'
  <2>1. NoProblem' = NoProblem
    BY DEF NoProblem, AbsentProblem, ProblemIds
  <2> QED BY <1>1, <2>1 DEF Inv, SeedInv, TestsThere, InFlight, Exists
<1> QED BY <1>1, <1>2, <1>3, <1>4, <1>5, <1>6 DEF Inv

-----------------------------------------------------------------------------
(* A step of a request answers no other one, and settles for good.         *)

Answers(r) ==
    /\ at[r] # "done" /\ \E to : at' = [at EXCEPT ![r] = to]
    /\ InFlight(r) \/ boot = "up"
    /\ boot' = boot
    /\ answer' = answer \/ \E code : answer' = [answer EXCEPT ![r] = code]

\* A step of r from where it is, if it may be taken there: a request arrives
\* only when the container is up.
Leaves(r, from) ==
    \/ \E to, keeps : Awaits(r, from, to, keeps)
    \/ \E code, success : Replies(r, from, code, success)
    \/ \E code : Commits(r, from, code)
Acts(r, from) == Leaves(r, from) /\ (from = "none" => boot = "up")

LEMMA ActsAnswers ==
    ASSUME NEW r \in Requests, at \in [Requests -> Places],
           NEW from \in Awaiting \union {"none"}, Acts(r, from)
    PROVE  Answers(r)
<1>1. from # "done"
  BY DEF Awaiting
<1>2. Goes(r, from, "done", Nothing) \/ \E to, keeps : Goes(r, from, to, keeps)
  BY Zenon DEF Acts, Leaves, Awaits, Replies, Commits
<1>3. at[r] = from /\ \E to : at' = [at EXCEPT ![r] = to]
  BY <1>2, Zenon DEF Goes
<1>4. answer' = answer \/ \E code : answer' = [answer EXCEPT ![r] = code]
  BY Zenon DEF Acts, Leaves, Awaits, Replies, Commits, Responds
<1>5. boot' = boot
  BY Zenon DEF Acts, Leaves, Awaits, Replies, Commits, frameVars
<1> QED BY <1>1, <1>3, <1>4, <1>5 DEF Answers, Acts, InFlight, Awaiting

LEMMA StepsLeave ==
    ASSUME NEW r
    PROVE  /\ \A from, to, keeps : Awaits(r, from, to, keeps) => Leaves(r, from)
           /\ \A from, code, success : Replies(r, from, code, success) => Leaves(r, from)
           /\ \A from, code : Commits(r, from, code) => Leaves(r, from)
  BY Zenon DEF Leaves

LEMMA RequestAnswers ==
    ASSUME NEW r \in Requests, at \in [Requests -> Places],
           \/ AccountStep(r)
           \/ ProblemStep(r)
           \/ InterviewStep(r) \/ CandidateStep(r) \/ AssignmentStep(r)
           \/ ViewStep(r)
           \/ ReportStep(r)
           \/ \E route \in GuardedRoutes : RefuseCaller(r, route[1], route[2])
    PROVE  Answers(r)
<1>9. /\ \A from, to, keeps : Awaits(r, from, to, keeps) => Leaves(r, from)
      /\ \A from, code, success : Replies(r, from, code, success) => Leaves(r, from)
      /\ \A from, code : Commits(r, from, code) => Leaves(r, from)
  BY StepsLeave
<1>0. \A from \in Awaiting \union {"none"} : Acts(r, from) => Answers(r)
  BY ActsAnswers
<1>1. CASE AccountStep(r)
  <2>1. SignupChecks(r) => Acts(r, "none")
    BY <1>9, SMT DEF SignupChecks, Handles, Acts
  <2>2. SignupInserts(r) => Acts(r, "signup.hash")
    BY <1>9, SMT DEF SignupInserts, Acts
  <2>3. Login(r) => Acts(r, "none")
    BY <1>9, SMT DEF Login, Handles, Acts
  <2> QED BY <1>0, <1>1, <2>1, <2>2, <2>3 DEF AccountStep, Awaiting
<1>2. CASE ProblemStep(r)
  <2>1. CreateProblem(r) => Acts(r, "none")
    BY <1>9, SMT DEF CreateProblem, Arrives, Handles, Acts
  <2>2. UpdateFindsProblem(r) => Acts(r, "none")
    BY <1>9, SMT DEF UpdateFindsProblem, Arrives, Handles, Acts
  <2>3. UpdateWritesProblem(r) => Acts(r, "update.write")
    BY <1>9, SMT DEF UpdateWritesProblem, Acts
  <2>4. RemoveFindsProblem(r) => Acts(r, "none")
    BY <1>9, SMT DEF RemoveFindsProblem, Arrives, Handles, Acts
  <2>5. RemoveWritesProblem(r) => Acts(r, "remove.write")
    BY <1>9, SMT DEF RemoveWritesProblem, Acts
  <2>6. AssignFindsProblem(r) => Acts(r, "none")
    BY <1>9, SMT DEF AssignFindsProblem, Arrives, Handles, Acts
  <2>7. AssignFindsUser(r) => Acts(r, "assign.user")
    <3> SUFFICES ASSUME AssignFindsUser(r) PROVE Acts(r, "assign.user")
      OBVIOUS
    <3>1. \/ Replies(r, "assign.user", 404, 200) \/ Replies(r, "assign.user", 400, 200)
          \/ \E keeps : Awaits(r, "assign.user", "assign.write", keeps)
      BY Zenon DEF AssignFindsUser
    <3> QED BY <1>9, <3>1 DEF Acts
  <2>8. AssignUpserts(r) => Acts(r, "assign.write")
    BY <1>9, SMT DEF AssignUpserts, Acts
  <2>9. SubmitFindsProblem(r) => Acts(r, "none")
    BY <1>9, SMT DEF SubmitFindsProblem, Arrives, Handles, Acts
  <2>10. SubmitInserts(r) => Acts(r, "submit.write")
    BY <1>9, SMT DEF SubmitInserts, Acts
  <2>11. ReaderFindsProblem(r) => Acts(r, "none")
    BY <1>9, SMT DEF ReaderFindsProblem, Arrives, Handles, Acts
  <2>12. ReaderReadsTestCases(r) => Acts(r, "testcases.read")
    BY <1>9, SMT DEF ReaderReadsTestCases, Acts
  <2>13. ReaderReplies(r) => Acts(r, "testcases.reply")
    BY <1>9, SMT DEF ReaderReplies, Acts
  <2> QED BY <1>0, <1>2, <2>1, <2>2, <2>3, <2>4, <2>5, <2>6, <2>7, <2>8, <2>9, <2>10,
          <2>11, <2>12, <2>13 DEF ProblemStep, Awaiting
<1>3. CASE InterviewStep(r)
  <2>1. CreateInterviewAlone(r) => Acts(r, "none")
    BY <1>9, SMT DEF CreateInterviewAlone, Arrives, Handles, Acts
  <2>2. InterviewFindsUser(r) => Acts(r, "none")
    BY <1>9, SMT DEF InterviewFindsUser, Arrives, Handles, Acts
  <2>3. DrawProblems(r) => Acts(r, "interview.draw")
    <3> SUFFICES ASSUME DrawProblems(r) PROVE Acts(r, "interview.draw")
      OBVIOUS
    <3>1. \/ Replies(r, "interview.draw", 400, 201)
          \/ \E to, keeps : Awaits(r, "interview.draw", to, keeps)
      BY Zenon DEF DrawProblems
    <3> QED BY <1>9, <3>1 DEF Acts
  <2>4. InterviewWrites(r) => Acts(r, "interview.write")
    BY <1>9, SMT DEF InterviewWrites, Acts
  <2>5. RenameInterview(r) => Acts(r, "none")
    BY <1>9, SMT DEF RenameInterview, Arrives, Handles, Acts
  <2>6. RemoveInterview(r) => Acts(r, "none")
    BY <1>9, SMT DEF RemoveInterview, Arrives, Handles, Acts
  <2> QED BY <1>0, <1>3, <2>1, <2>2, <2>3, <2>4, <2>5, <2>6 DEF InterviewStep, Awaiting
<1>4. CASE CandidateStep(r)
  <2>1. CandidateFindsInterview(r) => Acts(r, "none")
    BY <1>9, SMT DEF CandidateFindsInterview, Arrives, Handles, Acts
  <2>2. CandidateFindsUser(r) => Acts(r, "candidate.user")
    BY <1>9, SMT DEF CandidateFindsUser, Acts
  <2>3. CandidateInserts(r) => Acts(r, "candidate.write")
    BY <1>9, SMT DEF CandidateInserts, Acts
  <2>4. UpdateTimeFinds(r) => Acts(r, "none")
    <3> SUFFICES ASSUME UpdateTimeFinds(r) PROVE Acts(r, "none")
      OBVIOUS
    <3>1. \/ Replies(r, "none", 404, 200) \/ Replies(r, "none", 400, 200)
          \/ Replies(r, "none", 200, 200)
          \/ \E keeps : Awaits(r, "none", "time.write", keeps)
      BY Zenon DEF UpdateTimeFinds
    <3>2. boot = "up"
      BY Zenon DEF UpdateTimeFinds, Arrives, Handles
    <3> QED BY <1>9, <3>1, <3>2 DEF Acts
  <2>5. UpdateTimeWrites(r) => Acts(r, "time.write")
    <3> SUFFICES ASSUME UpdateTimeWrites(r) PROVE Acts(r, "time.write")
      OBVIOUS
    <3>1. \/ Replies(r, "time.write", 500, 200)
          \/ Commits(r, "time.write", 200)
      BY Zenon DEF UpdateTimeWrites
    <3> QED BY <1>9, <3>1 DEF Acts
  <2>6. RemoveFindsCandidate(r) => Acts(r, "none")
    <3> SUFFICES ASSUME RemoveFindsCandidate(r) PROVE Acts(r, "none")
      OBVIOUS
    <3>1. \/ Replies(r, "none", 404, 204)
          \/ \E keeps : Awaits(r, "none", "candidate.delete", keeps)
      BY Zenon DEF RemoveFindsCandidate
    <3>2. boot = "up"
      BY Zenon DEF RemoveFindsCandidate, Arrives, Handles
    <3> QED BY <1>9, <3>1, <3>2 DEF Acts
  <2>7. DeletesCandidate(r) => Acts(r, "candidate.delete")
    BY <1>9, SMT DEF DeletesCandidate, Acts
  <2> QED BY <1>0, <1>4, <2>1, <2>2, <2>3, <2>4, <2>5, <2>6, <2>7 DEF CandidateStep, Awaiting
<1>5. CASE AssignmentStep(r)
  <2>1. AssignmentFindsInterview(r) => Acts(r, "none")
    BY <1>9, SMT DEF AssignmentFindsInterview, Arrives, Handles, Acts
  <2>2. AssignmentFindsUser(r) => Acts(r, "assignment.user")
    BY <1>9, SMT DEF AssignmentFindsUser, Acts
  <2>3. AssignmentFindsProblem(r) => Acts(r, "assignment.problem")
    BY <1>9, SMT DEF AssignmentFindsProblem, Acts
  <2>4. AssignmentInserts(r) => Acts(r, "assignment.write")
    BY <1>9, SMT DEF AssignmentInserts, Acts
  <2>5. RemoveFindsAssignment(r) => Acts(r, "none")
    <3> SUFFICES ASSUME RemoveFindsAssignment(r) PROVE Acts(r, "none")
      OBVIOUS
    <3>1. \/ Replies(r, "none", 404, 204)
          \/ \E keeps : Awaits(r, "none", "assignment.delete", keeps)
      BY Zenon DEF RemoveFindsAssignment
    <3>2. boot = "up"
      BY Zenon DEF RemoveFindsAssignment, Arrives, Handles
    <3> QED BY <1>9, <3>1, <3>2 DEF Acts
  <2>6. DeletesAssignment(r) => Acts(r, "assignment.delete")
    BY <1>9, SMT DEF DeletesAssignment, Acts
  <2> QED BY <1>0, <1>5, <2>1, <2>2, <2>3, <2>4, <2>5, <2>6 DEF AssignmentStep, Awaiting
<1>6. CASE ViewStep(r)
  <2>1. ListStarts(r) => Acts(r, "none")
    BY <1>9, SMT DEF ListStarts, Arrives, Handles, Acts
  <2>2. ListCounts(r) => Acts(r, "list.read")
    BY <1>9, SMT DEF ListCounts, Acts, PageQuery, Keeping
  <2>3. ListTakes(r) => Acts(r, "list.read")
    BY <1>9, SMT DEF ListTakes, Acts, PageQuery, Keeping
  <2>4. ListReplies(r) => Acts(r, "list.reply")
    BY <1>9, SMT DEF ListReplies, Acts
  <2>5. ViewFindsProblem(r) => Acts(r, "none")
    BY <1>9, SMT DEF ViewFindsProblem, Arrives, Handles, Acts
  <2>6. ViewCountsAssigned(r) => Acts(r, "view.count")
    BY <1>9, SMT DEF ViewCountsAssigned, Acts, AnalyticsQuery, Keeping
  <2>7. ViewCounts(r) => Acts(r, "view.count")
    BY <1>9, SMT DEF ViewCounts, Acts, AnalyticsQuery, Keeping
  <2>8. ViewReplies(r) => Acts(r, "view.reply")
    BY <1>9, SMT DEF ViewReplies, Acts
  <2> QED BY <1>0, <1>6, <2>1, <2>2, <2>3, <2>4, <2>5, <2>6, <2>7, <2>8 DEF ViewStep, Awaiting
<1>7. CASE ReportStep(r)
  <2>1. CreateReport(r) => Acts(r, "none")
    BY <1>9, SMT DEF CreateReport, Handles, Acts
  <2>2. SummaryCounts(r) => Acts(r, "none")
    BY <1>9, SMT DEF SummaryCounts, Handles, Acts
  <2>3. SummaryAssesses(r) => Acts(r, "summary.assess")
    BY <1>9, SMT DEF SummaryAssesses, Acts
  <2>4. SummaryReplies(r) => Acts(r, "summary.reply")
    BY <1>9, SMT DEF SummaryReplies, Acts
  <2> QED BY <1>0, <1>7, <2>1, <2>2, <2>3, <2>4 DEF ReportStep, Awaiting
<1>8. CASE \E route \in GuardedRoutes : RefuseCaller(r, route[1], route[2])
  <2>1. Acts(r, "none")
    BY <1>8, <1>9, SMT DEF RefuseCaller, Handles, Acts
  <2> QED BY <1>0, <2>1
<1> QED BY <1>1, <1>2, <1>3, <1>4, <1>5, <1>6, <1>7, <1>8

\* The handlers' steps, with what they leave alone.
RequestStep(r) ==
    \/ AccountStep(r) /\ UNCHANGED <<gone, problemTables, interviewTables, reports>>
    \/ ProblemStep(r) /\ UNCHANGED <<users, interviewTables, reports>>
    \/ /\ InterviewStep(r) \/ CandidateStep(r) \/ AssignmentStep(r)
       /\ UNCHANGED <<users, problemTables, reports>>
    \/ ViewStep(r) /\ UNCHANGED reports
    \/ ReportStep(r) /\ UNCHANGED <<gone, users, problemTables, interviewTables>>
    \/ \E route \in GuardedRoutes :
         /\ RefuseCaller(r, route[1], route[2])
         /\ UNCHANGED <<gone, problemTables, interviewTables, reports>>

FailureIsARace ==
    \A r \in Requests : answer'[r] >= 500 /\ answer'[r] # answer[r] => raced[r]

LEMMA NextKeeps ==
    ASSUME Inv, [Next]_vars
    PROVE  Inv' /\ FailureIsARace
<1>1. ASSUME NEW r \in Requests, RequestStep(r) PROVE Inv' /\ FailureIsARace
  <2>1. Inv' /\ (answer'[r] = answer[r] \/ answer'[r] < 500 \/ raced[r])
    BY <1>1, RequestKeeps DEF RequestStep
  <2>2. at \in [Requests -> Places] /\ answer \in [Requests -> Nat] /\ answer' \in [Requests -> Nat]
    BY <2>1 DEF Inv, Handlers, RequestsTypeOK, Places
  <2>3. Answers(r)
    BY <1>1, <2>2, RequestAnswers DEF RequestStep
  <2>4. \A q \in Requests \ {r} : answer'[q] = answer[q]
    BY <2>2, <2>3 DEF Answers
  <2>5. answer'[r] \in Nat
    BY <2>2
  <2> QED BY <2>1, <2>4, <2>5 DEF FailureIsARace
<1>2. ASSUME Inv' /\ answer' = answer PROVE Inv' /\ FailureIsARace
  BY <1>2 DEF FailureIsARace
<1>3. ASSUME NEW s \in submitted, StatusWritten(s) /\ UNCHANGED <<interviewTables, reports>>
      PROVE  Inv' /\ FailureIsARace
  BY <1>2, <1>3, StatusKeeps
<1>4. CASE SeedStep /\ UNCHANGED reports
  BY <1>2, <1>4, SeedKeeps
<1>5. CASE UNCHANGED vars
  BY <1>2, <1>5, StutterKeeps
<1>6. Rest => UNCHANGED vars
  BY DEF Rest
<1> QED BY <1>1, <1>3, <1>4, <1>5, <1>6 DEF Next, RequestStep

LEMMA InvAlways == Spec => []Inv
<1>1. Init => Inv
  BY InitInv
<1>2. Inv /\ [Next]_vars => Inv'
  BY NextKeeps
<1> QED BY <1>1, <1>2, PTL DEF Spec

-----------------------------------------------------------------------------
(* The properties of Backend.                                              *)

\* Every variable keeps its type, and a settled request keeps nothing, however
\* many requests run and whatever they ask for.
THEOREM BackendTypes == Spec => []BackendTypeOK
<1>1. Inv => BackendTypeOK
  BY DEF Inv
<1> QED BY <1>1, InvAlways, PTL

\* The tables refer to rows that are there and no key is there twice, whatever
\* handlers run at once and wherever the seed script is stopped.
THEOREM TablesStayConsistent == Spec => []TablesConsistent
<1>1. Inv => TablesConsistent
  BY DEF Inv
<1> QED BY <1>1, InvAlways, PTL

\* A request that came after the deletion of a problem never makes an assignment
\* or a submission of it: what it has found it found after it came.
THEOREM DeletedStayAtRest == Spec => []DeletedProblemsRest
<1>1. Inv => DeletedProblemsRest
  BY DEF Inv, RestOfDeleted, DeletedProblemsRest, Knows, KnowsProblem, Found
<1> QED BY <1>1, InvAlways, PTL

\* While the API is up every problem has test cases, and a reader that found the
\* problem answers with some, though it reads them in a second query.
THEOREM TestsStay == Spec => []TestsNeverEmpty
<1>1. Inv => TestsNeverEmpty
  BY DEF Inv, SeedInv, TestsThere, TestsNeverEmpty, Knows, KnowsProblem
<1> QED BY <1>1, InvAlways, PTL

\* An uncaught error of the database, a 500, is only ever answered to a request
\* during which another one has written.
THEOREM FailuresAreRaces == Spec => ServerErrorsAreRaces
<1>1. Inv /\ [Next]_vars => [FailureIsARace]_vars
  BY NextKeeps
<1>2. FailureIsARace =>
        \A r \in Requests : answer'[r] >= 500 /\ answer'[r] # answer[r] => raced[r]
  BY DEF FailureIsARace
<1> QED BY <1>1, <1>2, InvAlways, PTL DEF Spec, ServerErrorsAreRaces, FailureIsARace

-----------------------------------------------------------------------------
(* The windows of the candidates.                                          *)

\* A row of a candidate is made once, by a request that has been answered.
CandidatesInv ==
    /\ \A c \in candidates : c.id \in Requests => at[c.id] = "done"
    /\ \A c, d \in candidates : c.id = d.id => c = d

\* WindowNeedsStaleRead, of one step.
WindowStep ==
    \A d \in candidates' :
      ~ValidWindow(d) =>
        \/ d \in candidates
        \/ \E r \in Requests :
             /\ at[r] = "time.write" /\ at'[r] = "done"
             /\ local[r].row.id = d.id
             /\ local[r].row \notin candidates

DoneStay == \A q \in Requests : at[q] = "done" => at'[q] = "done"

LEMMA StatusIsCoherent ==
    ASSUME NEW c, c.startTime \in Columns, c.endTime \in Columns
    PROVE  CoherentStatus(c)
<1> SUFFICES ASSUME NEW now \in Times, getTimeStatus(c, now).status # "NOT_SCHEDULED"
             PROVE  LET s == getTimeStatus(c, now) IN
                      /\ s.remaining + s.elapsed = s.duration
                      /\ s.remaining >= 0 /\ s.elapsed >= 0
  BY DEF CoherentStatus
<1>1. c.startTime # Null /\ c.endTime # Null
  BY DEF getTimeStatus
<1>2. now \in Nat /\ c.startTime \in Nat /\ c.endTime \in Nat
  BY <1>1, InterviewsAssumption DEF Columns
<1>3. CASE now < c.startTime
  BY <1>1, <1>2, <1>3 DEF getTimeStatus
<1>4. CASE c.startTime <= now /\ now <= c.endTime
  BY <1>1, <1>2, <1>4 DEF getTimeStatus
<1>5. CASE ~(now < c.startTime) /\ ~(c.startTime <= now /\ now <= c.endTime)
  BY <1>1, <1>2, <1>5 DEF getTimeStatus
<1> QED BY <1>3, <1>4, <1>5

LEMMA NoNewCandidate ==
    ASSUME CandidatesInv, DoneStay, candidates' \subseteq candidates
    PROVE  CandidatesInv' /\ WindowStep
  BY DEF CandidatesInv, DoneStay, WindowStep

LEMMA OneNewCandidate ==
    ASSUME CandidatesInv, DoneStay, NEW r \in Requests, at[r] # "done", at'[r] = "done",
           NEW c, c.id = r, ValidWindow(c), candidates' = candidates \union {c}
    PROVE  CandidatesInv' /\ WindowStep
<1>1. \A d \in candidates : d.id # r
  BY DEF CandidatesInv
<1> QED BY <1>1 DEF CandidatesInv, DoneStay, WindowStep

\* The columns given are written to the one row of that id: if it is the one
\* that was read, the window that was checked is the one it has now.
LEMMA UpdatedCandidate ==
    ASSUME Inv, CandidatesInv, DoneStay, NEW r \in Requests, UpdateTimeWrites(r),
           candidates' # candidates
    PROVE  CandidatesInv' /\ WindowStep
<1> DEFINE Merged(c) == [c EXCEPT !.startTime = Or(local[r].startTime, @),
                                  !.endTime = Or(local[r].endTime, @)]
<1>1. at[r] = "time.write"
  BY Zenon DEF UpdateTimeWrites
<1>2. Commits(r, "time.write", 200)
  BY Zenon DEF UpdateTimeWrites
<1>3. candidates' = {IF c.id # local[r].row.id THEN c ELSE Merged(c) : c \in candidates}
  BY Zenon DEF UpdateTimeWrites
<1>4. ASSUME NEW c \in candidates
      PROVE  /\ Merged(c).id = c.id
             /\ Merged(c).startTime = Or(local[r].startTime, c.startTime)
             /\ Merged(c).endTime = Or(local[r].endTime, c.endTime)
  <2>1. c \in [id : InterviewIds, jobId : InterviewIds, userId : UserIds,
               startTime : Columns, endTime : Columns]
    BY DEF Inv, BackendTypeOK, InterviewsTypeOK
  <2>2. DOMAIN c = {"id", "jobId", "userId", "startTime", "endTime"}
    BY <2>1
  <2> QED BY <2>2
<1> HIDE DEF Merged
<1>5. \A d \in candidates' : \E c \in candidates :
        d.id = c.id /\ (d = c \/ (c.id = local[r].row.id /\ d = Merged(c)))
  BY <1>3, <1>4
<1>6. \A c \in candidates, d \in candidates' :
        d.id = c.id => d = IF c.id # local[r].row.id THEN c ELSE Merged(c)
  BY <1>3, <1>4 DEF CandidatesInv
<1>7. CandidatesInv'
  BY <1>5, <1>6 DEF CandidatesInv, DoneStay
<1>8. at'[r] = "done"
  BY <1>1, <1>2 DEF Commits, Goes, Inv, Handlers, RequestsTypeOK
<1>9. ASSUME NEW d \in candidates', ~ValidWindow(d), d \notin candidates
      PROVE  local[r].row.id = d.id /\ local[r].row \notin candidates
  <2>1. PICK c \in candidates : d.id = c.id /\ c.id = local[r].row.id /\ d = Merged(c)
    BY <1>5, <1>9
  <2>2. CASE local[r].row \in candidates
    <3>1. c = local[r].row
      BY <2>1, <2>2 DEF CandidatesInv
    <3>2. validateTimeRange(Or(local[r].startTime, c.startTime), Or(local[r].endTime, c.endTime))
      BY <1>1, <3>1 DEF Inv, Knows, KnowsCandidate
    <3>3. ValidWindow(d)
      BY <1>4, <2>1, <3>2 DEF ValidWindow
    <3> QED BY <3>3, <1>9
  <2> QED BY <2>1, <2>2
<1> QED BY <1>1, <1>7, <1>8, <1>9 DEF WindowStep

LEMMA SeedTakesCandidates ==
    ASSUME Inv, SeedStep
    PROVE  DoneStay /\ candidates' \subseteq candidates
<1>1. CASE ApiStops
  BY <1>1 DEF ApiStops, DoneStay, InFlight, interviewTables
<1>2. CASE ~ApiStops
  <2>1. at' = at /\ candidates' \subseteq candidates
    BY <1>2 DEF SeedStep, SeedStops, Seeding, requestVars, interviewTables,
       SeedWipesSubmissions, SeedWipesAssignments, SeedWipesCandidates, SeedWipesInterviews,
       SeedWipesTestCases, SeedWipesProblems, SeedWipesUsers, SeedCreatesUser,
       SeedCreatesProblem, SeedCreatesTestCases, SeedCreatesSubmission, SeedCreatesAssignment,
       Creating
  <2> QED BY <2>1 DEF DoneStay
<1> QED BY <1>1, <1>2

\* Only three calls make or change a row of a candidate.
LEMMA CandidatesOfSteps ==
    ASSUME NEW r \in Requests, RequestStep(r)
    PROVE  \/ candidates' \subseteq candidates
           \/ InterviewWrites(r) \/ CandidateInserts(r) \/ UpdateTimeWrites(r)
<1>1. CASE InterviewStep(r)
  <2>1. CASE CreateInterviewAlone(r)
    BY <2>1 DEF CreateInterviewAlone
  <2>2. CASE InterviewFindsUser(r)
    BY <2>2 DEF InterviewFindsUser, interviewTables
  <2>3. CASE DrawProblems(r)
    BY <2>3 DEF DrawProblems, interviewTables
  <2>4. CASE RenameInterview(r)
    BY <2>4 DEF RenameInterview, interviewTables
  <2>5. CASE RemoveInterview(r)
    BY <2>5 DEF RemoveInterview, interviewTables
  <2> QED BY <1>1, <2>1, <2>2, <2>3, <2>4, <2>5 DEF InterviewStep
<1>2. CASE CandidateStep(r)
  <2>1. CASE CandidateFindsInterview(r)
    BY <2>1 DEF CandidateFindsInterview, interviewTables
  <2>2. CASE CandidateFindsUser(r)
    BY <2>2 DEF CandidateFindsUser, interviewTables
  <2>3. CASE UpdateTimeFinds(r)
    BY <2>3 DEF UpdateTimeFinds, interviewTables
  <2>4. CASE RemoveFindsCandidate(r)
    BY <2>4 DEF RemoveFindsCandidate, interviewTables
  <2>5. CASE DeletesCandidate(r)
    BY <2>5 DEF DeletesCandidate
  <2> QED BY <1>2, <2>1, <2>2, <2>3, <2>4, <2>5 DEF CandidateStep
<1>3. CASE AssignmentStep(r)
  <2>1. CASE AssignmentFindsInterview(r) \/ AssignmentFindsUser(r) \/ AssignmentFindsProblem(r)
    BY <2>1 DEF AssignmentFindsInterview, AssignmentFindsUser, AssignmentFindsProblem, interviewTables
  <2>2. CASE AssignmentInserts(r)
    BY <2>2 DEF AssignmentInserts
  <2>3. CASE RemoveFindsAssignment(r)
    BY <2>3 DEF RemoveFindsAssignment, interviewTables
  <2>4. CASE DeletesAssignment(r)
    BY <2>4 DEF DeletesAssignment
  <2> QED BY <1>3, <2>1, <2>2, <2>3, <2>4 DEF AssignmentStep
<1>4. CASE UNCHANGED interviewTables
  BY <1>4 DEF interviewTables
<1>5. ViewStep(r) => UNCHANGED interviewTables
  BY Zenon DEF ViewStep, interviewTables
<1> QED BY <1>1, <1>2, <1>3, <1>4, <1>5 DEF RequestStep

LEMMA WindowNext ==
    ASSUME Inv, CandidatesInv, [Next]_vars
    PROVE  CandidatesInv' /\ WindowStep
<1>1. ASSUME NEW r \in Requests, RequestStep(r) PROVE CandidatesInv' /\ WindowStep
  <2>0. at \in [Requests -> Places]
    BY DEF Inv, Handlers, RequestsTypeOK, Places
  <2>1. Answers(r)
    BY <1>1, <2>0, RequestAnswers DEF RequestStep
  <2>2. DoneStay /\ at[r] # "done"
    BY <2>0, <2>1 DEF Answers, DoneStay
  <2>3. CASE candidates' \subseteq candidates
    BY <2>2, <2>3, NoNewCandidate
  <2>4. CASE InterviewWrites(r) /\ candidates' # candidates
    <3> DEFINE c == [id |-> r, jobId |-> r, userId |-> local[r].user,
                     startTime |-> Null, endTime |-> Null]
    <3>1. Commits(r, "interview.write", 201) /\ candidates' = candidates \union {c}
      BY <2>4 DEF InterviewWrites, interviewTables
    <3>2. c.id = r /\ ValidWindow(c)
      BY DEF ValidWindow, validateTimeRange
    <3>3. at'[r] = "done"
      BY <2>0, <3>1 DEF Commits, Goes
    <3> HIDE DEF c
    <3> QED BY <2>2, <3>1, <3>2, <3>3, OneNewCandidate
  <2>5. CASE CandidateInserts(r) /\ candidates' # candidates
    <3> DEFINE L == local[r]
               c == [id |-> r, jobId |-> L.jobId, userId |-> L.userId,
                     startTime |-> L.startTime, endTime |-> L.endTime]
    <3>1. Commits(r, "candidate.write", 201) /\ candidates' = candidates \union {c}
      BY <2>5 DEF CandidateInserts
    <3>2. at[r] = "candidate.write"
      BY <2>5 DEF CandidateInserts
    <3>3. validateTimeRange(L.startTime, L.endTime)
      BY <3>2 DEF Inv, Knows, KnowsCandidate
    <3>4. c.id = r /\ ValidWindow(c)
      BY <3>3 DEF ValidWindow
    <3>5. at'[r] = "done"
      BY <2>0, <3>1 DEF Commits, Goes
    <3> HIDE DEF c, L
    <3> QED BY <2>2, <3>1, <3>4, <3>5, OneNewCandidate
  <2>6. CASE UpdateTimeWrites(r) /\ candidates' # candidates
    BY <2>2, <2>6, UpdatedCandidate
  <2> QED BY <1>1, <2>3, <2>4, <2>5, <2>6, CandidatesOfSteps
<1>2. CASE SeedStep
  BY <1>2, SeedTakesCandidates, NoNewCandidate
<1>3. ASSUME NEW s \in submitted, StatusWritten(s) /\ UNCHANGED <<interviewTables, reports>>
      PROVE  CandidatesInv' /\ WindowStep
  <2>1. at' = at /\ candidates' = candidates
    BY <1>3, StatusBecomes DEF Becomes, requestVars, interviewTables
  <2> QED BY <2>1, NoNewCandidate DEF DoneStay
<1>4. CASE UNCHANGED vars
  <2>1. at' = at /\ candidates' = candidates
    BY <1>4 DEF vars, requestVars, tables, interviewTables
  <2> QED BY <2>1, NoNewCandidate DEF DoneStay
<1>5. Rest => UNCHANGED vars
  BY DEF Rest
<1> QED BY <1>1, <1>2, <1>3, <1>4, <1>5 DEF Next, RequestStep

\* A window becomes invalid only by an update whose request had read the row
\* before another request changed it; and whatever the window, the time a
\* candidate is told to have left and the time elapsed make up the duration.
THEOREM StaleWindows == Spec => WindowNeedsStaleRead
<1> DEFINE Step ==
      \A d \in candidates' :
         /\ ~ValidWindow(d) =>
              \/ d \in candidates
              \/ \E r \in Requests :
                   /\ at[r] = "time.write" /\ at'[r] = "done"
                   /\ local[r].row.id = d.id
                   /\ local[r].row \notin candidates
         /\ CoherentStatus(d)
<1>1. Init => CandidatesInv
  <2> SUFFICES ASSUME Init PROVE CandidatesInv
    OBVIOUS
  <2>1. PICK host : candidates = {[id |-> i, jobId |-> i, userId |-> host[i],
                                   startTime |-> Null, endTime |-> Null] : i \in SeededInterviews}
    BY DEF Init
  <2> QED BY <2>1, InterviewsAssumption DEF CandidatesInv
<1>2. Inv /\ CandidatesInv /\ [Next]_vars => CandidatesInv'
  BY WindowNext
<1>3. Inv /\ Inv' /\ CandidatesInv /\ [Next]_vars => Step
  <2> SUFFICES ASSUME Inv, Inv', CandidatesInv, [Next]_vars, NEW d \in candidates'
               PROVE  /\ ~ValidWindow(d) =>
                           \/ d \in candidates
                           \/ \E r \in Requests :
                                /\ at[r] = "time.write" /\ at'[r] = "done"
                                /\ local[r].row.id = d.id
                                /\ local[r].row \notin candidates
                      /\ CoherentStatus(d)
    OBVIOUS
  <2>1. WindowStep
    BY WindowNext
  <2>2. d \in [id : InterviewIds, jobId : InterviewIds, userId : UserIds,
               startTime : Columns, endTime : Columns]
    BY DEF Inv, BackendTypeOK, InterviewsTypeOK
  <2>3. CoherentStatus(d)
    BY <2>2, StatusIsCoherent
  <2> QED BY <2>1, <2>3 DEF WindowStep
<1> HIDE DEF Step
<1>4. Spec => [][Step]_vars
  BY <1>1, <1>2, <1>3, InvAlways, PTL DEF Spec
<1> QED BY <1>4 DEF WindowNeedsStaleRead, Step

-----------------------------------------------------------------------------
(* What the seed script leaves.                                            *)

\* What the script has reached at each of its calls, since nobody else writes.
Restored ==
    /\ boot \notin {"up", "submission", "createSubmissions", "createAssignments"} => submitted = {}
    /\ boot = "createSubmissions" => submitted \subseteq SampleSubmissions
    /\ boot = "createAssignments" => submitted = SampleSubmissions
    /\ boot \notin {"up", "submission", "assignment", "createAssignments"} => assigned = {}
    /\ boot = "createAssignments" => assigned \subseteq SampleAssignments
    /\ boot \notin {"up", "submission", "assignment", "interviewCandidate", "interview"} =>
         interviews = {} /\ candidates = {} /\ assignments = {}
    /\ boot \in Filling =>
         /\ users = SeededUsers
         /\ \A p \in Requests : problem[p] = AbsentProblem
    /\ boot = "createProblems" =>
         \A p \in SeededProblems : problem[p].state \in {"absent", "live"} /\ problem[p].tests = {}
    /\ boot \in Filling \ {"createProblems"} =>
         \A p \in SeededProblems : problem[p].state = "live"
    /\ boot = "createTestCases" =>
         \A p \in SeededProblems : problem[p].tests \in {{}, TestCases}
    /\ boot \in {"createSubmissions", "createAssignments"} =>
         \A p \in SeededProblems : problem[p].tests = TestCases

\* SeedRestores, of one step.
RestoreStep ==
    /\ boot = "problem" => ~BlocksProblems
    /\ boot = "user" => ~BlocksUsers
    /\ boot # "up" /\ boot' = "up" =>
         /\ users' = SeededUsers
         /\ \A p \in ProblemIds :
              IF p \in SeededProblems
              THEN problem'[p].state = "live" /\ problem'[p].tests = TestCases
              ELSE problem'[p] = AbsentProblem
         /\ submitted' = SampleSubmissions /\ assigned' = SampleAssignments
         /\ interviews' = {} /\ candidates' = {} /\ assignments' = {}

LEMMA NeverBlocked ==
    ASSUME Restored
    PROVE  (boot = "problem" => ~BlocksProblems) /\ (boot = "user" => ~BlocksUsers)
  BY DEF Restored, BlocksProblems, BlocksUsers

LEMMA RestoredElsewhere ==
    ASSUME Restored, boot' \in {"up", "submission"}, boot' = boot \/ boot' = "submission"
    PROVE  Restored' /\ RestoreStep
  BY NeverBlocked DEF Restored, Filling, RestoreStep

LEMMA SeedRestoring ==
    ASSUME Inv, Restored, SeedStep
    PROVE  Restored' /\ RestoreStep
<1>0. AbsentProblem' = AbsentProblem /\ ProblemIds' = ProblemIds
  BY DEF AbsentProblem, ProblemIds
<1>1. CASE ApiStops \/ SeedStops
  <2>1. boot' = "submission"
    BY <1>1 DEF ApiStops, SeedStops
  <2> QED BY <2>1, RestoredElsewhere
<1>2. CASE SeedWipesSubmissions \/ SeedWipesAssignments
  <2>1. \/ boot = "submission" /\ boot' = "assignment" /\ submitted' = {}
        \/ boot = "assignment" /\ boot' = "interviewCandidate" /\ submitted' = submitted /\ assigned' = {}
    BY <1>2 DEF SeedWipesSubmissions, SeedWipesAssignments, Seeding, After
  <2> QED BY <2>1 DEF Restored, Filling, RestoreStep
<1>3. CASE SeedWipesCandidates \/ SeedWipesInterviews
  <2>1. /\ submitted' = submitted /\ assigned' = assigned
        /\ \/ boot = "interviewCandidate" /\ boot' = "interview"
           \/ /\ boot = "interview" /\ boot' = "testCase"
              /\ interviews' = {} /\ candidates' = {} /\ assignments' = {}
    BY <1>3 DEF SeedWipesCandidates, SeedWipesInterviews, Seeding, After, problemTables
  <2> QED BY <2>1 DEF Restored, Filling, RestoreStep
<1>4. CASE SeedWipesTestCases
  <2>1. /\ boot = "testCase" /\ boot' = "problem" /\ submitted' = submitted /\ assigned' = assigned
        /\ UNCHANGED <<interviews, candidates, assignments>>
    BY <1>4 DEF SeedWipesTestCases, Seeding, After, interviewTables
  <2> QED BY <2>1 DEF Restored, Filling, RestoreStep
<1>5. CASE SeedWipesProblems \/ SeedWipesUsers
  <2>1. /\ submitted' = submitted /\ interviews' = interviews
        /\ assigned' = {} \/ assigned' = assigned
        /\ candidates' = {} \/ candidates' = candidates
        /\ assignments' = {}
        /\ \/ boot = "problem" /\ boot' = "user"
           \/ boot = "user" /\ boot' = "createUsers"
    BY <1>5 DEF SeedWipesProblems, SeedWipesUsers, Seeding, After, problemTables
  <2> QED BY <2>1, NeverBlocked DEF Restored, Filling, RestoreStep
<1>6. CASE SeedCreatesUser
  <2>1. /\ Calls("createUsers")
        /\ \/ SeededUsers \subseteq users' /\ boot' = "createProblems"
           \/ boot' = "createUsers"
    <3>1. Creating("createUsers", SeededUsers \ users')
      BY <1>6 DEF SeedCreatesUser
    <3>2. "createUsers" \in DOMAIN After /\ After["createUsers"] = "createProblems"
      BY DEF After
    <3> QED BY <3>1, <3>2, CreatingCalls
  <2>2. /\ boot = "createUsers"
        /\ UNCHANGED <<problem, submitted, assigned, interviews, candidates, assignments>>
    BY <1>6, <2>1 DEF SeedCreatesUser, Calls, problemTables, interviewTables
  <2>3. problem = NoProblem /\ users' \subseteq SeededUsers
    BY <1>6, <2>2 DEF SeedCreatesUser, Inv, SeedInv
  <2>4. \A p \in ProblemIds : problem'[p] = AbsentProblem
    BY <2>2, <2>3 DEF NoProblem
  <2>5. \A p \in SeededProblems \union Requests : problem'[p] = AbsentProblem
    BY <2>4 DEF ProblemIds
  <2>6. AbsentProblem.state = "absent" /\ AbsentProblem.tests = {}
    BY DEF AbsentProblem
  <2> HIDE DEF NoProblem
  <2>7. Restored'
    BY <1>0, <2>1, <2>2, <2>3, <2>5, <2>6 DEF Restored, Filling
  <2> QED BY <2>1, <2>2, <2>7 DEF RestoreStep
<1>7. CASE SeedCreatesProblem
  <2>1. PICK p \in SeededProblems, d \in Difficulties :
          problem' = [problem EXCEPT ![p] = [state |-> "live", difficulty |-> d, tests |-> {}]]
    BY <1>7 DEF SeedCreatesProblem
  <2>2. /\ Calls("createProblems")
        /\ \/ (\A q \in SeededProblems : problem'[q].state # "absent") /\ boot' = "createTestCases"
           \/ boot' = "createProblems"
    <3>1. Creating("createProblems", {q \in SeededProblems : problem'[q].state = "absent"})
      BY <1>7 DEF SeedCreatesProblem
    <3>2. "createProblems" \in DOMAIN After /\ After["createProblems"] = "createTestCases"
      BY DEF After
    <3> QED BY <3>1, <3>2, CreatingCalls
  <2>3. /\ boot = "createProblems"
        /\ UNCHANGED <<users, submitted, assigned, interviews, candidates, assignments>>
    BY <1>7, <2>2 DEF SeedCreatesProblem, Calls, interviewTables
  <2>4. /\ \A q \in SeededProblems : problem'[q].state \in {"absent", "live"} /\ problem'[q].tests = {}
        /\ \A q \in Requests : problem'[q] = AbsentProblem
    <3>1. p \in ProblemIds /\ p \notin Requests
      BY ProblemsAssumption DEF ProblemIds
    <3>2. \A q \in ProblemIds : problem'[q] = IF q = p
              THEN [state |-> "live", difficulty |-> d, tests |-> {}] ELSE problem[q]
      BY <2>1, <3>1, SeedTypes
    <3>3. /\ \A q \in SeededProblems : problem[q].state \in {"absent", "live"} /\ problem[q].tests = {}
          /\ \A q \in Requests : problem[q] = AbsentProblem
      BY <2>3 DEF Restored, Filling
    <3> QED BY <3>1, <3>2, <3>3 DEF ProblemIds
  <2>5. Restored'
    BY <1>0, <2>2, <2>3, <2>4 DEF Restored, Filling
  <2> QED BY <2>2, <2>3, <2>5 DEF RestoreStep
<1>8. CASE SeedCreatesTestCases
  <2>1. PICK p \in SeededProblems : problem' = [problem EXCEPT ![p].tests = TestCases]
    BY <1>8 DEF SeedCreatesTestCases
  <2>2. /\ Calls("createTestCases")
        /\ \/ (\A q \in SeededProblems : problem'[q].tests # {}) /\ boot' = "createSubmissions"
           \/ boot' = "createTestCases"
    <3>1. Creating("createTestCases", {q \in SeededProblems : problem'[q].tests = {}})
      BY <1>8 DEF SeedCreatesTestCases
    <3>2. "createTestCases" \in DOMAIN After /\ After["createTestCases"] = "createSubmissions"
      BY DEF After
    <3> QED BY <3>1, <3>2, CreatingCalls
  <2>3. /\ boot = "createTestCases"
        /\ UNCHANGED <<users, submitted, assigned, interviews, candidates, assignments>>
    BY <1>8, <2>2 DEF SeedCreatesTestCases, Calls, interviewTables
  <2>4. /\ \A q \in SeededProblems : problem'[q].state = "live" /\ problem'[q].tests \in {{}, TestCases}
        /\ \A q \in Requests : problem'[q] = AbsentProblem
    <3>1. p \in ProblemIds /\ p \notin Requests /\ problem[p] \in ProblemRow
      BY ProblemsAssumption, SeedTypes DEF ProblemIds
    <3>2. /\ problem'[p].state = problem[p].state /\ problem'[p].tests = TestCases
          /\ \A q \in ProblemIds \ {p} : problem'[q] = problem[q]
      BY <2>1, <3>1, SeedTypes DEF ProblemRow
    <3>3. /\ \A q \in SeededProblems : problem[q].state = "live" /\ problem[q].tests \in {{}, TestCases}
          /\ \A q \in Requests : problem[q] = AbsentProblem
      BY <2>3 DEF Restored, Filling
    <3> QED BY <3>1, <3>2, <3>3 DEF ProblemIds
  <2>5. Restored'
    BY <1>0, <2>2, <2>3, <2>4 DEF Restored, Filling
  <2> QED BY <2>2, <2>3, <2>5 DEF RestoreStep
<1>9. CASE SeedCreatesSubmission
  <2>1. /\ Calls("createSubmissions")
        /\ \/ SampleSubmissions \subseteq submitted' /\ boot' = "createAssignments"
           \/ boot' = "createSubmissions"
    <3>1. Creating("createSubmissions", SampleSubmissions \ submitted')
      BY <1>9 DEF SeedCreatesSubmission
    <3>2. "createSubmissions" \in DOMAIN After /\ After["createSubmissions"] = "createAssignments"
      BY DEF After
    <3> QED BY <3>1, <3>2, CreatingCalls
  <2>2. /\ boot = "createSubmissions"
        /\ UNCHANGED <<users, problem, assigned, interviews, candidates, assignments>>
    BY <1>9, <2>1 DEF SeedCreatesSubmission, Calls, interviewTables
  <2>3. submitted' \subseteq SampleSubmissions
    BY <1>9, <2>2 DEF SeedCreatesSubmission, Restored
  <2>4. Restored'
    BY <1>0, <2>1, <2>2, <2>3 DEF Restored, Filling
  <2> QED BY <2>1, <2>2, <2>4 DEF RestoreStep
<1>10. CASE SeedCreatesAssignment
  <2>1. /\ Calls("createAssignments")
        /\ \/ SampleAssignments \subseteq assigned' /\ boot' = "up"
           \/ boot' = "createAssignments"
    <3>1. Creating("createAssignments", SampleAssignments \ assigned')
      BY <1>10 DEF SeedCreatesAssignment
    <3>2. "createAssignments" \in DOMAIN After /\ After["createAssignments"] = "up"
      BY DEF After
    <3> QED BY <3>1, <3>2, CreatingCalls
  <2>2. /\ boot = "createAssignments"
        /\ UNCHANGED <<users, problem, submitted, interviews, candidates, assignments>>
    BY <1>10, <2>1 DEF SeedCreatesAssignment, Calls, interviewTables
  <2>3. assigned' \subseteq SampleAssignments
    BY <1>10, <2>2 DEF SeedCreatesAssignment, Restored
  <2>4. Restored'
    BY <1>0, <2>1, <2>2, <2>3 DEF Restored, Filling
  <2>5. \A p \in ProblemIds :
           IF p \in SeededProblems
           THEN problem'[p].state = "live" /\ problem'[p].tests = TestCases
           ELSE problem'[p] = AbsentProblem
    BY <2>2 DEF Restored, Filling, ProblemIds
  <2>6. users = SeededUsers /\ submitted = SampleSubmissions
        /\ interviews = {} /\ candidates = {} /\ assignments = {}
    BY <2>2 DEF Restored, Filling
  <2> QED BY <2>1, <2>2, <2>3, <2>4, <2>5, <2>6 DEF RestoreStep
<1> QED BY <1>1, <1>2, <1>3, <1>4, <1>5, <1>6, <1>7, <1>8, <1>9, <1>10 DEF SeedStep

LEMMA RestoreNext ==
    ASSUME Inv, Restored, [Next]_vars
    PROVE  Restored' /\ RestoreStep
<1>1. ASSUME NEW r \in Requests, RequestStep(r) PROVE Restored' /\ RestoreStep
  <2>1. at \in [Requests -> Places]
    BY DEF Inv, Handlers, RequestsTypeOK, Places
  <2>2. Answers(r)
    BY <1>1, <2>1, RequestAnswers DEF RequestStep
  <2>3. boot = "up" /\ boot' = boot
    BY <2>2 DEF Answers, Inv, SeedInv
  <2> QED BY <2>3, RestoredElsewhere
<1>2. CASE SeedStep
  BY <1>2, SeedRestoring
<1>3. ASSUME NEW s \in submitted, StatusWritten(s) PROVE Restored' /\ RestoreStep
  <2>1. boot' = boot /\ s.id \in Requests
    BY <1>3, StatusBecomes DEF Becomes, frameVars
  <2>2. boot \in {"up", "submission"}
    BY <2>1, SampleRows DEF Restored
  <2> QED BY <2>1, <2>2, RestoredElsewhere
<1>4. CASE UNCHANGED vars
  <2>1. UNCHANGED <<boot, users, problem, assigned, submitted, interviews, candidates, assignments>>
    BY <1>4 DEF vars, frameVars, tables, problemTables, interviewTables
  <2>2. AbsentProblem' = AbsentProblem /\ ProblemIds' = ProblemIds
    BY DEF AbsentProblem, ProblemIds
  <2> QED BY <2>1, <2>2, NeverBlocked DEF Restored, Filling, RestoreStep
<1>5. Rest => UNCHANGED vars
  BY DEF Rest
<1> QED BY <1>1, <1>2, <1>3, <1>4, <1>5 DEF Next, RequestStep

\* No foreign key ever blocks a wipe of the seed script, and however often it was
\* stopped, a script that ends leaves the seeded rows and no others.
THEOREM SeedIsRestoring == Spec => SeedRestores
<1>1. Init => Restored
  BY DEF Init, RequestsInit, Restored, Filling
<1>2. Inv /\ Restored /\ [Next]_vars => Restored'
  BY RestoreNext
<1>3. Inv /\ Restored /\ [Next]_vars => RestoreStep
  BY RestoreNext
<1>4. Spec => [][RestoreStep]_vars
  BY <1>1, <1>2, <1>3, InvAlways, PTL DEF Spec
<1> QED BY <1>4 DEF SeedRestores, RestoreStep

=============================================================================
