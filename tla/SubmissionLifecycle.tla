------------------------- MODULE SubmissionLifecycle -------------------------
(***************************************************************************)
(* What the judge promises the owner of a submission, without queue,       *)
(* workers or retries: a submission is open until it gets one verdict.  A  *)
(* rejection is final.  An acceptance is provisional until it is settled:  *)
(* the owner is credited if no other submission of the same problem is     *)
(* accepted by then, or (the worker is lost) nobody is credited, or (the   *)
(* credit fails) the acceptance is taken back.                             *)
(***************************************************************************)
EXTENDS Naturals, FiniteSets

CONSTANTS Submissions, Users, UserOf, ProblemOf

VARIABLES verdict, credits

lifecycleVars == <<verdict, credits>>

Verdict == {"none", "open", "provisional", "accepted", "rejected"}

LifecycleInit ==
    /\ verdict = [s \in Submissions |-> "none"]
    /\ credits = [u \in Users |-> 0]

Move(s, from, to) ==
    /\ verdict[s] = from
    /\ verdict' = [verdict EXCEPT ![s] = to]

Submit(s) == Move(s, "none", "open") /\ UNCHANGED credits
Reject(s) == Move(s, "open", "rejected") /\ UNCHANGED credits
Accept(s) == Move(s, "open", "provisional") /\ UNCHANGED credits
Revoke(s) == Move(s, "provisional", "rejected") /\ UNCHANGED credits

\* Some other submission of the same user to the same problem is accepted.
SolvedElsewhere(s) ==
    \E t \in Submissions \ {s} :
        /\ UserOf[t] = UserOf[s] /\ ProblemOf[t] = ProblemOf[s]
        /\ verdict[t] \in {"provisional", "accepted"}

Settle(s) ==
    /\ Move(s, "provisional", "accepted")
    /\ credits' = IF SolvedElsewhere(s) THEN credits
                  ELSE [credits EXCEPT ![UserOf[s]] = @ + 1]

\* The workers settling the submissions of S are lost.
Lose(S) ==
    /\ S # {}
    /\ \A s \in S : verdict[s] = "provisional"
    /\ verdict' = [s \in Submissions |-> IF s \in S THEN "accepted" ELSE verdict[s]]
    /\ UNCHANGED credits

LifecycleNext ==
    \/ \E s \in Submissions :
         Submit(s) \/ Reject(s) \/ Accept(s) \/ Revoke(s) \/ Settle(s)
    \/ \E S \in SUBSET Submissions : Lose(S)

LifecycleSpec == LifecycleInit /\ [][LifecycleNext]_lifecycleVars

=============================================================================
