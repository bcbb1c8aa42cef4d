------------------------------ MODULE Accounts ------------------------------
(***************************************************************************)
(* The users table, AuthService, and the guards in front of every route.   *)
(***************************************************************************)
EXTENDS Requests

CONSTANTS
    SeededUsers,    \* the rows the seed script makes
    Names, Emails,  \* what sign-ups and log-ins give
    NoEmail, Blank  \* email: null, and white space

VARIABLE users      \* rows: id, username, email, role

UserRole == {"ADMIN", "EXAMINER", "QUESTIONER", "CANDIDATE"}
UserIds == {u.id : u \in SeededUsers} \union Requests
UserRow == [id : UserIds, name : Names, email : Emails \union {NoEmail}, role : UserRole]

ASSUME AccountsAssumption ==
    /\ NoEmail \notin Emails /\ Blank \notin Emails
    /\ {u.id : u \in SeededUsers} \intersect Requests = {}
    /\ IsFiniteSet(SeededUsers) /\ SeededUsers \subseteq UserRow
    /\ \A u, v \in SeededUsers :
         u = v \/ (u.id # v.id /\ u.name # v.name /\ (u.email # v.email \/ u.email = NoEmail))

hasUserRole(u, role) == u.role = role
UserById(id) == {u \in users : u.id = id}

-----------------------------------------------------------------------------
(* JwtAuthGuard and RolesGuard.  The role is the row's, not the token's.   *)

Anyone == {}    \* a route without guards

canActivate(u, roles) == hasUserRole(u, "ADMIN") \/ u.role \in roles
Admitted(roles) == roles = Anyone \/ \E u \in users : canActivate(u, roles)

\* No valid token of a user who is still there: 401; not one of the roles: 403.
\* Guards run before the interceptor, which does not count these requests.
RefuseCaller(r, op, roles) ==
    /\ Handles(r, op) /\ roles # Anyone
    /\ \E code \in {401} \union {403 : u \in {v \in users : ~canActivate(v, roles)}} :
         Replies(r, "none", code, NotCounted)
    /\ UNCHANGED users

-----------------------------------------------------------------------------
AccountRoles == [signup |-> Anyone, login |-> Anyone]

\* Variant: white space is stored.
KeepsEmail(email) == email

normalizeEmail(email) == IF email = Blank THEN NoEmail ELSE email

\* The unique columns username and email; many rows may have no email.
Taken(name, email) ==
    \E u \in users : u.name = name \/ (email # NoEmail /\ u.email = email)

SignupChecks(r) ==
    /\ Handles(r, "signup")
    /\ \E name \in Names, given \in Emails \union {NoEmail, Blank} :
         LET email == normalizeEmail(given) IN
         IF Taken(name, email)
         THEN Replies(r, "none", 409, 201)
         ELSE Awaits(r, "none", "signup.hash", [name |-> name, email |-> email])
    /\ UNCHANGED users

\* After bcrypt.hash: the insert, whose P2002 nobody catches.
SignupInserts(r) ==
    /\ at[r] = "signup.hash"
    /\ IF Taken(local[r].name, local[r].email)
       THEN Replies(r, "signup.hash", 500, 201) /\ UNCHANGED users
       ELSE /\ Commits(r, "signup.hash", 201)
            /\ users' = users \union {[id |-> r, name |-> local[r].name,
                                       email |-> local[r].email, role |-> "CANDIDATE"]}

\* 200 with a token for the user of that name and password.
Login(r) ==
    /\ Handles(r, "login")
    /\ \E name \in Names, isValid \in BOOLEAN :
         IF isValid /\ \E u \in users : u.name = name
         THEN Replies(r, "none", 200, 200)
         ELSE Replies(r, "none", 401, 200)
    /\ UNCHANGED users

AccountStep(r) == SignupChecks(r) \/ SignupInserts(r) \/ Login(r)

=============================================================================
