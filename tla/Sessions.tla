------------------------------ MODULE Sessions ------------------------------
(* Logins and the requests made with their tokens, at one API process, for   *)
(* one user: the rate limiter, AuthService.login, and JwtStrategy.validate   *)
(* before every guarded handler.  The row of the user is read once by each   *)
(* and may be changed at any time.  A token names its user and nothing else. *)
(*                                                                           *)
(* A login with an unknown address is one with a wrong password.             *)
EXTENDS RateLimit

CONSTANTS Slots,        \* requests that may be in flight
          Roles,
          Passwords,
          Lifetime,     \* JWT_EXPIRES_IN, in ticks
          MaxClock,     \* bound: ticks explored
          MaxArrivals,  \* bound: requests explored
          MaxChanges    \* bound: changes of the user's row

ASSUME ValueAssumption == Passwords # {} /\ Roles # {}

VARIABLES user,     \* the row of the user
          trail,    \* numbers of LOGIN_SUCCESS and LOGIN_FAILURE events
          tokens,   \* tokens that clients were given, by their time of issue
          answers,  \* history: numbers of tokens and refusals answered
          work,     \* what each request is doing
          since,    \* history: rows the user has had since a request came in
          bounds    \* numbers of arrivals and changes

sessionVars == <<user, trail, tokens, answers, work, since, bounds>>
vars == <<limitVars, sessionVars>>

-----------------------------------------------------------------------------

UserStatuses == {"ACTIVE", "INACTIVE"}

Rows == [status : UserStatuses, password : Passwords, role : Roles]

\* "refuse" and "admit" wait for their audit events; "handle" is whatever the
\* guarded handler does with the identity that validate returned.
Phases == {"idle", "find", "refuse", "sign", "admit", "validate", "handle"}

\* A request keeps the password it was sent, the row it read, and the time
\* at which it signed a token.
Requests == [phase : Phases, password : Passwords, row : Rows, issuedAt : Nat]

\* Before it is read, "row" has no meaning.
Idle == [phase |-> "idle", password |-> CHOOSE p \in Passwords : TRUE,
         row |-> CHOOSE r \in Rows : TRUE, issuedAt |-> 0]

Goto(s, phase) == work' = [work EXCEPT ![s].phase = phase]

Leave(s) == /\ work' = [work EXCEPT ![s] = Idle]
            /\ since' = [since EXCEPT ![s] = {}]

Arrive(s) ==
    /\ work[s].phase = "idle"
    /\ bounds.arrivals < MaxArrivals
    /\ bounds' = [bounds EXCEPT !.arrivals = @ + 1]

Valid(token) == clock < token + Lifetime

-----------------------------------------------------------------------------
(* login *)

Login(s) ==
    /\ Arrive(s)
    /\ \/ /\ Pass
          /\ \E p \in Passwords :
                work' = [work EXCEPT ![s] = [@ EXCEPT !.phase = "find",
                                                      !.password = p]]
          /\ since' = [since EXCEPT ![s] = {user}]
       \/ Refuse /\ UNCHANGED <<work, since>>
    /\ UNCHANGED <<user, trail, tokens, answers>>

\* The password is compared, which takes its time, with the hash in the row.
FindUser(s) ==
    /\ work[s].phase = "find"
    /\ work' = [work EXCEPT ![s] = [@ EXCEPT
          !.row = user,
          !.phase = IF /\ user.password = work[s].password
                       /\ user.status = "ACTIVE"
                      THEN "sign" ELSE "refuse"]]
    /\ UNCHANGED <<limitVars, user, trail, tokens, answers, since, bounds>>

RefuseLogin(s) ==
    /\ work[s].phase = "refuse"
    /\ trail' = [trail EXCEPT !.failures = @ + 1]
    /\ answers' = [answers EXCEPT !.refused = @ + 1]
    /\ Leave(s)
    /\ UNCHANGED <<limitVars, user, tokens, bounds>>

Sign(s) ==
    /\ work[s].phase = "sign"
    /\ work' = [work EXCEPT ![s] = [@ EXCEPT !.phase = "admit",
                                             !.issuedAt = clock]]
    /\ UNCHANGED <<limitVars, user, trail, tokens, answers, since, bounds>>

AdmitLogin(s) ==
    /\ work[s].phase = "admit"
    /\ trail' = [trail EXCEPT !.successes = @ + 1]
    /\ tokens' = tokens \cup {work[s].issuedAt}
    /\ answers' = [answers EXCEPT !.tokens = @ + 1]
    /\ Leave(s)
    /\ UNCHANGED <<limitVars, user, bounds>>

\* Mutant of AuditFails: a failure to audit is logged and forgotten.
AuditFailsSilently(s) ==
    /\ work[s].phase \in {"refuse", "admit"}
    /\ answers' = IF work[s].phase = "admit"
                    THEN [answers EXCEPT !.tokens = @ + 1]
                    ELSE [answers EXCEPT !.refused = @ + 1]
    /\ Leave(s)
    /\ UNCHANGED <<limitVars, user, trail, tokens, bounds>>

\* The audit event is awaited: if it fails, so does the login.
AuditFails(s) ==
    /\ work[s].phase \in {"refuse", "admit"}
    /\ Leave(s)
    /\ UNCHANGED <<limitVars, user, trail, tokens, answers, bounds>>

-----------------------------------------------------------------------------
(* Guarded requests. *)

\* passport-jwt verifies the signature and the expiry; else 401.
Request(s) ==
    /\ Arrive(s)
    /\ \E token \in tokens : Valid(token)
    /\ Goto(s, "validate")
    /\ since' = [since EXCEPT ![s] = {user}]
    /\ UNCHANGED <<limitVars, user, trail, tokens, answers>>

\* Mutant of Validate: the status is left to the login.
ValidateAnyStatus(s) ==
    /\ work[s].phase = "validate"
    /\ work' = [work EXCEPT ![s] = [@ EXCEPT !.row = user,
                                             !.phase = "handle"]]
    /\ UNCHANGED <<limitVars, user, trail, tokens, answers, since, bounds>>

\* The password in the row is not looked at: a token outlives it.
Validate(s) ==
    /\ work[s].phase = "validate"
    /\ IF user.status = "ACTIVE"
         THEN /\ work' = [work EXCEPT ![s] = [@ EXCEPT !.row = user,
                                                      !.phase = "handle"]]
              /\ UNCHANGED since
         ELSE Leave(s)
    /\ UNCHANGED <<limitVars, user, trail, tokens, answers, bounds>>

Answer(s) ==
    /\ work[s].phase = "handle"
    /\ Leave(s)
    /\ UNCHANGED <<limitVars, user, trail, tokens, answers, bounds>>

-----------------------------------------------------------------------------

\* No service of the API changes a user: an operator does, in the database.
ChangeUser ==
    /\ bounds.changes < MaxChanges
    /\ \E r \in Rows \ {user} :
          /\ user' = r
          /\ since' = [s \in Slots |-> IF work[s].phase = "idle"
                                       THEN {} ELSE since[s] \cup {r}]
    /\ bounds' = [bounds EXCEPT !.changes = @ + 1]
    /\ UNCHANGED <<limitVars, trail, tokens, answers, work>>

\* The process restarts: it loses its buckets and its requests.
Restart ==
    /\ Forget
    /\ work' = [s \in Slots |-> Idle]
    /\ since' = [s \in Slots |-> {}]
    /\ UNCHANGED <<user, trail, tokens, answers, bounds>>

Tick ==
    /\ clock < MaxClock
    /\ LimitTick
    /\ UNCHANGED sessionVars

Init ==
    /\ LimitInit
    /\ user \in {r \in Rows : r.status = "ACTIVE"}
    /\ trail = [successes |-> 0, failures |-> 0]
    /\ tokens = {}
    /\ answers = [tokens |-> 0, refused |-> 0]
    /\ work = [s \in Slots |-> Idle]
    /\ since = [s \in Slots |-> {}]
    /\ bounds = [arrivals |-> 0, changes |-> 0]

Step(s) ==
    \/ Login(s) \/ FindUser(s) \/ RefuseLogin(s) \/ Sign(s) \/ AdmitLogin(s)
    \/ AuditFails(s) \/ Request(s) \/ Validate(s) \/ Answer(s)

Next == ChangeUser \/ Restart \/ Tick \/ \E s \in Slots : Step(s)

Spec == Init /\ [][Next]_vars

-----------------------------------------------------------------------------
(* Properties. *)

TypeOK ==
    /\ LimitTypeOK
    /\ user \in Rows
    /\ trail \in [successes : Nat, failures : Nat]
    /\ tokens \subseteq Nat
    /\ answers \in [tokens : Nat, refused : Nat]
    /\ work \in [Slots -> Requests]
    /\ since \in [Slots -> SUBSET Rows]
    /\ bounds \in [arrivals : Nat, changes : Nat]

\* Nobody is given a token, or told that a login is refused, before the trail
\* has the event, whatever fails or restarts in between.
LoginsAreAudited ==
    /\ answers.tokens <= trail.successes
    /\ answers.refused <= trail.failures

\* The row of the user may change while a request that has read it goes on.
\* What a request acts on is never older than the request itself: a user who
\* was deactivated before it came in is not served, and one whose role was
\* changed is not served with the old role, however long the token lasts.  A
\* new password ends no session: it decides about logins only, and a login
\* that goes on compared the password it was sent with the one in a row that
\* was current since it came in.
ActsAsTheUserIs ==
    \A s \in Slots :
        /\ work[s].phase \in {"sign", "admit", "handle"} =>
              work[s].row \in since[s] /\ work[s].row.status = "ACTIVE"
        /\ work[s].phase \in {"sign", "admit"} =>
              work[s].row.password = work[s].password

=============================================================================
