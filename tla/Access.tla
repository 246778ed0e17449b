-------------------------------- MODULE Access --------------------------------
(***************************************************************************)
(* Accounts, logins and sessions of the triage API (WS-3):                 *)
(*   shared/users.py      UserStore                                        *)
(*   shared/rbac.py       LoginRateLimiter                                 *)
(*   shared/sessions.py   SessionStore (RedisSessionStore has the same      *)
(*                        operations)                                      *)
(*   shared/mfa.py        time steps of TOTP codes                         *)
(*   ws3-indexer          triage_api.py and admin_api.py, the routes        *)
(*                                                                         *)
(* Requests run in the threads of one HTTP server.  Each statement that     *)
(* takes the store's, the limiter's or the sessions' lock is one step.     *)
(***************************************************************************)
EXTENDS Naturals, Sequences, FiniteSets

CONSTANTS
    Users,        \* account names
    FirstAdmin,   \* the account of ensure_first_boot_admin
    Threads,      \* handler threads
    MaxAttempts,  \* max_attempts of the limiter
    Window,       \* window_s of the limiter, in time steps
    MaxClock,     \* bound on the clock, which counts TOTP steps
    MaxRequests   \* bound on the requests

Roles == {"viewer", "admin"}

ASSUME AccessAssumption ==
    /\ FirstAdmin \in Users /\ IsFiniteSet(Threads)
    /\ MaxAttempts \in Nat \ {0} /\ Window \in Nat \ {0}
    /\ MaxClock \in Nat /\ MaxRequests \in Nat

VARIABLES
    clock,
    row,        \* row[u]: the account's row, NoRow if there is none
    sessions,   \* token -> session, tokens are request numbers
    attempts,   \* attempts[u]: _attempts of the limiter, each with the request that failed
    job,        \* job[t]: the request thread t is handling
    requests,   \* requests so far
    guesses,    \* history: guesses[u], the wrong passwords since a success, likewise
    steps,      \* history: steps[u], time steps accepted for u, in order
    changes     \* history: changes[u], how often role or disabled was written

vars == <<clock, row, sessions, attempts, job, requests, guesses, steps, changes>>
historyVars == <<guesses, steps, changes>>

NoRow == [role |-> "none"]
Account(role) == [role |-> role, disabled |-> FALSE, secret |-> 0, active |-> FALSE, last |-> 0]
Exists(u) == row[u] # NoRow
Idle == [pc |-> "idle"]

\* A request of account u, with the token it came with or will get.
NewJob(label, op, u, token) ==
    [pc |-> label, op |-> op, user |-> u, token |-> token, role |-> "none",
     began |-> 0, target |-> u, step |-> 0, last |-> 0]

\* ensure_first_boot_admin on an empty store.
Init ==
    /\ clock = 2
    /\ row = [u \in Users |-> IF u = FirstAdmin THEN Account("admin") ELSE NoRow]
    /\ sessions = <<>>
    /\ attempts = [u \in Users |-> {}]
    /\ job = [t \in Threads |-> Idle]
    /\ requests = 0
    /\ guesses = [u \in Users |-> {}]
    /\ steps = [u \in Users |-> <<>>]
    /\ changes = [u \in Users |-> 0]

At(t, label) == job[t].pc = label
Set(t, j) == job' = [job EXCEPT ![t] = j]
Goto(t, label) == Set(t, [job[t] EXCEPT !.pc = label])
Finish(t) == Set(t, Idle)
User(t) == job[t].user

\* A failure of thread t's login; a login fails once at most, so that a set of
\* failures stands for the list of their times.
Failure(t) == [at |-> clock, by |-> job[t].token]
Recent(S) == {x \in S : x.at + Window > clock}
Drop(f, x) == [y \in DOMAIN f \ {x} |-> f[y]]

-----------------------------------------------------------------------------
(* POST /auth/login                                                        *)

\* Faulty variant: the limit is off by one.
IsLockedOut_OffByOne(u) == Cardinality(Recent(attempts[u])) > MaxAttempts

IsLockedOut(u) == Cardinality(Recent(attempts[u])) >= MaxAttempts

\* is_locked_out, which also forgets the attempts that are too old.
Login(t, u) ==
    /\ At(t, "idle")
    /\ requests < MaxRequests
    /\ requests' = requests + 1
    /\ attempts' = [attempts EXCEPT ![u] = Recent(@)]
    /\ IF IsLockedOut(u) THEN UNCHANGED job
       ELSE Set(t, NewJob("password", "login", u, requests'))
    /\ UNCHANGED <<clock, row, sessions, historyVars>>

\* verify_login reads the row; the password is checked without the lock.
Password(t) ==
    LET u == User(t) IN
    /\ At(t, "password")
    /\ \/ /\ Exists(u) /\ ~row[u].disabled
          /\ Set(t, [job[t] EXCEPT !.pc = "success", !.role = row[u].role])
          /\ UNCHANGED guesses
       \/ /\ guesses' = [guesses EXCEPT ![u] = @ \cup {Failure(t)}]
          /\ Goto(t, "failure")
    /\ UNCHANGED <<clock, row, sessions, attempts, requests, steps, changes>>

RecordFailure(t) ==
    /\ At(t, "failure")
    /\ attempts' = [attempts EXCEPT ![User(t)] = @ \cup {Failure(t)}]
    /\ Finish(t)
    /\ UNCHANGED <<clock, row, sessions, requests, historyVars>>

\* record_success, after the row's last_login_at is written.
RecordSuccess(t) ==
    /\ At(t, "success")
    /\ attempts' = [attempts EXCEPT ![User(t)] = {}]
    /\ guesses' = [guesses EXCEPT ![User(t)] = {}]
    /\ Goto(t, "mfa")
    /\ UNCHANGED <<clock, row, sessions, requests, steps, changes>>

\* is_totp_enabled
TotpEnabled(t) ==
    /\ At(t, "mfa")
    /\ Goto(t, IF row[User(t)].active THEN "totp" ELSE "create")
    /\ UNCHANGED <<clock, row, sessions, attempts, requests, historyVars>>

\* The session gets the role of the row read by verify_login.
CreateSession(t) ==
    LET id == job[t].token IN
    /\ At(t, "create")
    /\ sessions' = [i \in DOMAIN sessions \cup {id} |->
                       IF i = id THEN [user |-> User(t), role |-> job[t].role] ELSE sessions[i]]
    /\ Finish(t)
    /\ UNCHANGED <<clock, row, attempts, requests, historyVars>>

-----------------------------------------------------------------------------
(* verify_totp, for a login and for POST /auth/mfa/verify.                 *)

\* A code that is not accepted: a login counts it as a failure.
Rejected(t) == IF job[t].op = "login" THEN Goto(t, "failure") ELSE Finish(t)

\* verify_totp reads the row and matches the code, without the lock, with the
\* steps around the clock.
TotpMatch(t) ==
    LET u == job[t].target IN
    /\ At(t, "totp")
    /\ \/ /\ row[u].secret # 0
          /\ \E step \in {clock - 1, clock, clock + 1} :
                Set(t, [job[t] EXCEPT !.pc = "commit", !.step = step, !.last = row[u].last])
       \/ Rejected(t)
    /\ UNCHANGED <<clock, row, sessions, attempts, requests, historyVars>>

Accept(t, u) ==
    /\ row' = [row EXCEPT ![u].active = TRUE, ![u].last = job[t].step]
    /\ steps' = [steps EXCEPT ![u] = Append(@, job[t].step)]
    /\ IF job[t].op = "login" THEN Goto(t, "create") ELSE Finish(t)

\* Faulty variant: the step is compared with the row read before the lock.
TotpCommit_StaleRow(t) ==
    LET u == job[t].target IN
    /\ At(t, "commit")
    /\ IF job[t].step <= job[t].last THEN Rejected(t) /\ UNCHANGED <<row, steps>> ELSE Accept(t, u)
    /\ UNCHANGED <<clock, sessions, attempts, requests, guesses, changes>>

\* The counter is read again, compared and written under one lock.
TotpCommit(t) ==
    LET u == job[t].target IN
    /\ At(t, "commit")
    /\ IF job[t].step <= row[u].last THEN Rejected(t) /\ UNCHANGED <<row, steps>> ELSE Accept(t, u)
    /\ UNCHANGED <<clock, sessions, attempts, requests, guesses, changes>>

-----------------------------------------------------------------------------
(* Requests of a session.                                                  *)

Ops == {"get", "patch", "create", "mfa_enable", "mfa_verify"}

\* _current_session: resolve the token.
Request(t, token, op) ==
    LET s == sessions[token] IN
    /\ At(t, "idle")
    /\ requests < MaxRequests
    /\ requests' = requests + 1
    /\ token \in DOMAIN sessions
    /\ Set(t, [NewJob("account", op, s.user, token) EXCEPT !.role = s.role, !.began = changes[s.user]])
    /\ UNCHANGED <<clock, row, sessions, attempts, historyVars>>

\* Faulty variant: the session's role is good until the session ends.
CheckAccount_TrustsSession(t) ==
    /\ At(t, "account")
    /\ Goto(t, IF job[t].op \in {"patch", "create"} /\ job[t].role # "admin" THEN "refuse" ELSE "act")
    /\ UNCHANGED <<clock, row, sessions, attempts, requests, historyVars>>

\* _current_session reads the account again; a session whose account is disabled
\* or has another role is invalidated.  _require_role("admin") guards the users.
CheckAccount(t) ==
    LET r == row[User(t)] IN
    /\ At(t, "account")
    /\ Goto(t, IF r.disabled \/ r.role # job[t].role THEN "revoke"
               ELSE IF job[t].op \in {"patch", "create"} /\ job[t].role # "admin" THEN "refuse" ELSE "act")
    /\ UNCHANGED <<clock, row, sessions, attempts, requests, historyVars>>

Revoke(t) ==
    /\ At(t, "revoke")
    /\ sessions' = Drop(sessions, job[t].token)
    /\ Finish(t)
    /\ UNCHANGED <<clock, row, attempts, requests, historyVars>>

Refuse(t) ==
    /\ At(t, "refuse")
    /\ Finish(t)
    /\ UNCHANGED <<clock, row, sessions, attempts, requests, historyVars>>

\* A read-only route has answered.
Serve(t) ==
    /\ At(t, "act")
    /\ job[t].op = "get"
    /\ Finish(t)
    /\ UNCHANGED <<clock, row, sessions, attempts, requests, historyVars>>

\* POST /users: the row is inserted, or the name is taken.
CreateUser(t, u, role) ==
    /\ At(t, "act")
    /\ job[t].op = "create"
    /\ row' = IF Exists(u) THEN row ELSE [row EXCEPT ![u] = Account(role)]
    /\ changes' = IF Exists(u) THEN changes ELSE [changes EXCEPT ![u] = @ + 1]
    /\ Finish(t)
    /\ UNCHANGED <<clock, sessions, attempts, requests, guesses, steps>>

ActiveAdmins == {u \in Users : Exists(u) /\ row[u].role = "admin" /\ ~row[u].disabled}

\* Faulty variant: count_admins counts the disabled ones too.
LastAdmin_CountsDisabled(u, role, disabled) ==
    /\ u \in ActiveAdmins
    /\ role # "admin" \/ disabled
    /\ Cardinality({v \in Users : Exists(v) /\ row[v].role = "admin"}) <= 1

\* The change would leave no active admin.
LastAdmin(u, role, disabled) ==
    /\ u \in ActiveAdmins
    /\ role # "admin" \/ disabled
    /\ Cardinality(ActiveAdmins) <= 1

\* PATCH /users/{name}: the guard and the write share one lock.
UpdateUser(t, u, role, disabled) ==
    /\ At(t, "act")
    /\ job[t].op = "patch"
    /\ IF Exists(u) /\ ~LastAdmin(u, role, disabled)
       THEN /\ row' = [row EXCEPT ![u].role = role, ![u].disabled = disabled]
            /\ changes' = [changes EXCEPT ![u] = @ + 1]
       ELSE UNCHANGED <<row, changes>>
    /\ Finish(t)
    /\ UNCHANGED <<clock, sessions, attempts, requests, guesses, steps>>

\* mfa_reauth and mfa_target, in one step: the session's owner gives the password once
\* more, and is refused if it is wrong or the limiter has locked the key "mfa:<user>",
\* on which the failures here, and those of logins under that very name, are counted.
MfaReauth(t, u) ==
    /\ At(t, "act")
    /\ job[t].op \in {"mfa_enable", "mfa_verify"}
    /\ \/ Finish(t)
       \/ /\ ~row[User(t)].disabled
          /\ u = User(t) \/ (job[t].role = "admin" /\ Exists(u))
          /\ Set(t, [job[t] EXCEPT !.pc = IF job[t].op = "mfa_enable" THEN "enrol" ELSE "totp",
                                   !.target = u])
    /\ UNCHANGED <<clock, row, sessions, attempts, requests, historyVars>>

\* enable_totp: a new secret, to be confirmed; the last step stays.
EnableTotp(t) ==
    /\ At(t, "enrol")
    /\ row' = [row EXCEPT ![job[t].target].secret = 1, ![job[t].target].active = FALSE]
    /\ Finish(t)
    /\ UNCHANGED <<clock, sessions, attempts, requests, historyVars>>

\* POST /auth/logout: invalidate.
Logout(t, token) ==
    /\ At(t, "idle")
    /\ requests < MaxRequests
    /\ requests' = requests + 1
    /\ token \in DOMAIN sessions
    /\ sessions' = Drop(sessions, token)
    /\ UNCHANGED <<clock, row, attempts, job, historyVars>>

\* A session's time is over: the next lookup drops it.
Expire(token) ==
    /\ token \in DOMAIN sessions
    /\ sessions' = Drop(sessions, token)
    /\ UNCHANGED <<clock, row, attempts, job, requests, historyVars>>

-----------------------------------------------------------------------------
Tick ==
    /\ clock < MaxClock
    /\ clock' = clock + 1
    /\ UNCHANGED <<row, sessions, attempts, job, requests, historyVars>>

Thread(t) ==
    \/ \E u \in Users : Login(t, u)
    \/ Password(t)
    \/ RecordFailure(t)
    \/ RecordSuccess(t)
    \/ TotpEnabled(t)
    \/ TotpMatch(t)
    \/ TotpCommit(t)
    \/ CreateSession(t)
    \/ \E token \in DOMAIN sessions, op \in Ops : Request(t, token, op)
    \/ CheckAccount(t)
    \/ Revoke(t)
    \/ Refuse(t)
    \/ Serve(t)
    \/ \E u \in Users, role \in Roles : CreateUser(t, u, role)
    \/ \E u \in Users, role \in Roles, disabled \in BOOLEAN : UpdateUser(t, u, role, disabled)
    \/ \E u \in Users : MfaReauth(t, u)
    \/ EnableTotp(t)
    \/ \E token \in DOMAIN sessions : Logout(t, token)

Next ==
    \/ Tick
    \/ \E t \in Threads : Thread(t)
    \/ \E token \in DOMAIN sessions : Expire(token)

Spec == Init /\ [][Next]_vars

-----------------------------------------------------------------------------
(* Properties.                                                             *)

TypeOK ==
    /\ clock \in 0 .. MaxClock
    /\ \A u \in Users :
         Exists(u) => row[u] \in [role : Roles, disabled : BOOLEAN, secret : {0, 1}, active : BOOLEAN, last : Nat]
    /\ DOMAIN sessions \subseteq 1 .. requests
    /\ attempts \in [Users -> SUBSET [at : Nat, by : Nat]]
    /\ requests \in 0 .. MaxRequests

\* The system can always be administered: no sequence of concurrent demotions and
\* disablings leaves it without an account that is an admin and may log in.
AdminRemains == ActiveAdmins # {}

\* A request acts with the authority its account has: a session minted from a row
\* read before a demotion or a disabling gives a later request nothing.
NoStaleAuthority ==
    \A t \in Threads :
        At(t, "act") /\ job[t].began = changes[User(t)]
        => row[User(t)].role = job[t].role /\ ~row[User(t)].disabled

\* A time step is accepted once for an account, whichever requests bring its code
\* at the same time, and steps are accepted in rising order.
StepAcceptedOnce ==
    \A u \in Users : \A i, j \in DOMAIN steps[u] : i < j => steps[u][i] < steps[u][j]

\* Wrong passwords are checked only so often in a window: the limit, and what the
\* other threads had let in before the last failure was recorded.
GuessesBounded ==
    \A u \in Users : Cardinality(Recent(guesses[u])) <= MaxAttempts + Cardinality(Threads) - 1
=============================================================================
