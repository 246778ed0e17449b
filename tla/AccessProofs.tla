----------------------------- MODULE AccessProofs -----------------------------
(***************************************************************************)
(* Proofs about Access, for any accounts, handler threads and requests:    *)
(* an active admin always remains, no request acts on authority that was   *)
(* withdrawn before it, a TOTP step is accepted once, and wrong passwords  *)
(* are bounded.                                                            *)
(***************************************************************************)
EXTENDS Access, FiniteSetTheorems, TLAPS

(***************************************************************************)
(* The inductive invariant.  Accounts are only ever added, so whatever a   *)
(* session or a request past the password check names exists; changes      *)
(* counts the writes of role and disabled, so that an equal count means    *)
(* an unchanged authority.                                                 *)
(***************************************************************************)
RowType == [role : Roles, disabled : BOOLEAN, secret : {0, 1}, active : BOOLEAN, last : Nat]

Labels == {"password", "failure", "success", "mfa", "create", "totp", "commit",
           "account", "revoke", "refuse", "act", "enrol"}

JobType == [pc : Labels, op : Ops \cup {"login"}, user : Users, token : Nat, role : Roles \cup {"none"},
            began : Nat, target : Users, step : Nat, last : Nat]

StoreOK == row \in [Users -> RowType \cup {NoRow}] /\ changes \in [Users -> Nat]

CountersOK ==
    /\ clock \in Nat \ {0} /\ requests \in Nat /\ DOMAIN sessions \subseteq Nat
    /\ steps \in [Users -> Seq(Nat)]

\* A session belongs to an account.
SessionFits(s) == s.user \in Users /\ Exists(s.user) /\ s.role \in Roles \cup {"none"}

\* Past the password check a request is about accounts that exist, and it knows
\* no later change of its own account than the last one.
JobFits(j) ==
    \/ j = Idle
    \/ /\ j \in JobType
       /\ j.pc = "password" => j.target = j.user
       /\ j.pc \notin {"password", "failure"} => Exists(j.user) /\ Exists(j.target)
       /\ j.began <= changes[j.user]

RequestsOK ==
    /\ \A token \in DOMAIN sessions : SessionFits(sessions[token])
    /\ job \in [Threads -> JobType \cup {Idle}]
    /\ \A t \in Threads : JobFits(job[t])

BaseInv == StoreOK /\ CountersOK /\ RequestsOK

\* The last time step of a row is the largest one accepted for it.
StepsSeen == \A u \in Users : \A i \in DOMAIN steps[u] : Exists(u) /\ steps[u][i] <= row[u].last

AccessInv ==
    /\ BaseInv
    /\ AdminRemains
    /\ NoStaleAuthority
    /\ StepsSeen
    /\ StepAcceptedOnce

-----------------------------------------------------------------------------
(* The store only grows.                                                   *)

\* An account stays, its last step never goes back, and its authority changes only
\* with its count of changes.
StoreGrows ==
    /\ StoreOK'
    /\ \A v \in Users : changes[v] <= changes'[v]
    /\ \A v \in Users : Exists(v) => Exists(v)' /\ row[v].last <= row'[v].last
    /\ \A v \in Users : Exists(v) /\ changes'[v] = changes[v]
                        => row'[v].role = row[v].role /\ row'[v].disabled = row[v].disabled

\* An account's row is not the absence of one.
LEMMA RowExists == \A r \in RowType : r # NoRow
  BY DEF RowType, NoRow, Roles

\* An existing account has a row.
LEMMA RowOfAccount ==
    ASSUME StoreOK, NEW u \in Users, Exists(u)
    PROVE  row[u] \in RowType
  BY DEF StoreOK, Exists

\* Accept and EnableTotp write an account's TOTP columns.
LEMMA MfaWrite ==
    ASSUME StoreOK, NEW u \in Users, Exists(u), NEW r \in RowType,
           row' = [row EXCEPT ![u] = r], UNCHANGED changes,
           r.role = row[u].role, r.disabled = row[u].disabled, row[u].last <= r.last
    PROVE  StoreGrows
  <1>1. row' \in [Users -> RowType \cup {NoRow}]
    BY DEF StoreOK
  <1>2. \A v \in Users : row'[v] = IF v = u THEN r ELSE row[v]
    BY DEF StoreOK
  <1>3. \A v \in Users : changes[v] \in Nat
    BY DEF StoreOK
  <1>4. \A v \in Users : Exists(v) => row[v].last \in Nat
    BY RowOfAccount DEF RowType
  <1>5. \A v \in Users : Exists(v) => Exists(v)' /\ row[v].last <= row'[v].last
    BY <1>2, <1>4, RowExists DEF Exists
  <1>6. QED
    BY <1>1, <1>2, <1>3, <1>5 DEF StoreGrows, StoreOK

\* CreateUser and UpdateUser write an account and count the change.
LEMMA AccountWrite ==
    ASSUME StoreOK, NEW u \in Users, NEW r \in RowType,
           row' = [row EXCEPT ![u] = r], changes' = [changes EXCEPT ![u] = @ + 1],
           Exists(u) => row[u].last <= r.last
    PROVE  StoreGrows
  <1>1. row' \in [Users -> RowType \cup {NoRow}] /\ changes' \in [Users -> Nat]
    BY DEF StoreOK
  <1>2. \A v \in Users : /\ row'[v] = IF v = u THEN r ELSE row[v]
                         /\ changes'[v] = IF v = u THEN changes[v] + 1 ELSE changes[v]
    BY DEF StoreOK
  <1>3. \A v \in Users : changes[v] \in Nat /\ changes[v] + 1 # changes[v] /\ changes[v] <= changes[v] + 1
    BY DEF StoreOK
  <1>4. \A v \in Users : Exists(v) => row[v].last \in Nat
    BY RowOfAccount DEF RowType
  <1>5. \A v \in Users : Exists(v) => Exists(v)' /\ row[v].last <= row'[v].last
    BY <1>2, <1>4, RowExists DEF Exists
  <1>6. \A v \in Users : changes'[v] = changes[v] => row'[v] = row[v]
    BY <1>2, <1>3
  <1>7. \A v \in Users : changes[v] <= changes'[v]
    BY <1>2, <1>3
  <1>8. QED
    BY <1>1, <1>5, <1>6, <1>7 DEF StoreGrows, StoreOK

\* A step that leaves the accounts alone.
LEMMA StoreUnchanged ==
    ASSUME StoreOK, UNCHANGED <<row, changes>>
    PROVE  StoreGrows
  <1>1. \A v \in Users : Exists(v) => row[v].last \in Nat
    BY RowOfAccount DEF RowType
  <1>2. \A v \in Users : changes[v] \in Nat
    BY DEF StoreOK
  <1>3. \A m \in Nat : m <= m
    OBVIOUS
  <1>4. QED
    BY <1>1, <1>2, <1>3 DEF StoreGrows, StoreOK, Exists

\* What a thread past the password check is about exists.
LEMMA JobReads ==
    ASSUME BaseInv, NEW t \in Threads, job[t] # Idle
    PROVE  /\ job[t] \in JobType
           /\ job[t].user \in Users /\ job[t].target \in Users /\ job[t].step \in Nat
           /\ job[t].pc \notin {"password", "failure"} => Exists(job[t].user) /\ Exists(job[t].target)
           /\ job[t].began <= changes[job[t].user]
  <1>1. JobFits(job[t])
    BY DEF BaseInv, RequestsOK
  <1>2. job[t] \in JobType
    BY <1>1 DEF JobFits
  <1>3. QED
    BY <1>1, <1>2 DEF JobFits, JobType

\* A thread that is somewhere in a request is not idle.
LEMMA Busy ==
    ASSUME NEW t \in Threads, NEW label \in Labels, At(t, label)
    PROVE  job[t] # Idle
  BY DEF At, Labels, Idle

\* An accepted step is later than the ones before.
LEMMA AcceptStore ==
    ASSUME BaseInv, NEW t \in Threads, At(t, "commit"),
           ~(job[t].step <= row[job[t].target].last), Accept(t, job[t].target), UNCHANGED changes
    PROVE  /\ StoreGrows
           /\ row'[job[t].target].last = job[t].step
           /\ row[job[t].target].last < job[t].step
  <1> DEFINE u == job[t].target
             r == [row[u] EXCEPT !.active = TRUE, !.last = job[t].step]
  <1>1. u \in Users /\ Exists(u) /\ job[t].step \in Nat /\ StoreOK
    BY Busy, JobReads DEF At, Labels, BaseInv
  <1>2. row[u] \in RowType
    BY <1>1, RowOfAccount
  <1>3. r \in RowType /\ r.role = row[u].role /\ r.disabled = row[u].disabled /\ r.last = job[t].step
    BY <1>1, <1>2 DEF RowType
  <1>4. row' = [row EXCEPT ![u] = r]
    BY <1>1, <1>2 DEF Accept, StoreOK
  <1>5. row[u].last \in Nat /\ row[u].last < job[t].step /\ row[u].last <= r.last
    BY <1>1, <1>2, <1>3 DEF RowType
  <1>6. StoreGrows
    <2> HIDE DEF r
    <2>1. QED
      BY <1>1, <1>3, <1>4, <1>5, MfaWrite
  <1>7. row'[u] = r
    BY <1>1, <1>4 DEF StoreOK
  <1>8. QED
    BY <1>3, <1>5, <1>6, <1>7

\* Every step of a thread lets the store grow.
LEMMA ThreadStore ==
    ASSUME BaseInv, NEW t \in Threads, Thread(t)
    PROVE  StoreGrows
  <1>s. StoreOK
    BY DEF BaseInv
  <1>1. CASE TotpCommit(t)
    <2>1. CASE job[t].step <= row[job[t].target].last
      BY <1>1, <2>1, <1>s, StoreUnchanged DEF TotpCommit
    <2>2. CASE ~(job[t].step <= row[job[t].target].last)
      BY <1>1, <2>2, AcceptStore DEF TotpCommit
    <2>3. QED
      BY <2>1, <2>2
  <1>2. ASSUME NEW u \in Users, NEW role \in Roles, CreateUser(t, u, role) PROVE StoreGrows
    <2>1. CASE Exists(u)
      BY <1>2, <1>s, <2>1, StoreUnchanged DEF CreateUser
    <2>2. CASE ~Exists(u)
      <3>1. Account(role) \in RowType
        BY DEF Account, RowType
      <3>2. QED
        BY <1>2, <1>s, <2>2, <3>1, AccountWrite DEF CreateUser
    <2>3. QED
      BY <2>1, <2>2
  <1>3. ASSUME NEW u \in Users, NEW role \in Roles, NEW disabled \in BOOLEAN, UpdateUser(t, u, role, disabled)
        PROVE  StoreGrows
    <2>1. CASE Exists(u) /\ ~LastAdmin(u, role, disabled)
      <3> DEFINE r == [row[u] EXCEPT !.role = role, !.disabled = disabled]
      <3>1. row[u] \in RowType
        BY <1>s, <2>1, RowOfAccount
      <3>2. r \in RowType /\ row[u].last <= r.last
        <4>1. r \in RowType /\ r.last = row[u].last /\ row[u].last \in Nat
          BY <3>1 DEF RowType
        <4>2. QED
          BY <4>1
      <3>3. row' = [row EXCEPT ![u] = r] /\ changes' = [changes EXCEPT ![u] = @ + 1]
        <4>1. /\ row' = [row EXCEPT ![u].role = role, ![u].disabled = disabled]
              /\ changes' = [changes EXCEPT ![u] = @ + 1]
          BY <1>3, <2>1 DEF UpdateUser
        <4>2. QED
          BY <4>1, <3>1, <1>s DEF StoreOK
      <3> HIDE DEF r
      <3>4. QED
        BY <1>s, <3>2, <3>3, AccountWrite
    <2>2. CASE ~(Exists(u) /\ ~LastAdmin(u, role, disabled))
      BY <1>3, <1>s, <2>2, StoreUnchanged DEF UpdateUser
    <2>3. QED
      BY <2>1, <2>2
  <1>4. CASE EnableTotp(t)
    <2> DEFINE u == job[t].target
               r == [row[u] EXCEPT !.secret = 1, !.active = FALSE]
    <2>1. u \in Users /\ Exists(u)
      BY <1>4, Busy, JobReads DEF EnableTotp, At, Labels
    <2>2. row[u] \in RowType
      BY <1>s, <2>1, RowOfAccount
    <2>3. r \in RowType /\ r.role = row[u].role /\ r.disabled = row[u].disabled /\ row[u].last <= r.last
      <3>1. r \in RowType /\ r.last = row[u].last /\ row[u].last \in Nat
        BY <2>2 DEF RowType
      <3>2. r.role = row[u].role /\ r.disabled = row[u].disabled
        BY <2>2 DEF RowType
      <3>3. QED
        BY <3>1, <3>2
    <2>4. row' = [row EXCEPT ![u] = r] /\ UNCHANGED changes
      <3>1. row' = [row EXCEPT ![u].secret = 1, ![u].active = FALSE] /\ UNCHANGED changes
        BY <1>4 DEF EnableTotp, historyVars
      <3>2. QED
        BY <3>1, <1>s, <2>1, <2>2 DEF StoreOK
    <2> HIDE DEF r
    <2>5. QED
      BY <1>s, <2>1, <2>3, <2>4, MfaWrite
  <1>5. CASE UNCHANGED <<row, changes>>
    BY <1>5, <1>s, StoreUnchanged
  <1>6. QED
    BY <1>1, <1>2, <1>3, <1>4, <1>5 DEF Thread, Login, Password, RecordFailure, RecordSuccess, TotpEnabled,
       TotpMatch, CreateSession, Request, CheckAccount, Revoke, Refuse, Serve, MfaReauth, Logout, historyVars

-----------------------------------------------------------------------------
(* Sessions and requests stay about accounts that exist.                   *)

\* What fits goes on fitting while the store grows.
LEMMA RequestsKept ==
    ASSUME BaseInv, StoreGrows, NEW t \in Threads, NEW j, JobFits(j), job' = [job EXCEPT ![t] = j],
           \A token \in DOMAIN sessions' : SessionFits(sessions'[token])
    PROVE  RequestsOK'
  <1>1. \A token \in DOMAIN sessions' : SessionFits(sessions[token])'
    BY DEF SessionFits, StoreGrows
  <1>2. ASSUME NEW k, JobFits(k) PROVE k = Idle \/ JobFits(k)'
    <2> SUFFICES ASSUME k # Idle PROVE JobFits(k)'
      OBVIOUS
    <2>1. k \in JobType /\ k.user \in Users /\ k.target \in Users /\ k.began \in Nat
      BY <1>2 DEF JobFits, JobType
    <2>2. changes[k.user] \in Nat /\ changes'[k.user] \in Nat /\ changes[k.user] <= changes'[k.user]
      BY <2>1 DEF StoreGrows, BaseInv, StoreOK
    <2>3. k.began <= changes'[k.user]
      BY <1>2, <2>1, <2>2 DEF JobFits
    <2>4. QED
      BY <1>2, <2>1, <2>3 DEF JobFits, StoreGrows
  <1>3. \A s \in Threads : JobFits(job'[s])
    BY DEF BaseInv, RequestsOK
  <1>4. \A s \in Threads : JobFits(job[s])'
    BY <1>2, <1>3 DEF JobFits
  <1>5. job' \in [Threads -> JobType \cup {Idle}]
    <2>1. j \in JobType \cup {Idle}
      BY DEF JobFits
    <2>2. QED
      BY <2>1 DEF BaseInv, RequestsOK
  <1>6. QED
    BY <1>1, <1>4, <1>5 DEF RequestsOK

\* The next point of a request.
LEMMA NextPointFits ==
    ASSUME BaseInv, NEW t \in Threads, job[t] # Idle, NEW j \in JobType,
           j.user = job[t].user, j.began = job[t].began, j.pc # "password",
           j.pc = "failure" \/ (Exists(j.user) /\ Exists(j.target))
    PROVE  JobFits(j)
  BY JobReads DEF JobFits

\* A request that goes on to label.
LEMMA GotoFits ==
    ASSUME BaseInv, NEW t \in Threads, job[t] # Idle, NEW label \in Labels \ {"password"},
           label = "failure" \/ job[t].pc \notin {"password", "failure"}
    PROVE  JobFits([job[t] EXCEPT !.pc = label])
  <1> DEFINE j == [job[t] EXCEPT !.pc = label]
  <1>1. job[t] \in JobType
    BY JobReads
  <1>2. j \in JobType /\ j.user = job[t].user /\ j.began = job[t].began /\ j.target = job[t].target /\ j.pc = label
    BY <1>1 DEF JobType
  <1> HIDE DEF j
  <1>3. JobFits(j)
    BY <1>2, JobReads, NextPointFits
  <1>4. QED
    BY <1>3 DEF j

\* A new request of an account, its session's or a login.
LEMMA NewJobFits ==
    ASSUME BaseInv, NEW u \in Users, NEW op \in Ops \cup {"login"}, NEW token \in Nat, NEW role \in Roles \cup {"none"},
           NEW label \in {"password", "account"}, label = "account" => Exists(u),
           NEW began \in Nat, began <= changes[u]
    PROVE  JobFits([NewJob(label, op, u, token) EXCEPT !.role = role, !.began = began])
  <1> DEFINE j == [NewJob(label, op, u, token) EXCEPT !.role = role, !.began = began]
  <1>1. /\ j \in JobType /\ j.pc = label /\ j.user = u /\ j.target = u /\ j.began = began
    BY DEF NewJob, JobType, Labels
  <1> HIDE DEF j
  <1>2. JobFits(j)
    BY <1>1 DEF JobFits
  <1>3. QED
    BY <1>2 DEF j

\* Every step of a thread leaves it with a request that fits.
LEMMA ThreadJob ==
    ASSUME BaseInv, NEW t \in Threads, Thread(t)
    PROVE  \E j : JobFits(j) /\ job' = [job EXCEPT ![t] = j]
  <1>t. job \in [Threads -> JobType \cup {Idle}] /\ JobFits(job[t]) /\ StoreOK
    BY DEF BaseInv, RequestsOK
  <1>i. JobFits(Idle)
    BY DEF JobFits
  <1>b. \A label \in Labels : At(t, label) => job[t] # Idle
    BY Busy
  <1>u. UNCHANGED job => \E j : JobFits(j) /\ job' = [job EXCEPT ![t] = j]
    <2>1. job = [job EXCEPT ![t] = job[t]]
      BY <1>t
    <2>2. QED
      BY <1>t, <2>1
  <1>f. Finish(t) => \E j : JobFits(j) /\ job' = [job EXCEPT ![t] = j]
    BY <1>i DEF Finish, Set
  <1>g. ASSUME NEW label \in Labels \ {"password"}, Goto(t, label), job[t] # Idle,
               label = "failure" \/ job[t].pc \notin {"password", "failure"}
        PROVE  \E j : JobFits(j) /\ job' = [job EXCEPT ![t] = j]
    BY <1>g, GotoFits DEF Goto, Set
  <1>r. ASSUME Rejected(t), job[t] # Idle
        PROVE  \E j : JobFits(j) /\ job' = [job EXCEPT ![t] = j]
    BY <1>r, <1>f, <1>g DEF Rejected, Labels
  <1>1. ASSUME NEW u \in Users, Login(t, u) PROVE \E j : JobFits(j) /\ job' = [job EXCEPT ![t] = j]
    <2> DEFINE j == NewJob("password", "login", u, requests')
    <2>1. requests' \in Nat /\ changes[u] \in Nat
      BY <1>1, <1>t DEF Login, BaseInv, CountersOK, StoreOK
    <2>2. j \in JobType /\ j.pc = "password" /\ j.user = u /\ j.target = u /\ j.began = 0
      BY <2>1 DEF NewJob, JobType, Labels
    <2>3. JobFits(j)
      <3> HIDE DEF j
      <3>1. QED
        BY <2>1, <2>2 DEF JobFits
    <2>4. UNCHANGED job \/ job' = [job EXCEPT ![t] = j]
      BY <1>1 DEF Login, Set
    <2> HIDE DEF j
    <2>5. QED
      BY <2>3, <2>4, <1>u
  <1>2. CASE Password(t)
    <2>0. job[t] # Idle /\ job[t].pc = "password"
      BY <1>2, <1>b DEF Password, At, Labels
    <2>1. CASE /\ Exists(User(t)) /\ ~row[User(t)].disabled
               /\ Set(t, [job[t] EXCEPT !.pc = "success", !.role = row[User(t)].role])
      <3> DEFINE j == [job[t] EXCEPT !.pc = "success", !.role = row[User(t)].role]
      <3>1. job[t] \in JobType /\ job[t].user \in Users /\ job[t].target = job[t].user
        BY <2>0, <1>t, JobReads DEF JobFits
      <3>2. row[User(t)].role \in Roles
        BY <2>1, <3>1, <1>t, RowOfAccount DEF User, RowType
      <3>3. /\ j \in JobType /\ j.pc = "success" /\ j.user = job[t].user /\ j.began = job[t].began
            /\ j.target = job[t].target
        BY <3>1, <3>2 DEF JobType, Labels
      <3>4. job' = [job EXCEPT ![t] = j]
        BY <2>1 DEF Set
      <3> HIDE DEF j
      <3>5. JobFits(j)
        BY <2>0, <2>1, <3>1, <3>3, NextPointFits DEF User
      <3>6. QED
        BY <3>4, <3>5
    <2>2. CASE Goto(t, "failure")
      BY <2>0, <2>2, <1>g DEF Labels
    <2>3. QED
      BY <1>2, <2>1, <2>2 DEF Password
  <1>3. CASE RecordFailure(t) \/ CreateSession(t) \/ Revoke(t) \/ Refuse(t) \/ Serve(t) \/ EnableTotp(t)
    BY <1>3, <1>f DEF RecordFailure, CreateSession, Revoke, Refuse, Serve, EnableTotp
  <1>4. CASE RecordSuccess(t)
    BY <1>4, <1>b, <1>g DEF RecordSuccess, At, Labels
  <1>5. CASE TotpEnabled(t)
    BY <1>5, <1>b, <1>g DEF TotpEnabled, At, Labels
  <1>6. CASE TotpMatch(t)
    <2>0. job[t] # Idle /\ job[t].pc = "totp"
      BY <1>6, <1>b DEF TotpMatch, At, Labels
    <2>1. CASE Rejected(t)
      BY <2>0, <2>1, <1>r
    <2>2. CASE \E step \in {clock - 1, clock, clock + 1} :
                  /\ row[job[t].target].secret # 0
                  /\ Set(t, [job[t] EXCEPT !.pc = "commit", !.step = step, !.last = row[job[t].target].last])
      <3>1. PICK step \in {clock - 1, clock, clock + 1} :
                  Set(t, [job[t] EXCEPT !.pc = "commit", !.step = step, !.last = row[job[t].target].last])
        BY <2>2
      <3>2. step \in Nat
        BY DEF BaseInv, CountersOK
      <3>3. job[t] \in JobType /\ job[t].target \in Users /\ Exists(job[t].target) /\ Exists(job[t].user)
        BY <2>0, JobReads
      <3>4. row[job[t].target].last \in Nat
        BY <3>3, <1>t, RowOfAccount DEF RowType
      <3> DEFINE j == [job[t] EXCEPT !.pc = "commit", !.step = step, !.last = row[job[t].target].last]
      <3>5. /\ j \in JobType /\ j.pc = "commit" /\ j.user = job[t].user /\ j.began = job[t].began
            /\ j.target = job[t].target
        BY <3>2, <3>3, <3>4 DEF JobType, Labels
      <3>6. job' = [job EXCEPT ![t] = j]
        BY <3>1 DEF Set
      <3> HIDE DEF j
      <3>7. QED
        BY <2>0, <3>3, <3>5, <3>6, NextPointFits
    <2>3. QED
      BY <1>6, <2>1, <2>2 DEF TotpMatch
  <1>7. CASE TotpCommit(t)
    <2>0. job[t] # Idle /\ job[t].pc = "commit"
      BY <1>7, <1>b DEF TotpCommit, At, Labels
    <2>1. Rejected(t) \/ Goto(t, "create") \/ Finish(t)
      BY <1>7 DEF TotpCommit, Accept
    <2>2. QED
      BY <2>0, <2>1, <1>f, <1>g, <1>r DEF Labels
  <1>8. ASSUME NEW token \in DOMAIN sessions, NEW op \in Ops, Request(t, token, op)
        PROVE  \E j : JobFits(j) /\ job' = [job EXCEPT ![t] = j]
    <2> DEFINE s == sessions[token]
    <2>1. s.user \in Users /\ Exists(s.user) /\ s.role \in Roles \cup {"none"}
      BY DEF BaseInv, RequestsOK, SessionFits
    <2>2. token \in Nat /\ changes[s.user] \in Nat /\ changes[s.user] <= changes[s.user]
      BY <2>1 DEF BaseInv, CountersOK, StoreOK
    <2>3. JobFits([NewJob("account", op, s.user, token) EXCEPT !.role = s.role, !.began = changes[s.user]])
      BY <2>1, <2>2, NewJobFits
    <2>4. QED
      BY <1>8, <2>3 DEF Request, Set
  <1>9. CASE CheckAccount(t)
    BY <1>9, <1>b, <1>g DEF CheckAccount, At, Labels
  <1>10. ASSUME NEW u \in Users, (\E role \in Roles : CreateUser(t, u, role))
                 \/ \E role \in Roles, disabled \in BOOLEAN : UpdateUser(t, u, role, disabled)
         PROVE  \E j : JobFits(j) /\ job' = [job EXCEPT ![t] = j]
    BY <1>10, <1>f DEF CreateUser, UpdateUser
  <1>11. ASSUME NEW u \in Users, MfaReauth(t, u)
         PROVE  \E j : JobFits(j) /\ job' = [job EXCEPT ![t] = j]
    <2> DEFINE label == IF job[t].op = "mfa_enable" THEN "enrol" ELSE "totp"
               j == [job[t] EXCEPT !.pc = label, !.target = u]
    <2>0. job[t] # Idle /\ job[t].pc = "act"
      BY <1>11, <1>b DEF MfaReauth, At, Labels
    <2>1. CASE Finish(t)
      BY <2>1, <1>f
    <2>2. CASE (u = User(t) \/ Exists(u)) /\ Set(t, j)
      <3>1. job[t] \in JobType /\ Exists(job[t].user) /\ Exists(u)
        BY <2>0, <2>2, JobReads DEF User
      <3>2. label \in {"enrol", "totp"}
        OBVIOUS
      <3>3. j \in JobType /\ j.pc \in {"enrol", "totp"} /\ j.user = job[t].user /\ j.began = job[t].began /\ j.target = u
        BY <3>1, <3>2 DEF JobType, Labels
      <3>4. job' = [job EXCEPT ![t] = j]
        BY <2>2 DEF Set
      <3> HIDE DEF j
      <3>5. QED
        BY <2>0, <3>1, <3>3, <3>4, NextPointFits
    <2>3. QED
      BY <1>11, <2>1, <2>2 DEF MfaReauth
  <1>12. CASE \E token \in DOMAIN sessions : Logout(t, token)
    BY <1>12, <1>u DEF Logout
  <1>13. QED
    BY <1>1, <1>2, <1>3, <1>4, <1>5, <1>6, <1>7, <1>8, <1>9, <1>10, <1>11, <1>12 DEF Thread

\* A session is created for an account that exists, and dropping one leaves the others.
LEMMA ThreadSessions ==
    ASSUME BaseInv, NEW t \in Threads, Thread(t)
    PROVE  /\ \A token \in DOMAIN sessions' : SessionFits(sessions'[token])
           /\ DOMAIN sessions' \subseteq Nat
  <1>s. /\ \A token \in DOMAIN sessions : SessionFits(sessions[token])
        /\ DOMAIN sessions \subseteq Nat
    BY DEF BaseInv, RequestsOK, CountersOK
  <1>1. CASE CreateSession(t)
    <2>1. /\ job[t] \in JobType /\ Exists(job[t].user)
      BY <1>1, Busy, JobReads DEF CreateSession, At, Labels
    <2>2. /\ job[t].token \in Nat /\ job[t].user \in Users /\ job[t].role \in Roles \cup {"none"}
      BY <2>1 DEF JobType
    <2>3. sessions' = [i \in DOMAIN sessions \cup {job[t].token} |->
                          IF i = job[t].token THEN [user |-> job[t].user, role |-> job[t].role] ELSE sessions[i]]
      BY <1>1 DEF CreateSession, User
    <2>4. SessionFits([user |-> job[t].user, role |-> job[t].role])
      BY <2>1, <2>2 DEF SessionFits
    <2>5. QED
      BY <1>s, <2>2, <2>3, <2>4
  <1>2. CASE \E token : sessions' = Drop(sessions, token)
    BY <1>2, <1>s DEF Drop
  <1>3. CASE UNCHANGED sessions
    BY <1>3, <1>s
  <1>4. QED
    BY <1>1, <1>2, <1>3 DEF Thread, Login, Password, RecordFailure, RecordSuccess, TotpEnabled, TotpMatch,
       TotpCommit, Request, CheckAccount, Revoke, Refuse, Serve, CreateUser, UpdateUser, MfaReauth, EnableTotp,
       Logout

\* A thread accepts a step only as it commits a TOTP code.
LEMMA OnlyCommitAccepts ==
    ASSUME NEW t \in Threads, Thread(t)
    PROVE  /\ UNCHANGED clock
           /\ requests' \in {requests, requests + 1}
           /\ UNCHANGED steps \/ TotpCommit(t)
  BY DEF Thread, Login, Password, RecordFailure, RecordSuccess, TotpEnabled, TotpMatch, TotpCommit, CreateSession,
     Request, CheckAccount, Revoke, Refuse, Serve, CreateUser, UpdateUser, MfaReauth, EnableTotp, Logout,
     historyVars

\* Every step of a thread keeps the base of the invariant.
LEMMA ThreadBase ==
    ASSUME BaseInv, NEW t \in Threads, Thread(t)
    PROVE  BaseInv'
  <1>1. StoreGrows
    BY ThreadStore
  <1>2. RequestsOK'
    <2>1. PICK j : JobFits(j) /\ job' = [job EXCEPT ![t] = j]
      BY ThreadJob
    <2>2. QED
      BY <1>1, <2>1, ThreadSessions, RequestsKept
  <1>3. CountersOK'
    <2>1. clock' \in Nat \ {0} /\ requests' \in Nat /\ DOMAIN sessions' \subseteq Nat
      BY OnlyCommitAccepts, ThreadSessions DEF BaseInv, CountersOK
    <2>2. steps' \in [Users -> Seq(Nat)]
      <3>1. CASE UNCHANGED steps
        BY <3>1 DEF BaseInv, CountersOK
      <3>2. CASE TotpCommit(t)
        <4>1. job[t].target \in Users /\ job[t].step \in Nat
          BY <3>2, Busy, JobReads DEF TotpCommit, At, Labels
        <4>2. \/ UNCHANGED steps
              \/ steps' = [steps EXCEPT ![job[t].target] = Append(@, job[t].step)]
          BY <3>2 DEF TotpCommit, Accept
        <4>3. Append(steps[job[t].target], job[t].step) \in Seq(Nat)
          BY <4>1 DEF BaseInv, CountersOK
        <4>4. steps \in [Users -> Seq(Nat)]
          BY DEF BaseInv, CountersOK
        <4>5. QED
          BY <4>1, <4>2, <4>3, <4>4
      <3>3. QED
        BY <3>1, <3>2, OnlyCommitAccepts
    <2>3. QED
      BY <2>1, <2>2 DEF CountersOK
  <1>4. QED
    BY <1>1, <1>2, <1>3 DEF BaseInv, StoreGrows

\* The clock and the expiry of a session keep it too.
LEMMA ClockBase ==
    ASSUME BaseInv, Tick \/ \E token \in DOMAIN sessions : Expire(token)
    PROVE  BaseInv' /\ UNCHANGED <<row, job, changes, steps>>
  <1>1. UNCHANGED <<row, job, changes, steps, requests>> /\ (clock' = clock \/ clock' = clock + 1)
    BY DEF Tick, Expire, historyVars
  <1>2. UNCHANGED sessions \/ \E token : sessions' = Drop(sessions, token)
    BY DEF Tick, Expire
  <1>3. \A token \in DOMAIN sessions' : token \in DOMAIN sessions /\ sessions'[token] = sessions[token]
    BY <1>2 DEF Drop
  <1>4. StoreOK' /\ CountersOK'
    BY <1>1, <1>3 DEF BaseInv, StoreOK, CountersOK
  <1>5. \A t \in Threads : JobFits(job[t])'
    BY <1>1 DEF BaseInv, RequestsOK, JobFits, Exists
  <1>6. \A token \in DOMAIN sessions' : SessionFits(sessions[token])'
    BY <1>1, <1>3 DEF BaseInv, RequestsOK, SessionFits, Exists
  <1>7. QED
    BY <1>1, <1>4, <1>5, <1>6 DEF BaseInv, RequestsOK

\* It holds on the store ensure_first_boot_admin leaves.
LEMMA InitAccess == Init => AccessInv
  <1> SUFFICES ASSUME Init PROVE AccessInv
    OBVIOUS
  <1>1. Account("admin") \in RowType /\ Account("admin").role = "admin" /\ Account("admin").disabled = FALSE
    BY DEF Account, RowType, Roles
  <1>2. StoreOK
    <2>1. \A u \in Users : row[u] \in RowType \cup {NoRow}
      BY <1>1 DEF Init
    <2>2. QED
      BY <2>1 DEF Init, StoreOK
  <1>3. CountersOK
    BY DEF Init, CountersOK
  <1>4. RequestsOK
    BY DEF Init, RequestsOK, JobFits
  <1>5. AdminRemains
    <2>1. row[FirstAdmin] = Account("admin") /\ FirstAdmin \in Users
      BY AccessAssumption DEF Init
    <2>2. FirstAdmin \in ActiveAdmins
      BY <1>1, <2>1, RowExists DEF ActiveAdmins, Exists
    <2>3. QED
      BY <2>2 DEF AdminRemains
  <1>6. NoStaleAuthority
    BY DEF Init, NoStaleAuthority, At, Idle
  <1>7. StepsSeen /\ StepAcceptedOnce
    BY DEF Init, StepsSeen, StepAcceptedOnce
  <1>8. QED
    BY <1>2, <1>3, <1>4, <1>5, <1>6, <1>7 DEF AccessInv, BaseInv

-----------------------------------------------------------------------------
(* An active admin remains.                                                *)

\* An active admin whose authority is not written stays one.
LEMMA AdminStays ==
    ASSUME StoreOK, StoreGrows, NEW v \in ActiveAdmins, changes'[v] = changes[v]
    PROVE  v \in ActiveAdmins'
  <1>1. v \in Users /\ Exists(v) /\ row[v].role = "admin" /\ ~row[v].disabled
    BY DEF ActiveAdmins
  <1>2. Exists(v)' /\ row'[v].role = row[v].role /\ row'[v].disabled = row[v].disabled
    BY <1>1 DEF StoreGrows
  <1>3. QED
    BY <1>1, <1>2 DEF ActiveAdmins

\* update_user_guarded refuses the change that would leave nobody, and creating
\* an account touches no other.
LEMMA ThreadAdmin ==
    ASSUME BaseInv, AdminRemains, NEW t \in Threads, Thread(t)
    PROVE  AdminRemains'
  <1>g. StoreGrows /\ StoreOK
    BY ThreadStore DEF BaseInv
  <1>a. PICK v \in ActiveAdmins : v \in Users /\ Exists(v)
    BY DEF AdminRemains, ActiveAdmins
  <1>1. CASE UNCHANGED changes
    BY <1>1, <1>g, <1>a, AdminStays DEF AdminRemains
  <1>2. ASSUME NEW u \in Users, NEW role \in Roles, CreateUser(t, u, role) PROVE AdminRemains'
    <2>1. CASE Exists(u)
      BY <1>1, <1>2, <2>1 DEF CreateUser
    <2>2. CASE ~Exists(u)
      <3>1. v # u /\ changes' = [changes EXCEPT ![u] = @ + 1]
        BY <1>2, <1>a, <2>2 DEF CreateUser
      <3>2. changes'[v] = changes[v]
        BY <3>1, <1>a, <1>g DEF StoreOK
      <3>3. QED
        BY <3>2, <1>a, <1>g, AdminStays DEF AdminRemains
    <2>3. QED
      BY <2>1, <2>2
  <1>3. ASSUME NEW u \in Users, NEW role \in Roles, NEW disabled \in BOOLEAN, UpdateUser(t, u, role, disabled)
        PROVE  AdminRemains'
    <2>1. CASE Exists(u) /\ ~LastAdmin(u, role, disabled)
      <3>1. /\ row' = [row EXCEPT ![u].role = role, ![u].disabled = disabled]
            /\ changes' = [changes EXCEPT ![u] = @ + 1]
        BY <1>3, <2>1 DEF UpdateUser
      <3>2. \A w \in Users \ {u} : changes'[w] = changes[w]
        BY <3>1, <1>g DEF StoreOK
      <3>3. CASE \E w \in ActiveAdmins : w # u
        BY <3>2, <3>3, <1>g, AdminStays DEF AdminRemains, ActiveAdmins
      <3>4. CASE \A w \in ActiveAdmins : w = u
        <4>1. ActiveAdmins = {u}
          BY <1>a, <3>4
        <4>2. Cardinality(ActiveAdmins) <= 1 /\ u \in ActiveAdmins
          <5>1. Cardinality({u}) = 1
            BY FS_Singleton
          <5>2. QED
            BY <4>1, <5>1
        <4>3. role = "admin" /\ ~disabled
          BY <2>1, <4>2 DEF LastAdmin
        <4>4. row[u] \in RowType
          BY <2>1, <1>g, RowOfAccount
        <4>5. row'[u] = [row[u] EXCEPT !.role = role, !.disabled = disabled]
          BY <3>1, <1>g, <4>4 DEF StoreOK, RowType
        <4>6. row'[u].role = "admin" /\ ~row'[u].disabled
          BY <4>3, <4>4, <4>5 DEF RowType
        <4>7. Exists(u)'
          BY <2>1, <1>g DEF StoreGrows
        <4>8. u \in ActiveAdmins'
          BY <4>6, <4>7 DEF ActiveAdmins
        <4>9. QED
          BY <4>8 DEF AdminRemains
      <3>5. QED
        BY <3>3, <3>4
    <2>2. CASE ~(Exists(u) /\ ~LastAdmin(u, role, disabled))
      BY <1>1, <1>3, <2>2 DEF UpdateUser
    <2>3. QED
      BY <2>1, <2>2
  <1>4. QED
    BY <1>1, <1>2, <1>3 DEF Thread, Login, Password, RecordFailure, RecordSuccess, TotpEnabled, TotpMatch, TotpCommit,
       CreateSession, Request, CheckAccount, Revoke, Refuse, Serve, MfaReauth, EnableTotp, Logout, historyVars

-----------------------------------------------------------------------------
(* No request acts on a withdrawn authority.                               *)

\* Only the check of the account lets a request act.
LEMMA OnlyCheckActs ==
    ASSUME BaseInv, NEW t \in Threads, Thread(t), At(t, "act")'
    PROVE  UNCHANGED job \/ CheckAccount(t)
  <1>t. job \in [Threads -> JobType \cup {Idle}]
    BY DEF BaseInv, RequestsOK
  <1>1. \A j : Set(t, j) => job'[t] = j
    BY <1>t DEF Set
  <1>2. ~Finish(t)
    BY <1>1 DEF Finish, At, Idle
  <1>3. ASSUME NEW label \in Labels \ {"act"}, job[t] # Idle PROVE ~Goto(t, label)
    <2>1. job[t] \in JobType
      BY <1>3, JobReads
    <2>2. [job[t] EXCEPT !.pc = label].pc = label
      BY <2>1 DEF JobType
    <2>3. QED
      BY <1>1, <2>2 DEF Goto, At
  <1>4. job[t] # Idle => ~Rejected(t)
    BY <1>2, <1>3 DEF Rejected, Labels
  <1>b. \A label \in Labels : At(t, label) => job[t] # Idle
    BY Busy
  <1>5. ASSUME NEW u \in Users PROVE ~Set(t, NewJob("password", "login", u, requests'))
    BY <1>1 DEF NewJob, At
  <1>6. ASSUME NEW token, NEW op PROVE ~Request(t, token, op)
    BY <1>1 DEF Request, NewJob, At
  <1>7. ~Password(t)
    <2> SUFFICES ASSUME Password(t) PROVE FALSE
      OBVIOUS
    <2>1. job[t] # Idle /\ job[t] \in JobType
      BY <1>b, JobReads DEF Password, Labels
    <2>2. \A role : [job[t] EXCEPT !.pc = "success", !.role = role].pc = "success"
      BY <2>1 DEF JobType
    <2>3. QED
      BY <1>1, <1>3, <2>1, <2>2 DEF Password, At, Labels
  <1>8. ~TotpMatch(t)
    <2> SUFFICES ASSUME TotpMatch(t) PROVE FALSE
      OBVIOUS
    <2>1. job[t] # Idle /\ job[t] \in JobType
      BY <1>b, JobReads DEF TotpMatch, Labels
    <2>2. \A step, last : [job[t] EXCEPT !.pc = "commit", !.step = step, !.last = last].pc = "commit"
      BY <2>1 DEF JobType
    <2>3. PICK step, last : Set(t, [job[t] EXCEPT !.pc = "commit", !.step = step, !.last = last])
      BY <1>4, <2>1 DEF TotpMatch
    <2>4. job'[t].pc = "commit"
      BY <1>1, <2>2, <2>3
    <2>5. QED
      BY <1>1, <2>4 DEF At
  <1>9. ASSUME NEW u \in Users PROVE ~MfaReauth(t, u)
    <2> SUFFICES ASSUME MfaReauth(t, u) PROVE FALSE
      OBVIOUS
    <2>1. job[t] # Idle /\ job[t] \in JobType
      BY <1>b, JobReads DEF MfaReauth, Labels
    <2>2. \A label : [job[t] EXCEPT !.pc = label, !.target = u].pc = label
      BY <2>1 DEF JobType
    <2>3. QED
      BY <1>1, <1>2, <2>2 DEF MfaReauth, At
  <1>10. ~TotpCommit(t)
    BY <1>2, <1>3, <1>4, <1>b DEF TotpCommit, Accept, Labels
  <1>11. ~RecordSuccess(t) /\ ~TotpEnabled(t)
    BY <1>3, <1>b DEF RecordSuccess, TotpEnabled, Labels
  <1>12. QED
    BY <1>2, <1>5, <1>6, <1>7, <1>8, <1>9, <1>10, <1>11 DEF Thread, Login, RecordFailure, CreateSession, Revoke,
       Refuse, Serve, CreateUser, UpdateUser, EnableTotp, Logout

\* A request that may act saw its account as it is, or the account has changed since.
LEMMA ThreadAuthority ==
    ASSUME BaseInv, NoStaleAuthority, NEW t \in Threads, Thread(t)
    PROVE  NoStaleAuthority'
  <1>g. StoreGrows /\ StoreOK
    BY ThreadStore DEF BaseInv
  <1>j. PICK j : job' = [job EXCEPT ![t] = j]
    BY ThreadJob
  <1>t. job \in [Threads -> JobType \cup {Idle}]
    BY DEF BaseInv, RequestsOK
  <1>k. ASSUME NEW s \in Threads, job'[s] = job[s], At(s, "act"), job[s].began = changes'[job[s].user]
        PROVE  row'[job[s].user].role = job[s].role /\ ~row'[job[s].user].disabled
    <2> DEFINE u == job[s].user
    <2>1. u \in Users /\ Exists(u) /\ job[s].began <= changes[u] /\ job[s].began \in Nat
      BY <1>k, Busy, JobReads DEF At, Labels, JobType
    <2>2. changes[u] \in Nat /\ changes'[u] \in Nat /\ changes[u] <= changes'[u]
      BY <2>1, <1>g DEF StoreGrows, StoreOK
    <2>3. changes'[u] = changes[u]
      BY <1>k, <2>1, <2>2
    <2>4. row'[u].role = row[u].role /\ row'[u].disabled = row[u].disabled
      BY <2>1, <2>3, <1>g DEF StoreGrows
    <2>5. row[u].role = job[s].role /\ ~row[u].disabled
      BY <1>k, <2>3 DEF NoStaleAuthority, User
    <2>6. QED
      BY <2>4, <2>5
  <1> SUFFICES ASSUME NEW s \in Threads, At(s, "act")', job'[s].began = changes'[job'[s].user]
               PROVE  row'[job'[s].user].role = job'[s].role /\ ~row'[job'[s].user].disabled
    BY DEF NoStaleAuthority, User
  <1>1. CASE job'[s] = job[s]
    BY <1>1, <1>k DEF At
  <1>2. CASE job'[s] # job[s]
    <2>1. s = t /\ CheckAccount(t)
      BY <1>2, <1>j, <1>t, OnlyCheckActs
    <2>2. job[t] \in JobType
      BY <2>1, Busy, JobReads DEF CheckAccount, Labels
    <2>3. PICK label : job'[t] = [job[t] EXCEPT !.pc = label]
                       /\ (label = "act" => ~(row[User(t)].disabled \/ row[User(t)].role # job[t].role))
      BY <2>1, <1>t DEF CheckAccount, Goto, Set
    <2>4. /\ job'[t].pc = label /\ job'[t].user = job[t].user /\ job'[t].role = job[t].role
      BY <2>2, <2>3 DEF JobType
    <2>5. UNCHANGED row /\ label = "act"
      BY <2>1, <2>4 DEF CheckAccount, At
    <2>6. QED
      BY <2>1, <2>3, <2>4, <2>5 DEF User
  <1>3. QED
    BY <1>1, <1>2

-----------------------------------------------------------------------------
(* A time step is accepted once.                                           *)

\* The steps accepted so far lie below the row's last one, and an accepted step above.
LEMMA ThreadSteps ==
    ASSUME BaseInv, StepsSeen, StepAcceptedOnce, NEW t \in Threads, Thread(t)
    PROVE  StepsSeen' /\ StepAcceptedOnce'
  <1>g. StoreGrows /\ StoreOK /\ StoreOK'
    BY ThreadStore DEF BaseInv, StoreGrows
  <1>s. steps \in [Users -> Seq(Nat)]
    BY DEF BaseInv, CountersOK
  <1>k. ASSUME NEW u \in Users, NEW i \in DOMAIN steps[u]
        PROVE  Exists(u)' /\ steps[u][i] <= row'[u].last /\ steps[u][i] \in Nat
    <2>1. Exists(u) /\ steps[u][i] <= row[u].last /\ steps[u][i] \in Nat
      BY <1>s DEF StepsSeen
    <2>2. Exists(u)' /\ row[u].last <= row'[u].last
      BY <2>1, <1>g DEF StoreGrows
    <2>3. row[u].last \in Nat
      BY <2>1, <1>g, RowOfAccount DEF RowType
    <2>4. row'[u].last \in Nat
      BY <2>2, <1>g DEF StoreOK, Exists, RowType
    <2>5. QED
      BY <2>1, <2>2, <2>3, <2>4
  <1>1. CASE UNCHANGED steps
    BY <1>1, <1>k DEF StepsSeen, StepAcceptedOnce
  <1>2. CASE ~UNCHANGED steps
    <2>0. TotpCommit(t) /\ At(t, "commit")
      BY <1>2, OnlyCommitAccepts DEF TotpCommit
    <2> PICK u \in Users, x \in Nat : u = job[t].target /\ x = job[t].step /\ Exists(u)
      BY <2>0, Busy, JobReads DEF At, Labels
    <2>1. /\ UNCHANGED changes
          /\ ~(x <= row[u].last) /\ Accept(t, u)
          /\ steps' = [steps EXCEPT ![u] = Append(@, x)]
      BY <1>2, <2>0 DEF TotpCommit, Accept
    <2>2. u \in Users /\ x \in Nat /\ Exists(u)
      OBVIOUS
    <2>3. row'[u].last = x /\ row[u].last < x /\ Exists(u)'
      <3>1. row'[u].last = x /\ row[u].last < x
        BY <2>0, <2>1, AcceptStore
      <3>2. QED
        BY <3>1, <2>2, <1>g DEF StoreGrows
    <2>4. row[u].last \in Nat
      BY <2>2, <1>g, RowOfAccount DEF RowType
    <2>5. /\ \A v \in Users \ {u} : steps'[v] = steps[v]
          /\ steps'[u] = Append(steps[u], x)
          /\ steps[u] \in Seq(Nat)
      BY <2>1, <2>2, <1>s
    <2>6. /\ DOMAIN steps'[u] = 1 .. (Len(steps[u]) + 1) /\ Len(steps[u]) \in Nat
          /\ DOMAIN steps[u] = 1 .. Len(steps[u])
          /\ \A i \in 1 .. Len(steps[u]) : steps'[u][i] = steps[u][i] /\ steps[u][i] \in Nat
          /\ steps'[u][Len(steps[u]) + 1] = x
      <3>1. /\ DOMAIN steps[u] = 1 .. Len(steps[u]) /\ Len(steps[u]) \in Nat
            /\ \A i \in 1 .. Len(steps[u]) : steps[u][i] \in Nat
        BY <2>5
      <3>2. /\ DOMAIN Append(steps[u], x) = 1 .. (Len(steps[u]) + 1)
            /\ \A i \in 1 .. Len(steps[u]) : Append(steps[u], x)[i] = steps[u][i]
            /\ Append(steps[u], x)[Len(steps[u]) + 1] = x
        BY <2>2, <2>5
      <3>3. QED
        BY <3>1, <3>2, <2>5
    <2>7. \A i \in 1 .. Len(steps[u]) : steps[u][i] < x
      <3> TAKE i \in 1 .. Len(steps[u])
      <3>1. steps[u][i] <= row[u].last /\ steps[u][i] \in Nat
        BY <2>2, <2>6 DEF StepsSeen
      <3>2. QED
        BY <2>2, <2>3, <2>4, <3>1
    <2>8. StepsSeen'
      <3> SUFFICES ASSUME NEW v \in Users, NEW i \in DOMAIN steps'[v]
                   PROVE  Exists(v)' /\ steps'[v][i] <= row'[v].last
        BY DEF StepsSeen
      <3>1. CASE v # u
        BY <3>1, <1>k, <2>5
      <3>2. CASE v = u
        <4>1. steps'[u][i] <= x
          <5>1. i = Len(steps[u]) + 1 \/ i \in 1 .. Len(steps[u])
            BY <3>2, <2>6
          <5>2. QED
            BY <5>1, <2>2, <2>6, <2>7
        <4>2. QED
          BY <3>2, <4>1, <2>3 DEF Exists
      <3>3. QED
        BY <3>1, <3>2
    <2>9. StepAcceptedOnce'
      <3> SUFFICES ASSUME NEW v \in Users, NEW i \in DOMAIN steps'[v], NEW k \in DOMAIN steps'[v], i < k
                   PROVE  steps'[v][i] < steps'[v][k]
        BY DEF StepAcceptedOnce
      <3>1. CASE v # u
        BY <3>1, <2>5 DEF StepAcceptedOnce
      <3>2. CASE v = u
        <4>1. i \in 1 .. Len(steps[u]) /\ (k \in 1 .. Len(steps[u]) \/ k = Len(steps[u]) + 1)
          BY <3>2, <2>6
        <4>2. CASE k \in 1 .. Len(steps[u])
          BY <4>1, <4>2, <3>2, <2>2, <2>6 DEF StepAcceptedOnce
        <4>3. CASE k = Len(steps[u]) + 1
          BY <4>1, <4>3, <3>2, <2>6, <2>7
        <4>4. QED
          BY <4>1, <4>2, <4>3
      <3>3. QED
        BY <3>1, <3>2
    <2>10. QED
      BY <2>8, <2>9
  <1>3. QED
    BY <1>1, <1>2

-----------------------------------------------------------------------------
(***************************************************************************)
(* Wrong passwords are bounded.  Every login has a number of its own.  A   *)
(* recent wrong password belongs to a login that is about to record its    *)
(* failure, or to one whose failure is recorded and is as recent; these,   *)
(* together with the logins under way, are in play.  is_locked_out lets a  *)
(* login in only while fewer than max_attempts recorded failures are, and  *)
(* nothing else adds to them.                                              *)
(***************************************************************************)
LoginPoints == {"password", "failure", "success", "mfa", "create"}
FailureType == [at : Nat, by : Nat]

\* j is a login under way.
Attempt(j) == j # Idle /\ j.op = "login"

GuessTypes ==
    /\ attempts \in [Users -> SUBSET FailureType]
    /\ guesses \in [Users -> SUBSET FailureType]
    /\ \A u \in Users : IsFiniteSet(attempts[u])
    /\ \A u \in Users : \A x \in guesses[u] : x.at <= clock /\ x.by <= requests

\* A login's number is its own.
LoginsOK ==
    /\ \A t \in Threads : Attempt(job[t]) => job[t].token <= requests
    /\ \A t \in Threads : job[t].pc \in LoginPoints => Attempt(job[t])
    /\ \A s, t \in Threads : Attempt(job[s]) /\ Attempt(job[t]) /\ job[s].token = job[t].token => s = t

\* It guesses once.
OneGuess ==
    /\ \A u \in Users : \A x, y \in guesses[u] : x.by = y.by => x = y
    /\ \A t \in Threads, u \in Users : At(t, "password") => \A x \in guesses[u] : x.by # job[t].token

\* The failure of guess x of account u is recorded, or about to be.
Recorded(u, x) == \E y \in attempts[u] : y.by = x.by /\ x.at <= y.at
Pending(u, x) == \E t \in Threads : At(t, "failure") /\ job[t].user = u /\ job[t].token = x.by
GuessesCarried ==
    \A u \in Users : \A x \in guesses[u] : x.at + Window > clock => Recorded(u, x) \/ Pending(u, x)

LoginThreads(u) == {t \in Threads : Attempt(job[t]) /\ job[t].user = u}
FailedTokens(u) == {y.by : y \in Recent(attempts[u])}
LoginTokens(u) == {job[t].token : t \in LoginThreads(u)}
InPlay(u) == FailedTokens(u) \cup LoginTokens(u)

Most == MaxAttempts + Cardinality(Threads) - 1
PlayBounded == \A u \in Users : IsFiniteSet(InPlay(u)) /\ Cardinality(InPlay(u)) <= Most

GuessInv == GuessTypes /\ LoginsOK /\ OneGuess /\ GuessesCarried /\ PlayBounded

LEMMA ThreadsFinite ==
    /\ IsFiniteSet(Threads) /\ Cardinality(Threads) \in Nat
    /\ MaxAttempts \in Nat \ {0} /\ Window \in Nat \ {0} /\ Most \in Nat
  <1>1. IsFiniteSet(Threads) /\ MaxAttempts \in Nat \ {0} /\ Window \in Nat \ {0}
    BY AccessAssumption
  <1>2. Cardinality(Threads) \in Nat
    BY <1>1, FS_CardinalityType
  <1> QED
    BY <1>1, <1>2 DEF Most

\* An image is no larger.
LEMMA ImageBound ==
    ASSUME NEW S, IsFiniteSet(S), NEW f, DOMAIN f = S
    PROVE  /\ IsFiniteSet({f[x] : x \in S})
           /\ Cardinality({f[x] : x \in S}) <= Cardinality(S)
  <1> DEFINE g == [x \in S |-> f[x]]
             T == {f[x] : x \in S}
  <1>1. g \in Surjection(S, T)
    BY DEF Surjection
  <1> QED
    BY <1>1, FS_Surjection

\* The invariant bounds the wrong passwords.
LEMMA BoundFromPlay ==
    ASSUME BaseInv, GuessInv
    PROVE  GuessesBounded
  <1> SUFFICES ASSUME NEW u \in Users
               PROVE  Cardinality(Recent(guesses[u])) <= Most
    BY DEF GuessesBounded, Most
  <1> DEFINE S == Recent(guesses[u])
             f == [x \in S |-> x.by]
  <1>1. ASSUME NEW x \in S PROVE x.by \in InPlay(u)
    <2>1. x \in guesses[u] /\ x.at + Window > clock /\ x.at \in Nat /\ clock \in Nat
      BY DEF Recent, GuessInv, GuessTypes, FailureType, BaseInv, CountersOK
    <2>2. CASE Recorded(u, x)
      <3>1. PICK y \in attempts[u] : y.by = x.by /\ x.at <= y.at
        BY <2>2 DEF Recorded
      <3>2. y.at \in Nat
        BY DEF GuessInv, GuessTypes, FailureType
      <3>3. y.at + Window > clock
        BY <2>1, <3>1, <3>2, ThreadsFinite
      <3> QED
        BY <3>1, <3>3 DEF InPlay, FailedTokens, Recent
    <2>3. CASE Pending(u, x)
      <3>1. PICK t \in Threads : At(t, "failure") /\ job[t].user = u /\ job[t].token = x.by
        BY <2>3 DEF Pending
      <3>2. job[t].pc \in LoginPoints
        BY <3>1 DEF At, LoginPoints
      <3>3. Attempt(job[t])
        BY <3>2 DEF GuessInv, LoginsOK
      <3> QED
        BY <3>1, <3>3 DEF InPlay, LoginTokens, LoginThreads
    <2> QED
      BY <2>1, <2>2, <2>3 DEF GuessInv, GuessesCarried
  <1>2. f \in Injection(S, InPlay(u))
    <2>1. \A x, y \in S : x.by = y.by => x = y
      BY DEF Recent, GuessInv, OneGuess
    <2> QED
      BY <1>1, <2>1 DEF Injection, IsInjective
  <1>3. IsFiniteSet(InPlay(u)) /\ Cardinality(InPlay(u)) <= Most
    BY DEF GuessInv, PlayBounded
  <1> HIDE DEF f, S
  <1>4. IsFiniteSet(S) /\ Cardinality(S) <= Cardinality(InPlay(u))
    BY <1>2, <1>3, FS_Injection
  <1>5. Cardinality(S) \in Nat /\ Cardinality(InPlay(u)) \in Nat
    BY <1>3, <1>4, FS_CardinalityType
  <1>6. Cardinality(S) <= Most
    BY <1>3, <1>4, <1>5, ThreadsFinite
  <1> QED
    BY <1>6 DEF S

\* What is in play and does not grow stays bounded.
LEMMA PlayShrinks ==
    ASSUME PlayBounded, NEW u \in Users, InPlay(u)' \subseteq InPlay(u)
    PROVE  IsFiniteSet(InPlay(u)') /\ Cardinality(InPlay(u)') <= Most
  <1>1. IsFiniteSet(InPlay(u)) /\ Cardinality(InPlay(u)) <= Most
    BY DEF PlayBounded
  <1>2. PICK S, T : S = InPlay(u) /\ T = InPlay(u)'
    OBVIOUS
  <1>3. IsFiniteSet(T) /\ Cardinality(T) <= Cardinality(S) /\ IsFiniteSet(S)
    BY <1>1, <1>2, FS_Subset
  <1>4. Cardinality(T) \in Nat /\ Cardinality(S) \in Nat
    BY <1>3, FS_CardinalityType
  <1>5. Cardinality(T) <= Most
    BY <1>1, <1>2, <1>3, <1>4, ThreadsFinite
  <1> QED
    BY <1>2, <1>3, <1>5

-----------------------------------------------------------------------------
(* How a step changes the logins.                                          *)

\* Thread t goes on to job j: a login stays the same login, and has no password to
\* check any more; what is not a login does not become one.
Onward(t, j) ==
    \/ j = Idle
    \/ ~Attempt(j) /\ j.pc \notin LoginPoints
    \/ /\ Attempt(job[t]) /\ Attempt(j) /\ j.pc # "password"
       /\ j.user = job[t].user /\ j.token = job[t].token

LEMMA JobsOnward ==
    ASSUME BaseInv, LoginsOK, NEW t \in Threads, NEW j, Onward(t, j),
           job' = [job EXCEPT ![t] = j], requests' \in {requests, requests + 1}
    PROVE  /\ LoginsOK'
           /\ \A u \in Users : LoginTokens(u)' \subseteq LoginTokens(u)
           /\ \A s \in Threads : At(s, "password")' => s # t /\ job'[s] = job[s]
  <1>t. /\ job \in [Threads -> JobType \cup {Idle}] /\ requests \in Nat /\ requests <= requests'
        /\ requests' \in Nat
    BY DEF BaseInv, RequestsOK, CountersOK
  <1>1. job'[t] = j /\ \A s \in Threads \ {t} : job'[s] = job[s]
    BY <1>t
  <1>2. ASSUME NEW s \in Threads, Attempt(job'[s])
        PROVE  Attempt(job[s]) /\ job'[s].user = job[s].user /\ job'[s].token = job[s].token
    BY <1>1, <1>2 DEF Onward, Attempt
  <1>3. ASSUME NEW s \in Threads, job'[s].pc \in LoginPoints PROVE Attempt(job'[s])
    <2>1. Idle.pc \notin LoginPoints
      BY DEF Idle, LoginPoints
    <2> QED
      BY <1>1, <1>3, <2>1 DEF Onward, LoginsOK
  <1>4. ASSUME NEW s \in Threads, Attempt(job'[s]) PROVE job'[s].token <= requests'
    <2>1. job[s].token <= requests /\ job[s].token \in Nat
      BY <1>2, <1>4, <1>t DEF LoginsOK, Attempt, JobType
    <2> QED
      BY <1>2, <1>4, <2>1, <1>t
  <1>5. LoginsOK'
    BY <1>2, <1>3, <1>4 DEF LoginsOK
  <1>6. ASSUME NEW u \in Users PROVE LoginTokens(u)' \subseteq LoginTokens(u)
    BY <1>2 DEF LoginTokens, LoginThreads
  <1>7. ASSUME NEW s \in Threads, At(s, "password")' PROVE s # t /\ job'[s] = job[s]
    <2>1. Idle.pc # "password" /\ "password" \in LoginPoints
      BY DEF Idle, LoginPoints
    <2> QED
      BY <1>1, <1>7, <2>1 DEF Onward, At
  <1> QED
    BY <1>5, <1>6, <1>7

\* Where the steps of a thread lead.
LEMMA ThreadOnward ==
    ASSUME BaseInv, LoginsOK, NEW t \in Threads, Thread(t)
    PROVE  \/ \E u \in Users : Login(t, u)
           \/ Password(t) \/ RecordFailure(t) \/ RecordSuccess(t)
           \/ /\ UNCHANGED <<attempts, guesses>>
              /\ UNCHANGED job \/ (~At(t, "failure") /\ \E j : Onward(t, j) /\ job' = [job EXCEPT ![t] = j])
  <1>t. job \in [Threads -> JobType \cup {Idle}]
    BY DEF BaseInv, RequestsOK
  <1>b. \A label \in Labels : At(t, label) => job[t] # Idle /\ job[t] \in JobType
    BY Busy, JobReads
  <1>f. Finish(t) => \E j : Onward(t, j) /\ job' = [job EXCEPT ![t] = j]
    BY DEF Finish, Set, Onward
  <1>k. ASSUME NEW j, job[t] \in JobType, job[t] # Idle, j \in JobType, j.op = job[t].op, j.user = job[t].user,
               j.token = job[t].token, j.pc # "password", j.pc \in LoginPoints => Attempt(job[t])
        PROVE  Onward(t, j)
    <2>1. j # Idle
      <3>1. "idle" \notin Labels
        BY DEF Labels
      <3> QED
        BY <1>k, <3>1 DEF JobType, Idle
    <2> QED
      BY <1>k, <2>1 DEF Onward, Attempt
  <1>g. ASSUME NEW label \in Labels \ {"password"}, Goto(t, label), job[t] # Idle, job[t] \in JobType,
               label \in LoginPoints => Attempt(job[t])
        PROVE  \E j : Onward(t, j) /\ job' = [job EXCEPT ![t] = j]
    <2> DEFINE j == [job[t] EXCEPT !.pc = label]
    <2>1. j \in JobType /\ j.op = job[t].op /\ j.user = job[t].user /\ j.token = job[t].token /\ j.pc = label
      BY <1>g DEF JobType
    <2>2. job' = [job EXCEPT ![t] = j]
      BY <1>g DEF Goto, Set
    <2> HIDE DEF j
    <2> QED
      BY <1>g, <1>k, <2>1, <2>2
  <1>r. ASSUME Rejected(t), job[t] # Idle, job[t] \in JobType
        PROVE  \E j : Onward(t, j) /\ job' = [job EXCEPT ![t] = j]
    BY <1>r, <1>f, <1>g DEF Rejected, Labels, Attempt
  <1>1. CASE TotpEnabled(t)
    <2>1. /\ At(t, "mfa") /\ UNCHANGED <<attempts, guesses>>
          /\ Goto(t, "totp") \/ Goto(t, "create")
      BY <1>1 DEF TotpEnabled, historyVars
    <2>2. Attempt(job[t]) /\ job[t] # Idle /\ job[t] \in JobType
      BY <2>1, <1>b DEF At, LoginPoints, LoginsOK, Labels
    <2> QED
      BY <2>1, <2>2, <1>g DEF At, Labels
  <1>2. CASE CreateSession(t) \/ Revoke(t) \/ Refuse(t) \/ Serve(t) \/ EnableTotp(t)
    BY <1>2, <1>f DEF CreateSession, Revoke, Refuse, Serve, EnableTotp, At, historyVars
  <1>3. CASE TotpMatch(t)
    <2>0. job[t] # Idle /\ job[t] \in JobType /\ At(t, "totp") /\ ~At(t, "failure") /\ UNCHANGED <<attempts, guesses>>
      BY <1>3, <1>b DEF TotpMatch, At, Labels, historyVars
    <2>1. CASE Rejected(t)
      BY <2>0, <2>1, <1>r
    <2>2. CASE ~Rejected(t)
      <3>1. PICK step \in {clock - 1, clock, clock + 1} :
                  /\ row[job[t].target].secret # 0
                  /\ Set(t, [job[t] EXCEPT !.pc = "commit", !.step = step, !.last = row[job[t].target].last])
        BY <1>3, <2>2 DEF TotpMatch
      <3>2. step \in Nat /\ row[job[t].target].last \in Nat
        <4>1. step \in Nat
          BY DEF BaseInv, CountersOK
        <4>2. job[t].target \in Users /\ Exists(job[t].target)
          BY <2>0, JobReads DEF At
        <4>3. row[job[t].target] \in RowType
          BY <4>2, RowOfAccount DEF BaseInv
        <4> QED
          BY <4>1, <4>3 DEF RowType
      <3> DEFINE j == [job[t] EXCEPT !.pc = "commit", !.step = step, !.last = row[job[t].target].last]
      <3>3. j \in JobType /\ j.op = job[t].op /\ j.user = job[t].user /\ j.token = job[t].token /\ j.pc = "commit"
        BY <2>0, <3>2 DEF JobType, Labels
      <3>4. job' = [job EXCEPT ![t] = j]
        BY <3>1 DEF Set
      <3> HIDE DEF j
      <3> QED
        BY <2>0, <3>3, <3>4, <1>k DEF LoginPoints
    <2> QED
      BY <2>1, <2>2
  <1>4. CASE TotpCommit(t)
    <2>0. job[t] # Idle /\ job[t] \in JobType /\ ~At(t, "failure") /\ UNCHANGED <<attempts, guesses>>
      BY <1>4, <1>b DEF TotpCommit, At, Labels
    <2>1. CASE job[t].op = "login" /\ Goto(t, "create")
      BY <2>0, <2>1, <1>g DEF Labels, Attempt
    <2>2. CASE Rejected(t) \/ Finish(t)
      BY <2>0, <2>2, <1>r, <1>f
    <2> QED
      BY <1>4, <2>1, <2>2 DEF TotpCommit, Accept
  <1>5. ASSUME NEW token \in DOMAIN sessions, NEW op \in Ops, Request(t, token, op)
        PROVE  /\ UNCHANGED <<attempts, guesses>> /\ ~At(t, "failure")
               /\ \E j : Onward(t, j) /\ job' = [job EXCEPT ![t] = j]
    <2> DEFINE u == sessions[token].user
               j == [NewJob("account", op, u, token) EXCEPT !.role = sessions[token].role, !.began = changes[u]]
    <2>1. j.op = op /\ j.pc = "account" /\ op # "login"
      BY DEF NewJob, Ops
    <2>2. job' = [job EXCEPT ![t] = j]
      BY <1>5 DEF Request, Set
    <2> HIDE DEF j
    <2>3. Onward(t, j)
      BY <2>1 DEF Onward, Attempt, LoginPoints
    <2> QED
      BY <1>5, <2>2, <2>3 DEF Request, At, historyVars
  <1>6. CASE CheckAccount(t)
    <2>0. job[t] # Idle /\ job[t] \in JobType /\ ~At(t, "failure") /\ UNCHANGED <<attempts, guesses>>
      BY <1>6, <1>b DEF CheckAccount, At, Labels, historyVars
    <2>1. PICK label \in {"revoke", "refuse", "act"} : Goto(t, label)
      BY <1>6 DEF CheckAccount
    <2> QED
      BY <2>0, <2>1, <1>g DEF Labels, LoginPoints
  <1>7. ASSUME NEW u \in Users, MfaReauth(t, u)
        PROVE  /\ UNCHANGED <<attempts, guesses>> /\ ~At(t, "failure")
               /\ \E j : Onward(t, j) /\ job' = [job EXCEPT ![t] = j]
    <2>0. job[t] # Idle /\ job[t] \in JobType /\ ~At(t, "failure") /\ UNCHANGED <<attempts, guesses>>
      BY <1>7, <1>b DEF MfaReauth, At, Labels, historyVars
    <2>1. CASE Finish(t)
      BY <2>0, <2>1, <1>f
    <2>2. CASE ~Finish(t)
      <3>1. PICK label \in {"enrol", "totp"} : Set(t, [job[t] EXCEPT !.pc = label, !.target = u])
        BY <1>7, <2>2 DEF MfaReauth
      <3> DEFINE j == [job[t] EXCEPT !.pc = label, !.target = u]
      <3>2. j \in JobType /\ j.op = job[t].op /\ j.user = job[t].user /\ j.token = job[t].token /\ j.pc = label
        BY <2>0 DEF JobType, Labels
      <3>3. job' = [job EXCEPT ![t] = j]
        BY <3>1 DEF Set
      <3> HIDE DEF j
      <3> QED
        BY <2>0, <3>2, <3>3, <1>k DEF LoginPoints
    <2> QED
      BY <2>1, <2>2
  <1>8. ASSUME NEW u \in Users, NEW role \in Roles,
               CreateUser(t, u, role) \/ \E disabled \in BOOLEAN : UpdateUser(t, u, role, disabled)
        PROVE  /\ UNCHANGED <<attempts, guesses>> /\ ~At(t, "failure")
               /\ \E j : Onward(t, j) /\ job' = [job EXCEPT ![t] = j]
    BY <1>8, <1>f DEF CreateUser, UpdateUser, At
  <1>9. ASSUME NEW token \in DOMAIN sessions, Logout(t, token)
        PROVE  UNCHANGED <<attempts, guesses, job>>
    BY <1>9 DEF Logout, historyVars
  <1> QED
    BY <1>1, <1>2, <1>3, <1>4, <1>5, <1>6, <1>7, <1>8, <1>9 DEF Thread

-----------------------------------------------------------------------------
(* Every step keeps the bound.                                             *)

LEMMA PlayKept ==
    ASSUME PlayBounded, \A u \in Users : InPlay(u)' \subseteq InPlay(u)
    PROVE  PlayBounded'
  <1>1. \A u \in Users : IsFiniteSet(InPlay(u)') /\ Cardinality(InPlay(u)') <= Most
    BY PlayShrinks
  <1>2. Most' = Most
    BY DEF Most
  <1> QED
    BY <1>1, <1>2 DEF PlayBounded

\* Steps that leave the limiter and the guesses alone.
LEMMA QuietGuess ==
    ASSUME BaseInv, GuessInv, UNCHANGED <<attempts, guesses, clock>>, LoginsOK',
           requests' \in {requests, requests + 1},
           \A u \in Users : LoginTokens(u)' \subseteq LoginTokens(u),
           \A s \in Threads : At(s, "password")' => job'[s] = job[s],
           \A s \in Threads : At(s, "failure") => job'[s] = job[s]
    PROVE  GuessInv'
  <1>1. GuessTypes'
    <2>1. ASSUME NEW u \in Users, NEW x \in guesses[u] PROVE x.at <= clock /\ x.by <= requests'
      <3>1. x.by \in Nat /\ x.by <= requests /\ requests \in Nat /\ x.at <= clock
        BY DEF GuessInv, GuessTypes, FailureType, BaseInv, CountersOK
      <3> QED
        BY <3>1
    <2> QED
      BY <2>1 DEF GuessInv, GuessTypes
  <1>2. OneGuess'
    BY DEF GuessInv, OneGuess, At
  <1>3. GuessesCarried'
    BY DEF GuessInv, GuessesCarried, Recorded, Pending, At
  <1>4. PlayBounded'
    <2>1. \A u \in Users : FailedTokens(u)' = FailedTokens(u)
      BY DEF FailedTokens, Recent
    <2>2. \A u \in Users : InPlay(u)' \subseteq InPlay(u)
      BY <2>1 DEF InPlay
    <2> QED
      BY <2>2, PlayKept DEF GuessInv
  <1> QED
    BY <1>1, <1>2, <1>3, <1>4 DEF GuessInv

\* The clock moves on: less is recent.
LEMMA TickGuess ==
    ASSUME BaseInv, GuessInv, Tick
    PROVE  GuessInv'
  <1>1. clock' = clock + 1 /\ clock \in Nat /\ UNCHANGED <<attempts, guesses, job, requests>>
    BY DEF Tick, historyVars, BaseInv, CountersOK
  <1>2. GuessTypes'
    <2>1. ASSUME NEW u \in Users, NEW x \in guesses[u] PROVE x.at <= clock' /\ x.by <= requests
      <3>1. x.at \in Nat /\ x.by <= requests /\ x.at <= clock
        BY DEF GuessInv, GuessTypes, FailureType
      <3> QED
        BY <1>1, <3>1
    <2> QED
      BY <1>1, <2>1 DEF GuessInv, GuessTypes
  <1>3. LoginsOK' /\ OneGuess'
    BY <1>1 DEF GuessInv, LoginsOK, OneGuess, At, Attempt
  <1>4. ASSUME NEW u \in Users, NEW x \in FailureType, x.at + Window > clock' PROVE x.at + Window > clock
    <2>1. x.at \in Nat
      BY DEF FailureType
    <2> QED
      BY <1>1, <1>4, <2>1, ThreadsFinite
  <1>5. \A u \in Users : attempts[u] \subseteq FailureType /\ guesses[u] \subseteq FailureType
    BY DEF GuessInv, GuessTypes
  <1>6. GuessesCarried'
    BY <1>1, <1>4, <1>5 DEF GuessInv, GuessesCarried, Recorded, Pending, At
  <1>7. PlayBounded'
    <2>1. ASSUME NEW u \in Users PROVE InPlay(u)' \subseteq InPlay(u)
      <3>1. LoginTokens(u)' = LoginTokens(u)
        BY <1>1 DEF LoginTokens, LoginThreads, Attempt
      <3>2. FailedTokens(u)' \subseteq FailedTokens(u)
        BY <1>1, <1>4, <1>5 DEF FailedTokens, Recent
      <3> QED
        BY <3>1, <3>2 DEF InPlay
    <2> QED
      BY <2>1, PlayKept DEF GuessInv
  <1> QED
    BY <1>2, <1>3, <1>6, <1>7 DEF GuessInv

\* The check of the lockout forgets what is no longer recent.
LEMMA Forgets ==
    ASSUME BaseInv, GuessInv, NEW u \in Users, attempts' = [attempts EXCEPT ![u] = Recent(@)], UNCHANGED clock
    PROVE  /\ attempts' \in [Users -> SUBSET FailureType]
           /\ \A v \in Users : IsFiniteSet(attempts'[v])
           /\ \A v \in Users : FailedTokens(v)' = FailedTokens(v)
           /\ \A v \in Users, x \in FailureType : x.at + Window > clock /\ Recorded(v, x) => Recorded(v, x)'
  <1>t. attempts \in [Users -> SUBSET FailureType] /\ clock \in Nat
    BY DEF GuessInv, GuessTypes, BaseInv, CountersOK
  <1>1. \A v \in Users : attempts'[v] = IF v = u THEN Recent(attempts[u]) ELSE attempts[v]
    BY <1>t
  <1>2. Recent(attempts[u]) \subseteq attempts[u]
    BY DEF Recent
  <1>3. attempts' \in [Users -> SUBSET FailureType]
    BY <1>t, <1>2
  <1>4. ASSUME NEW v \in Users PROVE IsFiniteSet(attempts'[v])
    <2>1. IsFiniteSet(attempts[v]) /\ attempts'[v] \subseteq attempts[v]
      BY <1>1, <1>2 DEF GuessInv, GuessTypes
    <2> QED
      BY <2>1, FS_Subset
  <1>5. ASSUME NEW v \in Users PROVE FailedTokens(v)' = FailedTokens(v)
    <2>1. Recent(attempts[v])' = Recent(attempts[v])
      BY <1>1 DEF Recent
    <2> QED
      BY <2>1 DEF FailedTokens
  <1>6. ASSUME NEW v \in Users, NEW x \in FailureType, x.at + Window > clock, Recorded(v, x)
        PROVE  Recorded(v, x)'
    <2>1. PICK y \in attempts[v] : y.by = x.by /\ x.at <= y.at
      BY <1>6 DEF Recorded
    <2>2. y.at \in Nat /\ x.at \in Nat
      BY <1>t DEF FailureType
    <2>3. y.at + Window > clock
      BY <1>6, <1>t, <2>1, <2>2, ThreadsFinite
    <2>4. y \in attempts'[v]
      BY <1>1, <2>3 DEF Recent
    <2> QED
      BY <2>1, <2>4 DEF Recorded
  <1> QED
    BY <1>3, <1>4, <1>5, <1>6

\* A login that is not locked out finds room: fewer than max_attempts failures, and
\* one login per thread.
LEMMA RoomForOne ==
    ASSUME BaseInv, GuessInv, NEW u \in Users, ~IsLockedOut(u), FailedTokens(u)' = FailedTokens(u)
    PROVE  IsFiniteSet(InPlay(u)') /\ Cardinality(InPlay(u)') <= Most
  <1> DEFINE R == Recent(attempts[u])
             f == [y \in R |-> y.by]
             L == LoginThreads(u)'
             h == [t \in L |-> job'[t].token]
  <1>1. IsFiniteSet(R) /\ Cardinality(R) < MaxAttempts /\ Cardinality(R) \in Nat
    <2>1. IsFiniteSet(attempts[u]) /\ R \subseteq attempts[u]
      BY DEF GuessInv, GuessTypes, Recent
    <2>2. IsFiniteSet(R)
      BY <2>1, FS_Subset
    <2>3. Cardinality(R) \in Nat
      BY <2>2, FS_CardinalityType
    <2> QED
      BY <2>2, <2>3, ThreadsFinite DEF IsLockedOut
  <1>2. IsFiniteSet(L) /\ Cardinality(L) <= Cardinality(Threads) /\ Cardinality(L) \in Nat
    <2>1. L \subseteq Threads
      BY DEF LoginThreads
    <2> HIDE DEF L
    <2>2. IsFiniteSet(L) /\ Cardinality(L) <= Cardinality(Threads)
      BY <2>1, ThreadsFinite, FS_Subset
    <2> QED
      BY <2>2, FS_CardinalityType
  <1>3. FailedTokens(u) = {f[y] : y \in R} /\ LoginTokens(u)' = {h[t] : t \in L}
    BY DEF FailedTokens, LoginTokens
  <1>d. DOMAIN f = R /\ DOMAIN h = L
    OBVIOUS
  <1> HIDE DEF R, f, L, h
  <1> DEFINE F == {f[y] : y \in R}
             H == {h[t] : t \in L}
  <1>4. IsFiniteSet(F) /\ Cardinality(F) <= Cardinality(R)
    BY <1>1, <1>d, ImageBound
  <1>5. IsFiniteSet(H) /\ Cardinality(H) <= Cardinality(L)
    BY <1>2, <1>d, ImageBound
  <1>6. InPlay(u)' = F \cup H
    BY <1>3 DEF InPlay
  <1> HIDE DEF F, H
  <1>7. /\ IsFiniteSet(F \cup H) /\ Cardinality(F \cup H) = Cardinality(F) + Cardinality(H) - Cardinality(F \cap H)
        /\ IsFiniteSet(F \cap H)
    <2>1. IsFiniteSet(F \cap H)
      BY <1>4, FS_Subset
    <2> QED
      BY <1>4, <1>5, <2>1, FS_Union
  <1>8. Cardinality(F) \in Nat /\ Cardinality(H) \in Nat /\ Cardinality(F \cap H) \in Nat
    BY <1>4, <1>5, <1>7, FS_CardinalityType
  <1>9. Cardinality(F \cup H) <= Most
    BY <1>1, <1>2, <1>4, <1>5, <1>7, <1>8, ThreadsFinite DEF Most
  <1> QED
    BY <1>6, <1>7, <1>9

LEMMA LoginGuess ==
    ASSUME BaseInv, GuessInv, NEW t \in Threads, NEW u \in Users, Login(t, u)
    PROVE  GuessInv'
  <1>1. /\ job[t] = Idle /\ requests' = requests + 1 /\ UNCHANGED <<clock, guesses>>
        /\ attempts' = [attempts EXCEPT ![u] = Recent(@)]
    <2>1. At(t, "idle") /\ "idle" \notin Labels
      BY DEF Login, Labels
    <2>2. job[t] = Idle
      BY <2>1 DEF At, BaseInv, RequestsOK, JobType
    <2> QED
      BY <2>2 DEF Login, historyVars
  <1>t. /\ job \in [Threads -> JobType \cup {Idle}] /\ requests \in Nat
        /\ GuessTypes /\ LoginsOK /\ OneGuess /\ GuessesCarried /\ PlayBounded
    BY DEF BaseInv, RequestsOK, CountersOK, GuessInv
  <1>2. /\ attempts' \in [Users -> SUBSET FailureType]
        /\ \A v \in Users : IsFiniteSet(attempts'[v])
        /\ \A v \in Users : FailedTokens(v)' = FailedTokens(v)
        /\ \A v \in Users, x \in FailureType : x.at + Window > clock /\ Recorded(v, x) => Recorded(v, x)'
    BY <1>1, Forgets
  <1>3. GuessTypes'
    <2>1. ASSUME NEW v \in Users, NEW x \in guesses[v] PROVE x.at <= clock /\ x.by <= requests'
      <3>1. x.by \in Nat /\ x.by <= requests /\ x.at <= clock
        BY <1>t DEF GuessTypes, FailureType
      <3> QED
        BY <1>1, <1>t, <3>1
    <2> QED
      BY <1>1, <1>2, <1>t, <2>1 DEF GuessTypes
  <1>4. CASE IsLockedOut(u)
    <2>1. UNCHANGED job
      BY <1>4 DEF Login
    <2>2. LoginsOK'
      <3>1. ASSUME NEW s \in Threads, Attempt(job[s]) PROVE job[s].token <= requests'
        <4>1. job[s].token <= requests /\ job[s].token \in Nat
          BY <3>1, <1>t DEF LoginsOK, Attempt, JobType
        <4> QED
          BY <4>1, <1>1, <1>t
      <3> QED
        BY <2>1, <3>1, <1>t DEF LoginsOK
    <2>3. OneGuess'
      BY <1>1, <1>t, <2>1 DEF OneGuess, At
    <2>4. GuessesCarried'
      <3>1. \A v \in Users : \A x \in guesses[v] : x \in FailureType
        BY <1>t DEF GuessTypes
      <3> QED
        BY <1>1, <1>2, <1>t, <2>1, <3>1 DEF GuessesCarried, Pending, At
    <2>5. PlayBounded'
      <3>1. \A v \in Users : InPlay(v)' = InPlay(v)
        BY <1>2, <2>1 DEF InPlay, LoginTokens, LoginThreads, Attempt
      <3> QED
        BY <3>1, <1>t, PlayKept
    <2> QED
      BY <1>3, <2>2, <2>3, <2>4, <2>5 DEF GuessInv
  <1>5. CASE ~IsLockedOut(u)
    <2> DEFINE j == NewJob("password", "login", u, requests')
    <2>1. job' = [job EXCEPT ![t] = j]
      BY <1>5 DEF Login, Set
    <2>2. j # Idle /\ j.op = "login" /\ j.pc = "password" /\ j.user = u /\ j.token = requests + 1
      BY <1>1 DEF NewJob, Idle
    <2> HIDE DEF j
    <2>3. job'[t] = j /\ \A s \in Threads \ {t} : job'[s] = job[s]
      BY <1>t, <2>1
    <2>4. Attempt(j) /\ j.pc \in LoginPoints
      BY <2>2 DEF Attempt, LoginPoints
    <2>5. \A s \in Threads : Attempt(job[s]) => job[s].token \in Nat /\ job[s].token <= requests
      BY <1>t DEF LoginsOK, Attempt, JobType
    <2>6. \A s \in Threads : Attempt(job[s]) => job[s].token <= requests + 1 /\ job[s].token # requests + 1
      BY <1>t, <2>5
    <2>7. LoginsOK'
      <3>0. requests + 1 <= requests'
        BY <1>1, <1>t
      <3>1. \A s \in Threads : Attempt(job'[s]) => job'[s].token <= requests'
        BY <1>1, <2>2, <2>3, <2>6, <3>0
      <3>2. \A s \in Threads : job'[s].pc \in LoginPoints => Attempt(job'[s])
        BY <2>3, <2>4, <1>t DEF LoginsOK
      <3>3. \A s, r \in Threads : Attempt(job'[s]) /\ Attempt(job'[r]) /\ job'[s].token = job'[r].token => s = r
        BY <2>2, <2>3, <2>6, <1>t DEF LoginsOK
      <3> QED
        BY <3>1, <3>2, <3>3 DEF LoginsOK
    <2>8. OneGuess'
      <3>1. \A v \in Users : \A x \in guesses[v] : x.by # requests + 1
        <4> TAKE v \in Users
        <4> TAKE x \in guesses[v]
        <4>1. x.by \in Nat /\ x.by <= requests
          BY <1>t DEF GuessTypes, FailureType
        <4> QED
          BY <4>1, <1>t
      <3>2. \A s \in Threads, v \in Users : At(s, "password")' => \A x \in guesses[v] : x.by # job'[s].token
        BY <3>1, <2>2, <2>3, <1>t DEF OneGuess, At
      <3> QED
        BY <1>1, <3>2, <1>t DEF OneGuess
    <2>9. GuessesCarried'
      <3>1. \A v \in Users : \A x \in guesses[v] : x \in FailureType
        BY <1>t DEF GuessTypes
      <3>2. \A v \in Users : \A x \in guesses[v] : Pending(v, x) => Pending(v, x)'
        <4>1. ~At(t, "failure")
          BY <1>1 DEF At, Idle
        <4> QED
          BY <2>3, <4>1 DEF Pending, At
      <3> QED
        BY <1>1, <1>2, <1>t, <3>1, <3>2 DEF GuessesCarried
    <2>10. PlayBounded'
      <3>1. IsFiniteSet(InPlay(u)') /\ Cardinality(InPlay(u)') <= Most
        BY <1>2, <1>5, RoomForOne
      <3>2. ASSUME NEW v \in Users \ {u} PROVE InPlay(v)' \subseteq InPlay(v)
        <4>1. LoginTokens(v)' \subseteq LoginTokens(v)
          BY <2>2, <2>3 DEF LoginTokens, LoginThreads
        <4> QED
          BY <1>2, <4>1 DEF InPlay
      <3>3. \A v \in Users : IsFiniteSet(InPlay(v)') /\ Cardinality(InPlay(v)') <= Most
        BY <1>t, <3>1, <3>2, PlayShrinks
      <3>4. Most' = Most
        BY DEF Most
      <3> QED
        BY <3>3, <3>4 DEF PlayBounded
    <2> QED
      BY <1>3, <2>7, <2>8, <2>9, <2>10 DEF GuessInv
  <1> QED
    BY <1>4, <1>5

\* The job of a login that goes on to another of its points.
LEMMA LoginGoesOn ==
    ASSUME BaseInv, LoginsOK, NEW t \in Threads, job[t].pc \in LoginPoints, NEW j \in JobType,
           j.op = job[t].op, j.user = job[t].user, j.token = job[t].token, j.pc \in LoginPoints \ {"password"}
    PROVE  Onward(t, j)
  <1>1. Attempt(job[t]) /\ job[t].op = "login"
    BY DEF LoginsOK, Attempt
  <1>2. j # Idle
    BY DEF Idle, LoginPoints
  <1> QED
    BY <1>1, <1>2 DEF Onward, Attempt

LEMMA LoginMovesOn ==
    ASSUME BaseInv, LoginsOK, NEW t \in Threads, job[t].pc \in LoginPoints,
           NEW label \in LoginPoints \ {"password"}, NEW j, j = [job[t] EXCEPT !.pc = label]
    PROVE  Onward(t, j) /\ j.pc = label /\ j.user = job[t].user /\ j.token = job[t].token
  <1>1. job[t] \in JobType
    BY JobReads DEF LoginsOK, Attempt
  <1>2. j \in JobType /\ j.pc = label /\ j.user = job[t].user /\ j.token = job[t].token /\ j.op = job[t].op
    BY <1>1 DEF JobType, Labels, LoginPoints
  <1> QED
    BY <1>2, LoginGoesOn

LEMMA PasswordGuess ==
    ASSUME BaseInv, GuessInv, NEW t \in Threads, Password(t)
    PROVE  GuessInv'
  <1>t. /\ job \in [Threads -> JobType \cup {Idle}] /\ requests \in Nat /\ clock \in Nat
        /\ GuessTypes /\ LoginsOK /\ OneGuess /\ GuessesCarried /\ PlayBounded
    BY DEF BaseInv, RequestsOK, CountersOK, GuessInv
  <1>0. /\ At(t, "password") /\ job[t].pc \in LoginPoints /\ ~At(t, "failure")
        /\ UNCHANGED <<clock, attempts, requests>>
    BY DEF Password, At, LoginPoints
  <1>a. Attempt(job[t]) /\ job[t] \in JobType /\ job[t].user \in Users /\ job[t].token \in Nat /\ job[t].token <= requests
    <2>1. Attempt(job[t])
      BY <1>0, <1>t DEF LoginsOK
    <2> QED
      BY <2>1, <1>t, JobReads DEF LoginsOK, Attempt, JobType
  <1> PICK u \in Users : u = job[t].user
    BY <1>a
  <1>1. CASE /\ Exists(u) /\ UNCHANGED guesses
             /\ Set(t, [job[t] EXCEPT !.pc = "success", !.role = row[u].role])
    <2>1. row[u].role \in Roles \cup {"none"}
      BY <1>1, RowOfAccount DEF BaseInv, RowType
    <2>2. PICK j : Onward(t, j) /\ job' = [job EXCEPT ![t] = j]
      <3>1. PICK j : j = [job[t] EXCEPT !.pc = "success", !.role = row[u].role]
        OBVIOUS
      <3>2. j \in JobType /\ j.pc = "success" /\ j.user = job[t].user /\ j.token = job[t].token /\ j.op = job[t].op
        BY <1>a, <2>1, <3>1 DEF JobType, Labels
      <3>3. Onward(t, j)
        BY <1>0, <1>t, <3>2, LoginGoesOn DEF LoginPoints
      <3> QED
        BY <1>1, <3>1, <3>3 DEF Set
    <2>3. \A s \in Threads : At(s, "failure") => job'[s] = job[s]
      BY <1>0, <1>t, <2>2
    <2>4. /\ LoginsOK'
          /\ \A v \in Users : LoginTokens(v)' \subseteq LoginTokens(v)
          /\ \A s \in Threads : At(s, "password")' => job'[s] = job[s]
      BY <1>0, <1>t, <2>2, JobsOnward
    <2> QED
      BY <1>0, <1>1, <2>3, <2>4, QuietGuess
  <1>2. CASE guesses' = [guesses EXCEPT ![u] = @ \cup {Failure(t)}] /\ Goto(t, "failure")
    <2> PICK g : g = Failure(t)
      OBVIOUS
    <2>1. g \in FailureType /\ g.at = clock /\ g.by = job[t].token
      BY <1>a, <1>t DEF Failure, FailureType
    <2>2. /\ guesses' \in [Users -> SUBSET FailureType]
          /\ \A v \in Users : guesses'[v] = IF v = u THEN guesses[u] \cup {g} ELSE guesses[v]
      BY <1>2, <1>t, <2>1 DEF GuessTypes
    <2>3. PICK j : Onward(t, j) /\ job' = [job EXCEPT ![t] = j] /\ j.pc = "failure" /\ j.user = u /\ j.token = g.by
      <3>1. PICK j : j = [job[t] EXCEPT !.pc = "failure"]
        OBVIOUS
      <3>2. Onward(t, j) /\ j.pc = "failure" /\ j.user = job[t].user /\ j.token = job[t].token
        BY <1>0, <1>t, <3>1, LoginMovesOn DEF LoginPoints
      <3> QED
        BY <1>2, <2>1, <3>1, <3>2 DEF Goto, Set
    <2>4. job'[t] = j /\ \A s \in Threads \ {t} : job'[s] = job[s]
      BY <1>t, <2>3
    <2>5. /\ LoginsOK'
          /\ \A v \in Users : LoginTokens(v)' \subseteq LoginTokens(v)
          /\ \A s \in Threads : At(s, "password")' => s # t /\ job'[s] = job[s]
      BY <1>0, <1>t, <2>3, JobsOnward
    <2>6. GuessTypes'
      <3>1. clock <= clock /\ g.by <= requests
        BY <1>a, <1>t, <2>1
      <3> QED
        BY <1>0, <1>t, <2>1, <2>2, <3>1 DEF GuessTypes
    <2>7. OneGuess'
      <3>1. \A v \in Users : \A x \in guesses[v] : x.by # g.by
        BY <1>0, <1>t, <2>1 DEF OneGuess
      <3>2. \A v \in Users : \A x, y \in guesses'[v] : x.by = y.by => x = y
        BY <2>2, <3>1, <1>t DEF OneGuess
      <3>3. ASSUME NEW s \in Threads, NEW v \in Users, At(s, "password")', NEW x \in guesses'[v]
            PROVE  x.by # job'[s].token
        <4>1. s # t /\ job'[s] = job[s] /\ At(s, "password")
          BY <2>5, <3>3 DEF At
        <4>2. job[s].token # job[t].token
          BY <4>1, <1>a, <1>t DEF LoginsOK, At, LoginPoints
        <4> QED
          BY <2>1, <2>2, <4>1, <4>2, <1>t DEF OneGuess
      <3> QED
        BY <3>2, <3>3 DEF OneGuess
    <2>8. GuessesCarried'
      <3>1. ASSUME NEW v \in Users, NEW x \in guesses[v], Pending(v, x) PROVE Pending(v, x)'
        BY <1>0, <2>4, <3>1 DEF Pending, At
      <3>2. ASSUME NEW v \in Users, NEW x \in guesses[v], Recorded(v, x) PROVE Recorded(v, x)'
        BY <1>0, <3>2 DEF Recorded
      <3>3. Pending(u, g)'
        BY <2>3, <2>4 DEF Pending, At
      <3> QED
        BY <1>0, <1>t, <2>2, <3>1, <3>2, <3>3 DEF GuessesCarried
    <2>9. PlayBounded'
      <3>1. \A v \in Users : FailedTokens(v)' = FailedTokens(v)
        BY <1>0 DEF FailedTokens, Recent
      <3>2. \A v \in Users : InPlay(v)' \subseteq InPlay(v)
        BY <2>5, <3>1 DEF InPlay
      <3> QED
        BY <1>t, <3>2, PlayKept
    <2> QED
      BY <2>5, <2>6, <2>7, <2>8, <2>9 DEF GuessInv
  <1> QED
    BY <1>1, <1>2 DEF Password, User

LEMMA FailureGuess ==
    ASSUME BaseInv, GuessInv, NEW t \in Threads, RecordFailure(t)
    PROVE  GuessInv'
  <1>t. /\ job \in [Threads -> JobType \cup {Idle}] /\ requests \in Nat /\ clock \in Nat
        /\ GuessTypes /\ LoginsOK /\ OneGuess /\ GuessesCarried /\ PlayBounded
    BY DEF BaseInv, RequestsOK, CountersOK, GuessInv
  <1>0. /\ At(t, "failure") /\ job[t].pc \in LoginPoints
        /\ UNCHANGED <<clock, guesses, requests>>
    BY DEF RecordFailure, At, LoginPoints, historyVars
  <1>a. Attempt(job[t]) /\ job[t] \in JobType /\ job[t].user \in Users /\ job[t].token \in Nat
    <2>1. Attempt(job[t])
      BY <1>0, <1>t DEF LoginsOK
    <2> QED
      BY <2>1, <1>t, JobReads DEF Attempt, JobType
  <1> PICK u \in Users : u = job[t].user
    BY <1>a
  <1> PICK g : g = Failure(t)
    OBVIOUS
  <1>1. g \in FailureType /\ g.at = clock /\ g.by = job[t].token
    BY <1>a, <1>t DEF Failure, FailureType
  <1>2. attempts' = [attempts EXCEPT ![u] = @ \cup {g}] /\ job' = [job EXCEPT ![t] = Idle]
    BY DEF RecordFailure, User, Finish, Set
  <1>3. /\ attempts' \in [Users -> SUBSET FailureType]
        /\ \A v \in Users : attempts'[v] = IF v = u THEN attempts[u] \cup {g} ELSE attempts[v]
    BY <1>t, <1>1, <1>2 DEF GuessTypes
  <1>4. job'[t] = Idle /\ \A s \in Threads \ {t} : job'[s] = job[s]
    BY <1>t, <1>2
  <1>5. /\ LoginsOK'
        /\ \A v \in Users : LoginTokens(v)' \subseteq LoginTokens(v)
        /\ \A s \in Threads : At(s, "password")' => s # t /\ job'[s] = job[s]
    BY <1>0, <1>2, <1>t, JobsOnward DEF Onward
  <1>6. GuessTypes'
    <2>1. ASSUME NEW v \in Users PROVE IsFiniteSet(attempts'[v])
      <3>1. IsFiniteSet(attempts[v])
        BY <1>t DEF GuessTypes
      <3>2. IsFiniteSet(attempts[v] \cup {g})
        BY <3>1, FS_AddElement
      <3> QED
        BY <1>3, <3>1, <3>2
    <2> QED
      BY <1>0, <1>3, <1>t, <2>1 DEF GuessTypes
  <1>7. OneGuess'
    BY <1>0, <1>5, <1>t DEF OneGuess, At
  <1>8. GuessesCarried'
    <2>1. ASSUME NEW v \in Users, NEW x \in guesses[v], Recorded(v, x) PROVE Recorded(v, x)'
      BY <1>3, <2>1 DEF Recorded
    <2>2. ASSUME NEW v \in Users, NEW x \in guesses[v], Pending(v, x) PROVE Recorded(v, x)' \/ Pending(v, x)'
      <3>1. PICK s \in Threads : At(s, "failure") /\ job[s].user = v /\ job[s].token = x.by
        BY <2>2 DEF Pending
      <3>2. CASE s # t
        BY <1>4, <3>1, <3>2 DEF Pending, At
      <3>3. CASE s = t
        <4>1. x.at <= clock
          BY <1>t DEF GuessTypes
        <4> QED
          BY <1>1, <1>3, <3>1, <3>3, <4>1 DEF Recorded
      <3> QED
        BY <3>2, <3>3
    <2> QED
      BY <1>0, <1>t, <2>1, <2>2 DEF GuessesCarried
  <1>9. PlayBounded'
    <2>1. ASSUME NEW v \in Users PROVE InPlay(v)' \subseteq InPlay(v)
      <3>1. FailedTokens(v)' \subseteq FailedTokens(v) \cup (IF v = u THEN {g.by} ELSE {})
        BY <1>0, <1>3 DEF FailedTokens, Recent
      <3>2. g.by \in LoginTokens(u)
        BY <1>a, <1>1 DEF LoginTokens, LoginThreads
      <3> QED
        BY <1>5, <3>1, <3>2 DEF InPlay
    <2> QED
      BY <1>t, <2>1, PlayKept
  <1> QED
    BY <1>5, <1>6, <1>7, <1>8, <1>9 DEF GuessInv

LEMMA SuccessGuess ==
    ASSUME BaseInv, GuessInv, NEW t \in Threads, RecordSuccess(t)
    PROVE  GuessInv'
  <1>t. /\ job \in [Threads -> JobType \cup {Idle}] /\ requests \in Nat /\ clock \in Nat
        /\ GuessTypes /\ LoginsOK /\ OneGuess /\ GuessesCarried /\ PlayBounded
    BY DEF BaseInv, RequestsOK, CountersOK, GuessInv
  <1>0. /\ At(t, "success") /\ job[t].pc \in LoginPoints /\ ~At(t, "failure")
        /\ UNCHANGED <<clock, requests>>
    BY DEF RecordSuccess, At, LoginPoints
  <1>a. job[t].user \in Users
    BY <1>0, Busy, JobReads DEF At, Labels
  <1> PICK u \in Users : u = job[t].user
    BY <1>a
  <1>1. /\ attempts' = [attempts EXCEPT ![u] = {}] /\ guesses' = [guesses EXCEPT ![u] = {}]
        /\ Goto(t, "mfa")
    BY DEF RecordSuccess, User
  <1>2. /\ \A v \in Users : attempts'[v] = IF v = u THEN {} ELSE attempts[v]
        /\ \A v \in Users : guesses'[v] = IF v = u THEN {} ELSE guesses[v]
        /\ attempts' \in [Users -> SUBSET FailureType] /\ guesses' \in [Users -> SUBSET FailureType]
    BY <1>1, <1>t DEF GuessTypes
  <1>3. PICK j : Onward(t, j) /\ job' = [job EXCEPT ![t] = j]
    BY <1>0, <1>1, <1>t, LoginMovesOn DEF Goto, Set, LoginPoints
  <1>4. \A s \in Threads : At(s, "failure") => job'[s] = job[s]
    BY <1>0, <1>t, <1>3
  <1>5. /\ LoginsOK'
        /\ \A v \in Users : LoginTokens(v)' \subseteq LoginTokens(v)
        /\ \A s \in Threads : At(s, "password")' => job'[s] = job[s]
    BY <1>0, <1>3, <1>t, JobsOnward
  <1>6. GuessTypes'
    <2>1. \A v \in Users : IsFiniteSet(attempts'[v])
      BY <1>2, <1>t, FS_EmptySet DEF GuessTypes
    <2> QED
      BY <1>0, <1>2, <1>t, <2>1 DEF GuessTypes
  <1>7. OneGuess'
    BY <1>2, <1>5, <1>t DEF OneGuess, At
  <1>8. GuessesCarried'
    <2>1. ASSUME NEW v \in Users, NEW x \in guesses'[v], x.at + Window > clock
          PROVE  Recorded(v, x)' \/ Pending(v, x)'
      <3>1. v # u /\ x \in guesses[v]
        BY <1>2, <2>1
      <3>2. Recorded(v, x) \/ Pending(v, x)
        BY <1>t, <2>1, <3>1 DEF GuessesCarried
      <3>3. Recorded(v, x) => Recorded(v, x)'
        BY <1>2, <3>1 DEF Recorded
      <3>4. Pending(v, x) => Pending(v, x)'
        BY <1>4 DEF Pending, At
      <3> QED
        BY <3>2, <3>3, <3>4
    <2> QED
      BY <1>0, <2>1 DEF GuessesCarried
  <1>9. PlayBounded'
    <2>1. ASSUME NEW v \in Users PROVE InPlay(v)' \subseteq InPlay(v)
      <3>1. FailedTokens(v)' \subseteq FailedTokens(v)
        BY <1>0, <1>2 DEF FailedTokens, Recent
      <3> QED
        BY <1>5, <3>1 DEF InPlay
    <2> QED
      BY <1>t, <2>1, PlayKept
  <1> QED
    BY <1>5, <1>6, <1>7, <1>8, <1>9 DEF GuessInv

LEMMA GuessStep == BaseInv /\ GuessInv /\ [Next]_vars => GuessInv'
  <1> SUFFICES ASSUME BaseInv, GuessInv, [Next]_vars PROVE GuessInv'
    OBVIOUS
  <1>t. job \in [Threads -> JobType \cup {Idle}] /\ LoginsOK /\ requests \in Nat
    BY DEF BaseInv, RequestsOK, CountersOK, GuessInv
  <1>1. ASSUME UNCHANGED <<attempts, guesses, clock, job>>, requests' \in {requests, requests + 1} PROVE GuessInv'
    <2>1. LoginsOK'
      <3>1. ASSUME NEW s \in Threads, Attempt(job[s]) PROVE job[s].token <= requests'
        <4>1. job[s].token <= requests /\ job[s].token \in Nat
          BY <3>1, <1>t DEF LoginsOK, Attempt, JobType
        <4> QED
          BY <4>1, <1>1, <1>t
      <3> QED
        BY <1>1, <3>1, <1>t DEF LoginsOK
    <2>2. \A u \in Users : LoginTokens(u)' = LoginTokens(u)
      BY <1>1 DEF LoginTokens, LoginThreads, Attempt
    <2> QED
      BY <1>1, <2>1, <2>2, QuietGuess
  <1>2. ASSUME NEW t \in Threads, Thread(t) PROVE GuessInv'
    <2>1. UNCHANGED clock /\ requests' \in {requests, requests + 1}
      BY <1>2, OnlyCommitAccepts
    <2>2. CASE \E u \in Users : Login(t, u)
      BY <2>2, LoginGuess
    <2>3. CASE Password(t) \/ RecordFailure(t) \/ RecordSuccess(t)
      BY <2>3, PasswordGuess, FailureGuess, SuccessGuess
    <2>4. CASE UNCHANGED <<attempts, guesses>> /\ UNCHANGED job
      BY <1>1, <2>1, <2>4
    <2>5. CASE UNCHANGED <<attempts, guesses>> /\ ~At(t, "failure") /\ \E j : Onward(t, j) /\ job' = [job EXCEPT ![t] = j]
      <3>1. PICK j : Onward(t, j) /\ job' = [job EXCEPT ![t] = j]
        BY <2>5
      <3>2. \A s \in Threads : At(s, "failure") => job'[s] = job[s]
        BY <1>t, <2>5, <3>1
      <3>3. /\ LoginsOK'
            /\ \A v \in Users : LoginTokens(v)' \subseteq LoginTokens(v)
            /\ \A s \in Threads : At(s, "password")' => job'[s] = job[s]
        BY <1>t, <2>1, <3>1, JobsOnward
      <3> QED
        BY <2>1, <2>5, <3>2, <3>3, QuietGuess
    <2> QED
      BY <1>2, <1>t, <2>2, <2>3, <2>4, <2>5, ThreadOnward
  <1>3. CASE Tick
    BY <1>3, TickGuess
  <1>4. CASE (\E token \in DOMAIN sessions : Expire(token)) \/ UNCHANGED vars
    BY <1>1, <1>4 DEF Expire, vars, historyVars
  <1> QED
    BY <1>2, <1>3, <1>4 DEF Next

LEMMA InitGuess == Init => GuessInv
  <1> SUFFICES ASSUME Init PROVE GuessInv
    OBVIOUS
  <1>1. GuessTypes
    BY FS_EmptySet DEF Init, GuessTypes
  <1>2. LoginsOK
    BY DEF Init, LoginsOK, Attempt, Idle, LoginPoints
  <1>3. OneGuess /\ GuessesCarried
    BY DEF Init, OneGuess, GuessesCarried
  <1>4. PlayBounded
    <2>1. \A u \in Users : InPlay(u) = {}
      BY DEF Init, InPlay, FailedTokens, Recent, LoginTokens, LoginThreads, Attempt
    <2> QED
      BY <2>1, FS_EmptySet, ThreadsFinite DEF PlayBounded
  <1> QED
    BY <1>1, <1>2, <1>3, <1>4 DEF GuessInv

-----------------------------------------------------------------------------

\* Every step keeps the invariant.
LEMMA AccessStep == AccessInv /\ [Next]_vars => AccessInv'
  <1> SUFFICES ASSUME AccessInv, [Next]_vars PROVE AccessInv'
    OBVIOUS
  <1>1. ASSUME NEW t \in Threads, Thread(t) PROVE AccessInv'
    BY <1>1, ThreadBase, ThreadAdmin, ThreadAuthority, ThreadSteps DEF AccessInv
  <1>2. ASSUME BaseInv', UNCHANGED <<row, job, changes, steps>> PROVE AccessInv'
    <2>1. AdminRemains' /\ NoStaleAuthority'
      BY <1>2 DEF AccessInv, AdminRemains, ActiveAdmins, Exists, NoStaleAuthority, At, User
    <2>2. StepsSeen' /\ StepAcceptedOnce'
      BY <1>2 DEF AccessInv, StepsSeen, StepAcceptedOnce, Exists
    <2>3. QED
      BY <1>2, <2>1, <2>2 DEF AccessInv
  <1>3. CASE Tick \/ \E token \in DOMAIN sessions : Expire(token)
    BY <1>2, <1>3, ClockBase DEF AccessInv
  <1>4. CASE UNCHANGED vars
    <2>1. BaseInv'
      BY <1>4 DEF vars, AccessInv, BaseInv, StoreOK, CountersOK, RequestsOK, JobFits, SessionFits, Exists
    <2>2. QED
      BY <1>2, <1>4, <2>1 DEF vars
  <1>5. QED
    BY <1>1, <1>3, <1>4 DEF Next

\* Whatever accounts are demoted and disabled, by however many requests at once, an
\* admin who may log in remains.
THEOREM AlwaysAnAdmin == Spec => []AdminRemains
  BY InitAccess, AccessStep, PTL DEF Spec, AccessInv

\* A request acts with the role its account has, or the account was changed while
\* the request was being handled; a session older than the change is no way round it.
THEOREM AuthorityIsCurrent == Spec => []NoStaleAuthority
  BY InitAccess, AccessStep, PTL DEF Spec, AccessInv

\* Of any requests that bring codes of one time step, one is accepted, and none of an
\* earlier step after it.
THEOREM TotpStepsRise == Spec => []StepAcceptedOnce
  BY InitAccess, AccessStep, PTL DEF Spec, AccessInv

\* However many logins run at once, the wrong passwords checked for one account within
\* a window, since its last success, stay below the limit plus the number of threads.
THEOREM GuessesAreBounded == Spec => []GuessesBounded
  <1>1. Init => BaseInv /\ GuessInv
    BY InitAccess, InitGuess DEF AccessInv
  <1>2. AccessInv /\ GuessInv /\ [Next]_vars => GuessInv'
    BY GuessStep DEF AccessInv
  <1>3. AccessInv /\ GuessInv => GuessesBounded
    BY BoundFromPlay DEF AccessInv
  <1> QED
    BY <1>1, <1>2, <1>3, InitAccess, AccessStep, PTL DEF Spec
=============================================================================
