------------------------------ MODULE Tenants ------------------------------
(***************************************************************************)
(* The users of the platform (table tenants): login limiter, registration, *)
(* profile and passwords (internal/handler/api/auth.go), administrators    *)
(* (admin.go), and the migrations every start of the server runs again.    *)
(*                                                                         *)
(* An action is one call to PostgreSQL or Redis.  The phone stands for the *)
(* profile columns that both the user and an administrator's update write; *)
(* vip_level and vip_end_time are written like the status.  Handlers that  *)
(* only read are left out, and so is SoftDelete, which none calls.         *)
(***************************************************************************)
EXTENDS Naturals, FiniteSets

CONSTANTS
  Id,                \* ids of tenants
  Name, Admin, None, \* user names, the one that is seeded, and no name
  Phone, NoPhone,    \* values of phone, and NULL
  Request,           \* requests in flight at once
  MaxTries,          \* logins an address has per minute (5)
  MaxRequests, MaxStarts, MaxFaults  \* bounds on requests, starts and failures

ASSUME NameAssumption == Admin \in Name /\ None \notin Name
ASSUME BoundAssumption ==
  /\ MaxTries \in Nat \ {0} /\ MaxRequests \in Nat
  /\ MaxStarts \in Nat /\ MaxFaults \in Nat

VARIABLES
  tenants,     \* rows of the table
  req,         \* the handlers in flight
  server,      \* "down", running a migration, or "up"
  login_rate,  \* the counter of one client address in Redis, and its TTL:
               \* "none" yet, "set", or "lost" when no call will set it
  arrived,     \* requests so far; a password is the number of the request that sent it
  now,         \* writes so far: updated_at
  starts, faults,
  history,     \* what was registered and what administrators have asked for
  retired,     \* passwords each tenant had and has no more
  tries        \* logins let through since the counter began

vars == <<tenants, req, server, login_rate, arrived, now, starts, faults,
          history, retired, tries>>

Status == {"pending", "normal", "suspended"}  \* 0, 1, 2
Role == {"user", "admin"}

\* An id without a row has no username.
Tenant == [username: Name \cup {None}, password: Nat, status: Status, role: Role,
           phone: Phone \cup {NoPhone}, updated_at: Nat]
NoTenant == [username |-> None, password |-> 0, status |-> "pending", role |-> "user",
             phone |-> NoPhone, updated_at |-> 0]

Steps == {"idle", "expire", "find", "last_login", "create", "update", "password"}

\* The call a handler makes next, and the row it read, changed as it was asked to.
Handler == [at: Steps, id: Id \cup {None}, row: Tenant]
Idle == [at |-> "idle", id |-> None, row |-> NoTenant]

Exists(i) == tenants[i].username # None
NameTaken(n) == \E i \in Id : tenants[i].username = n

NoCounter == [count |-> 0, ttl |-> "none"]

Fails == faults < MaxFaults /\ faults' = faults + 1

Done(r) == req' = [req EXCEPT ![r] = Idle]

Arrive(r, at, i, row) ==
  /\ server = "up" /\ req[r] = Idle /\ arrived < MaxRequests
  /\ arrived' = arrived + 1
  /\ req' = [req EXCEPT ![r] = [at |-> at, id |-> i, row |-> row]]

Write(i, row) ==
  /\ tenants' = [tenants EXCEPT ![i] = [row EXCEPT !.updated_at = now + 1]]
  /\ now' = now + 1

-----------------------------------------------------------------------------
(* Login *)

\* Mutant of AfterCount: nobody sets the TTL.
AfterCountForgetful(count) == IF count > MaxTries THEN "idle" ELSE "find"

\* Mutant of AfterCount: one login too many.
AfterCountGenerous(count) ==
  IF count = 1 THEN "expire" ELSE IF count > MaxTries + 1 THEN "idle" ELSE "find"

\* Who made the counter sets its TTL; past the limit the login is refused.
AfterCount(count) ==
  IF count = 1 THEN "expire" ELSE IF count > MaxTries THEN "idle" ELSE "find"

\* INCR, the first call of Login.
Login(r) ==
  LET count == login_rate.count + 1
      at == AfterCount(count) IN
  /\ server = "up" /\ req[r] = Idle /\ arrived < MaxRequests
  /\ arrived' = arrived + 1
  /\ login_rate' = [login_rate EXCEPT !.count = count]
  /\ req' = [req EXCEPT ![r] = [Idle EXCEPT !.at = at]]
  /\ tries' = IF at = "idle" THEN tries ELSE tries + 1
  /\ UNCHANGED <<tenants, server, now, starts, faults, history, retired>>

\* EXPIRE, in the context of the request, which ends with the connection of the
\* browser; an error is not looked at, and nobody tries again.
SetLimit(r) ==
  /\ req[r].at = "expire"
  /\ \/ login_rate' = [login_rate EXCEPT !.ttl = "set"] /\ UNCHANGED faults
     \/ login_rate' = [login_rate EXCEPT !.ttl = "lost"] /\ Fails
  /\ req' = [req EXCEPT ![r].at = "find"]
  /\ UNCHANGED <<tenants, server, arrived, now, starts, history, retired, tries>>

\* The user is looked up; a wrong password, or a membership that is over, is
\* refused as an unknown name is.
CheckLogin(r) ==
  /\ req[r].at = "find"
  /\ \/ \E i \in Id :
          /\ Exists(i) /\ tenants[i].status = "normal"
          /\ req' = [req EXCEPT ![r] = [@ EXCEPT !.at = "last_login", !.id = i]]
     \/ Done(r)
  /\ UNCHANGED <<tenants, server, login_rate, arrived, now, starts, faults,
                 history, retired, tries>>

\* UPDATE of last_login_at; the trigger of the table sets updated_at.  An error
\* is not looked at.
RecordLogin(r) ==
  /\ req[r].at = "last_login"
  /\ \/ Write(req[r].id, tenants[req[r].id]) /\ UNCHANGED faults
     \/ Fails /\ UNCHANGED <<tenants, now>>
  /\ Done(r)
  /\ UNCHANGED <<server, login_rate, arrived, starts, history, retired, tries>>

\* The TTL is over.
LimitLifted ==
  /\ login_rate.ttl = "set"
  /\ login_rate' = NoCounter
  /\ tries' = 0
  /\ UNCHANGED <<tenants, req, server, arrived, now, starts, faults, history, retired>>

-----------------------------------------------------------------------------
(* Registration, profile, passwords *)

NewTenant(n, phone, password) ==
  [username |-> n, password |-> password, status |-> "pending", role |-> "user",
   phone |-> phone, updated_at |-> 0]

\* Register, the lookup of the name.
Register(r, n, phone) ==
  /\ ~NameTaken(n)
  /\ Arrive(r, "create", None, NewTenant(n, phone, arrived + 1))
  /\ UNCHANGED <<tenants, server, login_rate, now, starts, faults, history, retired, tries>>

\* Register, the INSERT: idx_tenants_username refuses a name taken meanwhile.
Create(r) ==
  /\ req[r].at = "create"
  /\ \/ /\ ~NameTaken(req[r].row.username)
        /\ \E i \in Id :
             /\ ~Exists(i)
             /\ Write(i, req[r].row)
             /\ history' = history \cup {<<i, "registered">>}
     \/ NameTaken(req[r].row.username) /\ UNCHANGED <<tenants, now, history>>
  /\ Done(r)
  /\ UNCHANGED <<server, login_rate, arrived, starts, faults, retired, tries>>

\* UpdateProfile: what the request leaves out becomes NULL.
UpdateProfile(r, i, phone) ==
  /\ server = "up" /\ req[r] = Idle /\ arrived < MaxRequests /\ Exists(i)
  /\ arrived' = arrived + 1
  /\ Write(i, [tenants[i] EXCEPT !.phone = phone])
  /\ UNCHANGED <<req, server, login_rate, starts, faults, history, retired, tries>>

\* ChangePassword, up to the check of the old one, which the user knows.
ChangePassword(r, i) ==
  /\ Exists(i)
  /\ Arrive(r, "password", i, [tenants[i] EXCEPT !.password = arrived + 1])
  /\ UNCHANGED <<tenants, server, login_rate, now, starts, faults, history, retired, tries>>

\* ResetPassword, up to the lookup of the phone: it is not unique, and any row
\* that has it may be the one found.
ResetPassword(r, phone) ==
  /\ \E i \in Id :
       /\ Exists(i) /\ tenants[i].phone = phone
       /\ Arrive(r, "password", i, [tenants[i] EXCEPT !.password = arrived + 1])
  /\ UNCHANGED <<tenants, server, login_rate, now, starts, faults, history, retired, tries>>

UpdatePassword(r) ==
  LET i == req[r].id IN
  /\ req[r].at = "password"
  /\ Write(i, [tenants[i] EXCEPT !.password = req[r].row.password])
  /\ retired' = [retired EXCEPT ![i] = @ \cup {tenants[i].password}]
  /\ Done(r)
  /\ UNCHANGED <<server, login_rate, arrived, starts, faults, history, tries>>

-----------------------------------------------------------------------------
(* Administrators *)

\* What a request asks for: a value, or nothing for a field left out.
Asked(values, old) == IF values = {} THEN old ELSE CHOOSE v \in values : TRUE
Optional(S) == {{}} \cup {{v} : v \in S}

\* Mutant of UpdateUser: a status left out is written as 0.
UpdateUserZero(r, i, status, role) ==
  /\ Exists(i)
  /\ Arrive(r, "update", i, [tenants[i] EXCEPT !.status = Asked(status, "pending"),
                                                !.role = Asked(role, @)])
  /\ history' = history \cup ({i} \X (status \cup role))
  /\ UNCHANGED <<tenants, server, login_rate, now, starts, faults, retired, tries>>

\* UpdateUser, up to GetByID: the fields that were sent replace those read.
UpdateUser(r, i, status, role) ==
  /\ Exists(i)
  /\ Arrive(r, "update", i, [tenants[i] EXCEPT !.status = Asked(status, @),
                                                !.role = Asked(role, @)])
  /\ history' = history \cup ({i} \X (status \cup role))
  /\ UNCHANGED <<tenants, server, login_rate, now, starts, faults, retired, tries>>

\* Mutant of Update: the statement names every column of the row.
UpdateAll(r) ==
  /\ req[r].at = "update"
  /\ Write(req[r].id, req[r].row)
  /\ retired' = [retired EXCEPT ![req[r].id] =
                   @ \cup ({tenants[req[r].id].password} \ {req[r].row.password})]
  /\ Done(r)
  /\ UNCHANGED <<server, login_rate, arrived, starts, faults, history, tries>>

\* Repo.Update of the copy: profile, status and role, but not the password.
Update(r) ==
  LET row == req[r].row IN
  /\ req[r].at = "update"
  /\ Write(req[r].id, [tenants[req[r].id] EXCEPT
                         !.status = row.status, !.role = row.role, !.phone = row.phone])
  /\ Done(r)
  /\ UNCHANGED <<server, login_rate, arrived, starts, faults, history, retired, tries>>

\* A call fails: the handler answers with an error.
CallFails(r) ==
  /\ req[r].at \in {"create", "update", "password"} /\ Fails
  /\ Done(r)
  /\ UNCHANGED <<tenants, server, login_rate, arrived, now, starts, history, retired, tries>>

-----------------------------------------------------------------------------
(* The server: RunMigrations, then requests *)

UnchangedByServer == UNCHANGED <<login_rate, arrived, history, retired, tries>>

Start ==
  /\ server = "down" /\ starts < MaxStarts
  /\ server' = "seed"
  /\ starts' = starts + 1
  /\ UNCHANGED <<tenants, req, now, faults>> /\ UnchangedByServer

\* 000005: INSERT ... WHERE NOT EXISTS.
SeedAdmin ==
  /\ server = "seed"
  /\ IF NameTaken(Admin)
     THEN UNCHANGED <<tenants, now>>
     ELSE \E i \in Id :
            /\ ~Exists(i)
            /\ Write(i, [NoTenant EXCEPT !.username = Admin, !.status = "normal",
                                         !.role = "admin"])
  /\ server' = "approve"
  /\ UNCHANGED <<req, starts, faults>> /\ UnchangedByServer

\* Mutant of ApproveAdmin: every tenant is approved.
ApproveEveryone ==
  /\ server = "approve"
  /\ tenants' = [i \in Id |-> IF Exists(i)
                              THEN [tenants[i] EXCEPT !.status = "normal",
                                                      !.updated_at = now + 1]
                              ELSE tenants[i]]
  /\ now' = now + 1
  /\ server' = "up"
  /\ UNCHANGED <<req, starts, faults>> /\ UnchangedByServer

\* 000006: UPDATE ... WHERE username = 'admin'.
ApproveAdmin ==
  /\ server = "approve"
  /\ \E i \in Id :
       /\ tenants[i].username = Admin
       /\ Write(i, [tenants[i] EXCEPT !.status = "normal"])
  /\ server' = "up"
  /\ UNCHANGED <<req, starts, faults>> /\ UnchangedByServer

\* A migration that fails ends the start; a process that dies takes its
\* requests with it: one between INCR and EXPIRE leaves a counter without TTL.
Crash ==
  /\ server # "down" /\ Fails
  /\ server' = "down"
  /\ req' = [r \in Request |-> Idle]
  /\ login_rate' = IF \E r \in Request : req[r].at = "expire"
                   THEN [login_rate EXCEPT !.ttl = "lost"]
                   ELSE login_rate
  /\ UNCHANGED <<tenants, arrived, now, starts, history, retired, tries>>

\* A graceful stop waits for the requests.
Stop ==
  /\ server = "up" /\ \A r \in Request : req[r] = Idle
  /\ server' = "down"
  /\ UNCHANGED <<tenants, req, now, starts, faults>> /\ UnchangedByServer

-----------------------------------------------------------------------------
Init ==
  /\ tenants = [i \in Id |-> NoTenant]
  /\ req = [r \in Request |-> Idle]
  /\ server = "down"
  /\ login_rate = NoCounter
  /\ arrived = 0 /\ now = 0 /\ starts = 0 /\ faults = 0
  /\ history = {}
  /\ retired = [i \in Id |-> {}]
  /\ tries = 0

Arrivals(r) ==
  \/ Login(r)
  \/ \E n \in Name, p \in Phone : Register(r, n, p)
  \/ \E p \in Phone : ResetPassword(r, p)
  \/ \E i \in Id :
       \/ \E p \in Phone \cup {NoPhone} : UpdateProfile(r, i, p)
       \/ ChangePassword(r, i)
       \/ \E status \in Optional(Status), role \in Optional(Role) :
            UpdateUser(r, i, status, role)

Calls(r) ==
  \/ SetLimit(r) \/ CheckLogin(r) \/ RecordLogin(r)
  \/ Create(r) \/ UpdatePassword(r) \/ Update(r) \/ CallFails(r)

Server == Start \/ SeedAdmin \/ ApproveAdmin \/ Crash \/ Stop

Next == LimitLifted \/ Server \/ \E r \in Request : Arrivals(r) \/ Calls(r)

\* A handler makes its next call, and Redis drops a key whose TTL is over.
Spec ==
  /\ Init /\ [][Next]_vars
  /\ WF_vars(LimitLifted) /\ \A r \in Request : WF_vars(Calls(r))

-----------------------------------------------------------------------------
(* Properties *)

TypeOK ==
  /\ tenants \in [Id -> Tenant]
  /\ req \in [Request -> Handler]
  /\ server \in {"down", "seed", "approve", "up"}
  /\ login_rate \in [count: Nat, ttl: {"none", "set", "lost"}]
  /\ arrived \in Nat /\ now \in Nat /\ starts \in Nat /\ faults \in Nat
  /\ history \subseteq Id \X (Status \cup Role \cup {"registered"})
  /\ retired \in [Id -> SUBSET Nat]
  /\ tries \in Nat

\* Who registers is a pending user until an administrator asks for something
\* else: neither a start, which approves admin, nor an update that writes back
\* the row it read gives a status or a role that nobody asked for.
Decided(i, row) ==
  <<i, "registered">> \in history =>
    /\ row.status # "pending" => <<i, row.status>> \in history
    /\ row.role # "user" => <<i, row.role>> \in history

OnlyAdministratorsDecide == \A i \in Id : Exists(i) => Decided(i, tenants[i])

\* A password that was replaced never comes back: whatever overlaps, no
\* statement writes a password it has read.
PasswordsRetired == \A i \in Id : tenants[i].password \notin retired[i]

\* From one expiry of the counter to the next an address passes the limiter
\* MaxTries times at most; and whatever else fails, a counter without a TTL is
\* about to get one, unless the one EXPIRE it was to get has failed or its
\* process has died: no later login makes up for that.
LoginsLimited ==
  /\ tries <= MaxTries
  /\ login_rate.count > 0 /\ login_rate.ttl = "none" =>
       \E r \in Request : req[r].at = "expire"

\* What an update may rely on: until the row is written, which its updated_at
\* tells, the copy differs from it only where an administrator asked for it.
Extends(i, row) ==
  /\ row.phone = tenants[i].phone
  /\ row.status # tenants[i].status => <<i, row.status>> \in history
  /\ row.role # tenants[i].role => <<i, row.role>> \in history

CopySound(h) ==
  /\ h.at \in {"last_login", "update", "password"} => h.id \in Id /\ Exists(h.id)
  /\ h.at = "create" => /\ h.row.username \notin {Admin, None}
                        /\ h.row.status = "pending" /\ h.row.role = "user"
  /\ h.at = "update" =>
       /\ Decided(h.id, h.row)
       /\ h.row.updated_at <= tenants[h.id].updated_at
       /\ h.row.updated_at = tenants[h.id].updated_at => Extends(h.id, h.row)

\* The passwords on their way to the table are new, and no two are the same.
Sends(r) == req[r].at \in {"create", "password"}
PasswordNew(r) ==
  LET p == req[r].row.password IN
  /\ p \in 1 .. arrived
  /\ \A i \in Id : p \notin retired[i] /\ p # tenants[i].password
  /\ \A q \in Request \ {r} : Sends(q) => req[q].row.password # p

RowSound(i) ==
  /\ tenants[i].updated_at <= now
  /\ tenants[i].password <= arrived
  /\ retired[i] \subseteq 0 .. arrived
  /\ ~Exists(i) => retired[i] = {} /\ <<i, "registered">> \notin history
  /\ tenants[i].username = Admin => <<i, "registered">> \notin history

\* A request finds the administrator of the first start in the table.
ServerSound ==
  /\ server # "up" => \A r \in Request : req[r] = Idle
  /\ server \in {"approve", "up"} => NameTaken(Admin)

\* The counter and the logins that passed it.
LimiterSound == tries <= login_rate.count

TInv ==
  /\ TypeOK
  /\ ServerSound /\ LimiterSound
  /\ \A i \in Id : RowSound(i)
  /\ \A r \in Request : CopySound(req[r]) /\ (Sends(r) => PasswordNew(r))
  /\ OnlyAdministratorsDecide /\ PasswordsRetired /\ LoginsLimited

\* An update that no other write came before leaves phone and password alone,
\* and gives no status or role but one an administrator asked for: a lost
\* update needs a write between the update's query and its statement.
UpdateChangesOnlyAsked ==
  [][\A r \in Request :
       LET i == req[r].id IN
       /\ req[r].at = "update" /\ now' > now /\ req'[r] = Idle
       /\ req[r].row.updated_at = tenants[i].updated_at
       => /\ tenants'[i].phone = tenants[i].phone
          /\ tenants'[i].password = tenants[i].password
          /\ tenants'[i].status # tenants[i].status => <<i, tenants'[i].status>> \in history
          /\ tenants'[i].role # tenants[i].role => <<i, tenants'[i].role>> \in history]_vars

\* An address that is locked out is let in again, through crashes and failures
\* of everything else, unless the EXPIRE of this very counter was lost: then it
\* is locked out for good.
LockLifts == login_rate.count > MaxTries ~> login_rate.count = 0 \/ login_rate.ttl = "lost"
=============================================================================
