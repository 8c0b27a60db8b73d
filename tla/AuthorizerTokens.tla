--------------------------- MODULE AuthorizerTokens ---------------------------
(***************************************************************************)
(* Official accounts and their tokens: the callbacks of the WeChat open    *)
(* platform (internal/service/wechat/wechat.go), the reading and           *)
(* refreshing of tokens, and the account handlers of the admin API         *)
(* (internal/handler/api/account.go), over the table wechat_accounts       *)
(* (internal/repository/account/account.go) and the Redis keys             *)
(* authorizer_token:<id> and pre_auth:<code>.                              *)
(*                                                                         *)
(* Every handler runs in a goroutine of its own and nothing locks: one     *)
(* action is one call to PostgreSQL or Redis, and between two calls the    *)
(* handler holds a copy of the row it read.  Any call may fail (Faults),   *)
(* and the process may stop between any two.                               *)
(***************************************************************************)
EXTENDS Naturals, FiniteSets

CONSTANTS
  Account,   \* primary keys of wechat_accounts (bounds the rows ever created)
  App,       \* WeChat app ids
  Tenant,    \* tenants
  Request,   \* handler invocations in flight at once
  None,      \* no tenant, no app, no account
  MaxIssue,  \* bound on the tokens WeChat issues
  Faults     \* TRUE when calls to Redis, PostgreSQL or WeChat may fail and
             \* the process may stop

ASSUME NoneAssumption == None \notin Account \cup App \cup Tenant
ASSUME BoundAssumption == MaxIssue \in Nat /\ Faults \in BOOLEAN

VARIABLES
  table,     \* wechat_accounts, by primary key
  cache,     \* authorizer_token:<id> in Redis
  preAuth,   \* tenants with a pre_auth:<code> key alive in Redis
  issued,    \* how many tokens WeChat has issued
  expired,   \* the tokens numbered 1..expired have expired
  req        \* the handler invocations in flight

vars == <<table, cache, preAuth, issued, expired, req>>

-----------------------------------------------------------------------------
(* Values *)

Manual == 1        \* auth_type
Platform == 2

\* auth_status
NotConnected == 0
Normal == 1
TokenExpired == 2
Revoked == 3

\* A token remembers the app it was issued to and its place in the issues.
\* The access and the refresh token of one issue carry the same value.
Token == [app: App, seq: 1 .. MaxIssue]
NoToken == [app |-> None, seq |-> 0]
MaybeToken == Token \cup {NoToken}

Row == [phase: {"live", "deleted"}, kind: {Manual, Platform}, tenant: Tenant,
        app: App, status: NotConnected .. Revoked,
        access: MaybeToken, refresh: MaybeToken]
Absent == [phase |-> "absent", kind |-> 0, tenant |-> None, app |-> None,
           status |-> 0, access |-> NoToken, refresh |-> NoToken]

NewRow(k, t, access, refresh) ==
  [phase |-> "live", kind |-> k, tenant |-> t, app |-> access.app,
   status |-> Normal, access |-> access, refresh |-> refresh]

\* A handler invocation: what it serves, its next call, and its locals.
Idle == [at |-> "idle", tenant |-> None, id |-> None,
         row |-> Absent, token |-> NoToken]
Steps == {"idle", "auth.find", "auth.save", "auth.cache",
          "upd.token", "upd.func", "unauth.status", "unauth.del",
          "get.read", "get.backfill", "get.refresh", "get.cache", "get.fail",
          "create.insert", "edit.verify", "edit.save",
          "delete.row", "delete.del"}

-----------------------------------------------------------------------------
(* The repository: what each query of account.go does to the table *)

Live(id) == table[id].phase = "live"

\* GetByAuthorizerAppid
Authorizers(a) ==
  {id \in Account : Live(id) /\ table[id].kind = Platform /\ table[id].app = a}

\* The rows the index idx_accounts_app_id covers
ManualHolders(a) ==
  {id \in Account : /\ Live(id)
                    /\ table[id].kind = Manual
                    /\ table[id].status \in {NotConnected, Normal}
                    /\ table[id].app = a}

\* Update: every column but tenant_id and deleted_at comes from the copy.
UpdateRow(id, copy) ==
  table' = [table EXCEPT ![id] = [copy EXCEPT !.phase = table[id].phase,
                                              !.tenant = table[id].tenant]]

\* The unique index an UPDATE of row id to the given copy must respect
Unique(id, copy) ==
  copy.kind = Manual => ManualHolders(copy.app) \subseteq {id}

\* Mutant of UpdateToken: the new refresh token is not stored.
UpdateTokenForgetsRefresh(id, t) ==
  table' = IF Live(id)
           THEN [table EXCEPT ![id].access = t, ![id].status = Normal]
           ELSE table

\* UpdateToken
UpdateToken(id, t) ==
  table' = IF Live(id)
           THEN [table EXCEPT ![id].access = t, ![id].refresh = t,
                              ![id].status = Normal]
           ELSE table

\* UpdateAuthStatus
UpdateAuthStatus(id, s) ==
  table' = IF Live(id) THEN [table EXCEPT ![id].status = s] ELSE table

\* Create: the INSERT fails when a unique index already holds the app.
Insert(row, holders) ==
  /\ holders = {}
  /\ \E id \in Account : /\ table[id] = Absent
                         /\ table' = [table EXCEPT ![id] = row]
InsertFails(holders) ==
  /\ holders # {} \/ Faults \/ \A id \in Account : table[id] # Absent
  /\ UNCHANGED table

-----------------------------------------------------------------------------
(* Moving a handler invocation *)

At(r, step) == req[r].at = step
Begin(r, locals) == At(r, "idle") /\ req' = [req EXCEPT ![r] = locals]
Goto(r, step) == req' = [req EXCEPT ![r].at = step]
Finish(r) == req' = [req EXCEPT ![r] = Idle]

\* WeChat hands out a token for app a.
Issue(a) == /\ issued < MaxIssue
            /\ issued' = issued + 1
NewToken(a) == [app |-> a, seq |-> issued + 1]

Fresh(t) == t # NoToken /\ t.seq > expired

-----------------------------------------------------------------------------
(* GeneratePreAuthURL and the callback "authorized" *)

GeneratePreAuthURL(t) ==
  /\ preAuth' = preAuth \cup {t}
  /\ UNCHANGED <<table, cache, issued, expired, req>>

\* HandleAuthorized up to resolveTenantFromPreAuth; with an unknown or
\* expired code the handler returns before it changes anything.
HandleAuthorized(r, a, t) ==
  /\ t \in preAuth
  /\ Issue(a)
  /\ Begin(r, [Idle EXCEPT !.at = "auth.find", !.tenant = t, !.token = NewToken(a)])
  /\ UNCHANGED <<table, cache, preAuth, expired>>

FindAuthorized(r) ==
  /\ At(r, "auth.find")
  /\ \/ \E id \in Authorizers(req[r].token.app) :
          req' = [req EXCEPT ![r].at = "auth.save", ![r].id = id,
                             ![r].row = table[id]]
     \/ /\ Authorizers(req[r].token.app) = {} \/ Faults
        /\ Goto(r, "auth.save")
  /\ UNCHANGED <<table, cache, preAuth, issued, expired>>

\* The row read is written back whole, with the new tokens.
Reauthorize(r) ==
  /\ At(r, "auth.save")
  /\ req[r].id # None
  /\ \/ /\ Live(req[r].id)
        /\ UpdateRow(req[r].id, [req[r].row EXCEPT !.access = req[r].token,
                                                   !.refresh = req[r].token,
                                                   !.status = Normal])
        /\ Goto(r, "auth.cache")
     \/ /\ ~Live(req[r].id) \/ Faults
        /\ Finish(r)
        /\ UNCHANGED table
  /\ UNCHANGED <<cache, preAuth, issued, expired>>

\* A row created here is not cached: existing is nil.
CreateAuthorized(r) ==
  /\ At(r, "auth.save")
  /\ req[r].id = None
  /\ LET holders == Authorizers(req[r].token.app) IN
     \/ Insert(NewRow(Platform, req[r].tenant, req[r].token, req[r].token), holders)
     \/ InsertFails(holders)
  /\ Finish(r)
  /\ UNCHANGED <<cache, preAuth, issued, expired>>

SetCache(r, step) ==
  /\ At(r, step)
  /\ \/ cache' = [cache EXCEPT ![req[r].id] = req[r].token]
     \/ Faults /\ UNCHANGED cache
  /\ Finish(r)
  /\ UNCHANGED <<table, preAuth, issued, expired>>

CacheAuthorized(r) == SetCache(r, "auth.cache")

-----------------------------------------------------------------------------
(* The callback "updateauthorized" *)

HandleUpdateAuthorized(r, a) ==
  /\ Issue(a)
  /\ \E id \in Authorizers(a) :
       Begin(r, [Idle EXCEPT !.at = "upd.token", !.id = id,
                             !.row = table[id], !.token = NewToken(a)])
  /\ UNCHANGED <<table, cache, preAuth, expired>>

StoreUpdated(r) ==
  /\ At(r, "upd.token")
  /\ \/ UpdateToken(req[r].id, req[r].token) /\ Goto(r, "upd.func")
     \/ Faults /\ Finish(r) /\ UNCHANGED table
  /\ UNCHANGED <<cache, preAuth, issued, expired>>

\* Mutant of StoreFuncInfo: no "deleted_at IS NULL" in the UPDATE.
StoreFuncInfoUnfiltered(r) ==
  /\ At(r, "upd.func")
  /\ UpdateRow(req[r].id, req[r].row)
  /\ Finish(r)
  /\ UNCHANGED <<cache, preAuth, issued, expired>>

\* func_info is saved with the row as it was read, older tokens included.
StoreFuncInfo(r) ==
  /\ At(r, "upd.func")
  /\ \/ Live(req[r].id) /\ UpdateRow(req[r].id, req[r].row)
     \/ (~Live(req[r].id) \/ Faults) /\ UNCHANGED table
  /\ Finish(r)
  /\ UNCHANGED <<cache, preAuth, issued, expired>>

-----------------------------------------------------------------------------
(* The callback "unauthorized" *)

HandleUnauthorized(r, a) ==
  /\ \E id \in Authorizers(a) :
       Begin(r, [Idle EXCEPT !.at = "unauth.status", !.id = id])
  /\ UNCHANGED <<table, cache, preAuth, issued, expired>>

MarkRevoked(r) ==
  /\ At(r, "unauth.status")
  /\ \/ UpdateAuthStatus(req[r].id, Revoked)
     \/ Faults /\ UNCHANGED table
  /\ Goto(r, "unauth.del")
  /\ UNCHANGED <<cache, preAuth, issued, expired>>

DelCache(r, step) ==
  /\ At(r, step)
  /\ \/ cache' = [cache EXCEPT ![req[r].id] = NoToken]
     \/ Faults /\ UNCHANGED cache
  /\ Finish(r)
  /\ UNCHANGED <<table, preAuth, issued, expired>>

DropRevoked(r) == DelCache(r, "unauth.del")

-----------------------------------------------------------------------------
(* GetAuthorizerAccessToken: cache, then table, then refresh.  An exported   *)
(* method of the service that only tests call so far.                        *)

\* A hit returns at once and changes nothing; a failed read is a miss.
GetAuthorizerAccessToken(r, id) ==
  /\ cache[id] = NoToken \/ Faults
  /\ Begin(r, [Idle EXCEPT !.at = "get.read", !.id = id])
  /\ UNCHANGED <<table, cache, preAuth, issued, expired>>

\* GetByID; auth_status is not looked at.
ReadAccount(r) ==
  /\ At(r, "get.read")
  /\ LET row == table[req[r].id] IN
     \/ /\ ~Live(req[r].id) \/ Faults \/ (~Fresh(row.access) /\ row.refresh = NoToken)
        /\ Finish(r)
     \/ /\ Live(req[r].id)
        /\ Fresh(row.access)
        /\ req' = [req EXCEPT ![r].at = "get.backfill", ![r].token = row.access]
     \/ /\ Live(req[r].id)
        /\ ~Fresh(row.access)
        /\ row.refresh # NoToken
        /\ req' = [req EXCEPT ![r].at = "get.refresh", ![r].row = row]
  /\ UNCHANGED <<table, cache, preAuth, issued, expired>>

Backfill(r) == SetCache(r, "get.backfill")

\* refreshAuthorizerToken: a new pair is obtained and stored.
RefreshAuthorizerToken(r) ==
  /\ At(r, "get.refresh")
  /\ \/ /\ Issue(req[r].row.app)
        /\ LET t == NewToken(req[r].row.app) IN
           \/ /\ UpdateToken(req[r].id, t)
              /\ req' = [req EXCEPT ![r].at = "get.cache", ![r].token = t,
                                    ![r].row = Absent]
           \/ /\ Faults
              /\ Goto(r, "get.fail")
              /\ UNCHANGED table
     \/ Faults /\ Finish(r) /\ UNCHANGED <<table, issued>>
  /\ UNCHANGED <<cache, preAuth, expired>>

CacheRefreshed(r) == SetCache(r, "get.cache")

MarkExpired(r) ==
  /\ At(r, "get.fail")
  /\ \/ UpdateAuthStatus(req[r].id, TokenExpired)
     \/ UNCHANGED table
  /\ Finish(r)
  /\ UNCHANGED <<cache, preAuth, issued, expired>>

-----------------------------------------------------------------------------
(* The account handlers of the admin API *)

\* Create up to FetchManualAccessToken: the uniqueness check sees only the
\* caller's own tenant.
CreateManual(r, t, a) ==
  /\ \A id \in ManualHolders(a) : table[id].tenant # t
  /\ Issue(a)
  /\ Begin(r, [Idle EXCEPT !.at = "create.insert", !.tenant = t, !.token = NewToken(a)])
  /\ UNCHANGED <<table, cache, preAuth, expired>>

InsertManual(r) ==
  /\ At(r, "create.insert")
  /\ LET holders == ManualHolders(req[r].token.app) IN
     \/ Insert(NewRow(Manual, req[r].tenant, req[r].token, NoToken), holders)
     \/ InsertFails(holders)
  /\ Finish(r)
  /\ UNCHANGED <<cache, preAuth, issued, expired>>

\* Update up to the tenant check.  With new credentials, which only a manual
\* account accepts, the handler goes on to verify them.
EditAccount(r, id, t) ==
  /\ Live(id)
  /\ table[id].tenant = t
  /\ \E next \in {"edit.save"} \cup (IF table[id].kind = Manual THEN {"edit.verify"} ELSE {}) :
       Begin(r, [Idle EXCEPT !.at = next, !.tenant = t, !.id = id, !.row = table[id]])
  /\ UNCHANGED <<table, cache, preAuth, issued, expired>>

VerifyCredentials(r) ==
  /\ At(r, "edit.verify")
  /\ \/ \E a \in App :
          /\ a # req[r].row.app =>
               \A id \in ManualHolders(a) :
                 table[id].tenant = req[r].tenant => id = req[r].id
          /\ Issue(a)
          /\ req' = [req EXCEPT ![r].at = "edit.save", ![r].row.app = a,
                                ![r].row.access = NewToken(a)]
     \/ Finish(r) /\ UNCHANGED issued
  /\ UNCHANGED <<table, cache, preAuth, expired>>

SaveEdit(r) ==
  /\ At(r, "edit.save")
  /\ \/ /\ Live(req[r].id)
        /\ Unique(req[r].id, req[r].row)
        /\ UpdateRow(req[r].id, req[r].row)
     \/ /\ ~Live(req[r].id) \/ ~Unique(req[r].id, req[r].row) \/ Faults
        /\ UNCHANGED table
  /\ Finish(r)
  /\ UNCHANGED <<cache, preAuth, issued, expired>>

\* Mutant of DeleteAccount: the tenant of the account is not compared.
DeleteAccountOfAnyone(r, id, t) ==
  /\ Live(id)
  /\ Begin(r, [Idle EXCEPT !.at = "delete.row", !.tenant = t, !.id = id])
  /\ UNCHANGED <<table, cache, preAuth, issued, expired>>

DeleteAccount(r, id, t) ==
  /\ Live(id)
  /\ table[id].tenant = t
  /\ Begin(r, [Idle EXCEPT !.at = "delete.row", !.tenant = t, !.id = id])
  /\ UNCHANGED <<table, cache, preAuth, issued, expired>>

SoftDelete(r) ==
  /\ At(r, "delete.row")
  /\ \/ /\ Live(req[r].id)
        /\ table' = [table EXCEPT ![req[r].id].phase = "deleted"]
        /\ Goto(r, "delete.del")
     \/ /\ ~Live(req[r].id) \/ Faults
        /\ Finish(r)
        /\ UNCHANGED table
  /\ UNCHANGED <<cache, preAuth, issued, expired>>

DropDeleted(r) == DelCache(r, "delete.del")

-----------------------------------------------------------------------------
(* The environment *)

\* Tokens expire in the order they were issued: all live for 7200 seconds.
TokenExpires ==
  /\ expired < issued
  /\ expired' = expired + 1
  /\ UNCHANGED <<table, cache, preAuth, issued, req>>

\* Mutant of CacheExpires: Set is given 0, which Redis takes for no expiry.
CacheExpiresNever(id) ==
  /\ cache[id] = NoToken
  /\ UNCHANGED vars

\* The TTL of a cached token runs out (Redis may also evict it earlier).
CacheExpires(id) ==
  /\ cache[id] # NoToken
  /\ cache' = [cache EXCEPT ![id] = NoToken]
  /\ UNCHANGED <<table, preAuth, issued, expired, req>>

PreAuthExpires(t) ==
  /\ t \in preAuth
  /\ preAuth' = preAuth \ {t}
  /\ UNCHANGED <<table, cache, issued, expired, req>>

\* The server process stops: what was in flight is never finished.
Crash ==
  /\ Faults
  /\ \E r \in Request : ~At(r, "idle")
  /\ req' = [r \in Request |-> Idle]
  /\ UNCHANGED <<table, cache, preAuth, issued, expired>>

-----------------------------------------------------------------------------
Init ==
  /\ table = [id \in Account |-> Absent]
  /\ cache = [id \in Account |-> NoToken]
  /\ preAuth = {}
  /\ issued = 0
  /\ expired = 0
  /\ req = [r \in Request |-> Idle]

\* A request arrives.
Arrive(r) ==
  \/ \E a \in App, t \in Tenant : HandleAuthorized(r, a, t) \/ CreateManual(r, t, a)
  \/ \E a \in App : HandleUpdateAuthorized(r, a) \/ HandleUnauthorized(r, a)
  \/ \E id \in Account : GetAuthorizerAccessToken(r, id)
  \/ \E id \in Account, t \in Tenant : EditAccount(r, id, t) \/ DeleteAccount(r, id, t)

\* A request in flight makes its next call.
Step(r) ==
  \/ FindAuthorized(r) \/ Reauthorize(r) \/ CreateAuthorized(r) \/ CacheAuthorized(r)
  \/ StoreUpdated(r) \/ StoreFuncInfo(r)
  \/ MarkRevoked(r) \/ DropRevoked(r)
  \/ ReadAccount(r) \/ Backfill(r)
  \/ RefreshAuthorizerToken(r) \/ CacheRefreshed(r) \/ MarkExpired(r)
  \/ InsertManual(r)
  \/ VerifyCredentials(r) \/ SaveEdit(r)
  \/ SoftDelete(r) \/ DropDeleted(r)

Environment ==
  \/ \E t \in Tenant : GeneratePreAuthURL(t) \/ PreAuthExpires(t)
  \/ \E id \in Account : CacheExpires(id)
  \/ TokenExpires
  \/ Crash

Next == Environment \/ \E r \in Request : Arrive(r) \/ Step(r)

Spec == Init /\ [][Next]_vars

\* A goroutine goes on to its next call, and Redis drops keys past their TTL.
Fairness == /\ \A r \in Request : WF_vars(Step(r))
            /\ \A id \in Account : WF_vars(CacheExpires(id))

FairSpec == Spec /\ Fairness

-----------------------------------------------------------------------------
(* Properties *)

Invocation ==
  [at: Steps, tenant: Tenant \cup {None}, id: Account \cup {None},
   row: Row \cup {Absent}, token: MaybeToken]

TypeOK ==
  /\ table \in [Account -> Row \cup {Absent}]
  /\ cache \in [Account -> MaybeToken]
  /\ preAuth \subseteq Tenant
  /\ issued \in 0 .. MaxIssue
  /\ expired \in 0 .. issued
  /\ req \in [Request -> Invocation]

\* A token cached for a platform account was issued to the app of that
\* account, and belongs to an account that exists: neither a callback, nor a
\* refresh, nor an edit running at the same time puts the token of one
\* account under the key of another.
CachedForItsApp ==
  \A id \in Account :
    cache[id] # NoToken =>
      /\ table[id] # Absent
      /\ table[id].kind = Platform => cache[id].app = table[id].app

\* However callbacks and edits interleave, an account changes hands never,
\* and only its own tenant deletes it: the tenant check made on the row read
\* first is still right when the DELETE runs.
OnlyOwnerDeletes ==
  [][\A id \in Account :
       Live(id) /\ table'[id].phase = "deleted" =>
         \E r \in Request : /\ req[r].at = "delete.row"
                            /\ req[r].id = id
                            /\ req[r].tenant = table[id].tenant]_vars

\* The account table as AccountLifecycle sees it: auth_status left out.
AccountOf(row) ==
  [phase |-> row.phase, kind |-> row.kind, tenant |-> row.tenant, app |-> row.app,
   access |-> row.access, refresh |-> row.refresh]

accountView == [id \in Account |-> AccountOf(table[id])]

Lifecycle == INSTANCE AccountLifecycle WITH
               account <- accountView, Absent <- AccountOf(Absent)

\* Stale copies of rows, lost races on the unique indexes, soft deletes and
\* crashes notwithstanding, the table behaves as AccountLifecycle says.
ImplementsLifecycle == Lifecycle!Spec

\* A deleted account's token leaves Redis for good: requests that were in
\* flight may still cache it, but no later one can, and keys expire.
DeletedEventuallyUncached ==
  \A id \in Account :
    table[id].phase = "deleted" ~> [](cache[id] = NoToken)

-----------------------------------------------------------------------------
(* The inductive invariant behind the theorems of AuthorizerTokensProofs *)

Credentialed(row) ==
  /\ row.access \in Token
  /\ row.access.app = row.app
  /\ row.refresh = IF row.kind = Platform THEN row.access ELSE NoToken
  /\ row.kind = Manual => row.status = Normal

RowsSound == \A id \in Account : table[id] # Absent => Credentialed(table[id])

\* No two live rows of one kind hold the same app.
OneRowPerApp ==
  \A i, j \in Account :
    /\ Live(i) /\ Live(j)
    /\ table[i].kind = table[j].kind
    /\ table[i].app = table[j].app
    => i = j

\* A copy held by a handler agrees with the row on what no statement changes.
CopyOf(row, id) ==
  /\ row \in Row /\ row.phase = "live" /\ Credentialed(row)
  /\ table[id] # Absent
  /\ row.kind = table[id].kind
  /\ row.tenant = table[id].tenant
  /\ row.kind = Platform => row.app = table[id].app

PlatformRow(id, a) ==
  table[id] # Absent /\ table[id].kind = Platform /\ table[id].app = a

\* What each handler may still rely on when it makes its next call.
RequestSound(q) ==
  /\ q.at \in {"auth.find", "auth.save", "create.insert"} =>
       q.token \in Token /\ q.tenant \in Tenant
  /\ q.at = "auth.find" => q.id = None
  /\ q.at = "auth.save" => q.id \in Account \cup {None}
  /\ q.at \notin {"idle", "auth.find", "auth.save", "create.insert"} => q.id \in Account
  /\ (q.at = "auth.save" /\ q.id # None) \/ q.at \in {"upd.token", "upd.func"} =>
       /\ CopyOf(q.row, q.id)
       /\ q.row.kind = Platform
       /\ q.token \in Token
       /\ q.token.app = q.row.app
  /\ q.at \in {"auth.cache", "get.cache"} =>
       q.token \in Token /\ PlatformRow(q.id, q.token.app)
  /\ q.at \in {"unauth.status", "unauth.del", "get.fail"} =>
       PlatformRow(q.id, table[q.id].app)
  /\ q.at = "get.refresh" =>
       q.row \in Row /\ PlatformRow(q.id, q.row.app)
  /\ q.at = "get.backfill" =>
       /\ q.token \in Token
       /\ table[q.id] # Absent
       /\ table[q.id].kind = Platform => q.token.app = table[q.id].app
  /\ q.at = "edit.verify" => q.row.kind = Manual
  /\ q.at \in {"edit.verify", "edit.save"} =>
       CopyOf(q.row, q.id) /\ q.row.tenant = q.tenant
  /\ q.at \in {"delete.row", "delete.del"} =>
       table[q.id] # Absent /\ table[q.id].tenant = q.tenant

RequestsSound == \A r \in Request : RequestSound(req[r])

\* Together: what concurrent handlers may rely on between two of their calls.
IInv == TypeOK /\ RowsSound /\ OneRowPerApp /\ CachedForItsApp /\ RequestsSound

-----------------------------------------------------------------------------
(* What a comment of the code says, and the code does not do *)

\* wechat.go, HandleUpdateAuthorized: "update the tokens and the permission
\* set": an account never goes back to tokens older than those it holds.
TokensNeverRevert ==
  [][\A id \in Account :
       table[id] # Absent => table'[id].access.seq >= table[id].access.seq]_vars
=============================================================================
