# Verification of weiyeston

TLA+ models of weiyeston, a platform for managing WeChat official accounts: a
Go server (gin, PostgreSQL through sqlx, Redis) and a React admin interface.
The models are checked with TLC on small instances; the theorems are proved
with TLAPS for every value of the constants.  Paths below are relative to the
repository.

## 1. The system

Every HTTP request and every WeChat callback runs in a goroutine of its own.
Handlers share nothing but PostgreSQL and Redis: the server takes no lock and,
with one statement per call, opens no transaction.  A handler typically reads
a row, decides on the copy, and writes the row back.  The hard behaviour of
this program is what may happen between two of these calls: another handler, a
failing call, the end of the process.

| Component | State | Operations | What is hard, and what makes it correct |
|---|---|---|---|
| WeChat accounts and authorizer tokens: `internal/service/wechat/wechat.go`, `internal/handler/api/account.go`, `internal/handler/wx/component.go`, `internal/repository/account` | table `wechat_accounts` with two partial unique indexes; Redis `authorizer_token:<id>`, `pre_auth:<code>` | callbacks authorized / updateauthorized / unauthorized; create, edit, delete; `GetAuthorizerAccessToken`, which only tests call | stale copies of rows written back, lost races on the indexes, cache and row out of step, revocation and deletion against requests in flight.  One live row per app; tokens stay with their account; only the owner deletes; a deleted account stays deleted |
| Component token and ticket: `wechat.go`, `internal/repository/ticket`, `cmd/server/main.go` | Redis `component_verify_ticket`, `component_access_token`, both with a TTL; table `component_verify_tickets`; the refresher goroutine and its ticker | ticket push, refresh on a miss, refresh by the ticker, start, stop, crash | two TTLs against a period, concurrent refreshes, cancellation, recovery after a restart.  The token never runs out; once lost it comes back; Stop stops |
| Sessions: `internal/handler/api/auth.go`, `internal/service/auth.go`, `internal/middleware/auth.go`, `web/admin/src/api/client.ts`, `AuthGuard.tsx` | Redis `refresh_token:<user>`, one per user; the pair in localStorage; `isRefreshing` and `failedQueue` of each tab | login, refresh with rotation, logout; the request and response interceptors, the check on page load, sign-out | calls that meet a 401 together, tabs that share the pair, a refresh in two Redis calls, lost answers.  A session that can be renewed is not lost; every call ends |
| Login limiter, registration, profile, passwords: `auth.go`, `internal/repository/tenant` | Redis `login_rate:<ip>`; table `tenants` | INCR and EXPIRE; register, update profile, change and reset a password | a counter that never gets its TTL; check and insert of a user name.  Five tries a minute, and a lock lifts unless its one EXPIRE was lost; a replaced password never comes back |
| Voting: `internal/handler/api/vote.go` | tables `votes`, `vote_options`, `vote_records`, two redundant counters | create, edit, delete a vote; submit a ballot | check and insert, several statements without a transaction, ignored errors.  Counters follow records; limits; no vote is lost |
| WeChat menu: `internal/handler/api/menu.go` | table `wechat_menus` | save draft, publish, delete draft | read, decide, write by id; no unique index.  Menus do not pile up, a publication is undone only by a request that could not know of it, a deleted menu stays deleted |
| Tenant administration and migrations: `internal/handler/api/admin.go`, `internal/repository/tenant`, `internal/database/migration.go` | table `tenants` | update of a row that was read; all migrations at every start | lost updates; a restart that undoes a decision.  Nobody has a status or role no administrator asked for |
| Materials and storage: `internal/handler/api/material.go`, `internal/storage`, `web/admin/src/pages/materials/List.tsx` | files and table `materials` | upload, delete, list by pages | a file and a row written one after the other; COUNT and SELECT apart.  An answered upload keeps its file; paging misses nothing |
| Storage settings: `internal/handler/api/settings.go`, `web/admin/src/pages/admin/Settings.tsx` | table `system_configs`; the form of each open page | read and write seven keys one by one | a failure half way, two administrators, masked and hidden secrets.  A save alone leaves what its page meant |
| Replies, CMS, quick news, templates: `reply.go`, `cms.go`, `news.go`, `template.go` | a table each | create, update, soft delete; the channel tree | write-back of stale rows; a tree that may lose branches.  What is hidden or deleted does not come back by itself |
| Legacy import: `tools/migrate/main.go` | the tables above, from an SQL Server database | eight steps of upserts; conversion of HTML | order of the steps against foreign keys, repeated runs beside a server, one recursive conversion |
| Rate limiter: `internal/middleware/ratelimit.go` | buckets in memory | allow, clean-up | a bucket removed while in use (no route installs it) |
| The rest: other middleware, configuration, routing, health, AI service, page editor | none that changes | | |

How they interact: the authorization URL and `refreshAuthorizerToken` need the
component token (`GetComponentAccessToken`; in AuthorizerTokens that call may
fail).  The ticket push and the account callbacks arrive through the same
endpoint.  All admin handlers sit behind the Auth middleware that SessionTokens
models; the browser client reaches every one of them through the interceptors.
The login limiter and the check of a user's status are steps of the same login
that SessionTokens takes as one.  The import writes into the tables the server
uses, and knows them only by their constraints.

## 2. Modules

| Module | Models | Proofs |
|---|---|---|
| `AccountLifecycle` | what the account table promises: bind, renew, unbind | |
| `AuthorizerTokens` | accounts, callbacks, reading and refreshing a token; implements AccountLifecycle | `AuthorizerTokensProofs` |
| `ComponentToken` | ticket, component token, refresher, restarts, time | `ComponentTokenProofs` |
| `SessionTokens` | one user's session between the server, the tabs of a browser and another browser | `SessionTokensProofs` |
| `BallotBox` | what the tables of a vote promise: offer, withdraw, cast, count | |
| `Voting` | votes, ballots and counters; implements BallotBox | `VotingProofs` |
| `Menu` | the custom menu of an account: drafts, publication, deletion | `MenuProofs` |
| `Tenants` | login limiter, registration, passwords, administrators, migrations | `TenantsProofs` |
| `Content` | channel tree, articles, templates, quick news, replies | `ContentProofs` |
| `Storage` | uploads, their files and rows, the list; storage settings | `StorageProofs` |
| `TipTap` | the conversion of HTML into TipTap blocks, as operators | |
| `Import` | the import of the legacy system beside the server; uses TipTap | |

Each `MC...` module extends one of these for TLC; the `.cfg` files give the
constants their values.  Definitions named "Mutant of ..." are plausible bugs
kept next to the operator they change; no specification uses them.

### AuthorizerTokens

`table` is `wechat_accounts` by primary key, `cache` the Redis keys
`authorizer_token:<id>`, `preAuth` the tenants with a live `pre_auth` key.
`req` holds the handler invocations in flight: the call each makes next, and
its locals (the row it read, the token it was given).  One action is one call
to PostgreSQL or Redis with everything the handler decides on its result.

| Code | Actions |
|---|---|
| `HandleAuthorized` | `HandleAuthorized`, `FindAuthorized`, `Reauthorize` or `CreateAuthorized`, `CacheAuthorized` |
| `HandleUpdateAuthorized` | `HandleUpdateAuthorized`, `StoreUpdated`, `StoreFuncInfo` |
| `HandleUnauthorized` | `HandleUnauthorized`, `MarkRevoked`, `DropRevoked` |
| `GetAuthorizerAccessToken`, `refreshAuthorizerToken` | `GetAuthorizerAccessToken`, `ReadAccount`, `Backfill`, `RefreshAuthorizerToken`, `CacheRefreshed`, `MarkExpired` |
| `AccountHandler.Create`, `Update`, `Delete` | `CreateManual`, `InsertManual`; `EditAccount`, `VerifyCredentials`, `SaveEdit`; `DeleteAccount`, `SoftDelete`, `DropDeleted` |

The fourth row is an exported method of the service that no handler calls so
far: its only callers are tests.  It is kept as an operation, since whoever
wants to call an account's API has to go through it, and what is checked and
proved covers it; every property is about the other rows as well, and no
property and no mutant rests on it alone.

A token is the app it was issued to and its number; the access and the refresh
token of one issue carry the same value.  Tokens expire in the order they were
issued (all live 7200 seconds), the cache loses a key at any time.  Names,
avatars and permission sets are left out; so are requests that change nothing.
The model starts from the first call that matters: a read joined to the
arrival of a request loses no interleaving, since nothing precedes it.

`AccountLifecycle` states the promise to readers of the table: an account is
bound by a tenant, renewed with tokens of its own app, unbound for good, and
no app is held twice.  `ImplementsLifecycle` maps the table by leaving
`auth_status` out.

### ComponentToken

Time is counted in units of five minutes: a ticket lives 3, a token 22, the
ticker fires every 20.  `Tick` lets a unit pass.  Three assumptions about time
are in its guards and nowhere else: a process in flight ends before a second
unit passes (`late`), the refresher takes up a tick within the unit, and the
ticker's channel holds one tick.  `mode` is the server process: it starts with
a refresh, is up, is stopping (context cancelled, handlers drained) or down.
Calls under a cancelled context fail; any other call fails at most `MaxFaults`
times in a behaviour.

### SessionTokens

One user, one browser with its tabs, and what another browser of the user asks
of the server: `elsewhere` is its pair, and whether Refresh has accepted it
(`LoginElsewhere`, `CheckElsewhere`, `RotateElsewhere`). `stored` is the
refresh token in Redis (0: none), `storage` the pair in localStorage (access
and refresh token of one issue share a number), `expired` the access tokens
past their time, `renewal` and `call` the tabs' refresh and API calls. The
server's Refresh takes two steps, `CheckRefreshToken` and `Rotate`; in the
browser a tab starts a renewal at a 401 (`Intercept`, `StartRenewal`) or on
page load (`Reload`), and ends it with `Renewed` or `RenewalFailed`, which
resend or reject the calls in the queue. A login is a call of its own kind
that may be sent at any time, signed in or not (no page redirects a signed-in
user away from the login form); one refused with 401 (`RefuseLogin`) meets the
same interceptor.  `CallLost` and `RenewalLost` are lost requests and answers
and a page that is closed too early (`Cut`); a renewal to which nothing comes
back stays "lost" for as long as it likes, since client.ts:67 sends it by the
global axios, which has no timeout.  `disturbed` is history: since the browser
was last signed out, an answer to a login or a renewal was lost, or two tokens
were asked for at once.  No action reads it.

### Voting

`vote`, `optionOf`, `records` and `count` are the three tables, and `Rows` the
rows of `vote_records` that a query selects, a set whose size the handlers and
the properties ask for; `submit` holds
the ballots in flight, `edit` the option lists being replaced, `faults` the
statements that failed (at most `MaxFaults`).  A submission reads the vote,
counts the voter's records, and per option inserts a record, adds one to the
option and one to the vote, each a statement of its own. `UpdateVote` writes
what its SQL writes: a status the request leaves out becomes a draft.
A limit of 0 stands for any that is not positive, which is no limit.  The
foreign key from records to options is `Referenced`: a DELETE of the options
of a vote fails as a whole when one of them has a record.

`BallotBox` states the promise to readers of the tables: a slip that was cast
stays and so does the option it names, the options of a vote are withdrawn
together and only before one has a slip, an id is given once, and the counters
grow by one, up to the slips. `ImplementsBallotBox` maps `vote_options` to what
is offered, `Rows` to the slips, and leaves the requests in flight out; a
failing statement is a stutter there.

### Menu

`menus` is the part of `wechat_menus` that belongs to one account: every query
names the account, so one stands for all.  A handler is a query (`SaveDraft`,
`Publish`, `DeleteDraft`, each through `GetByAccountID`) and a write
(`Create`, `Update`, `SoftDelete`) with the copy kept in `req` between them.
The ORDER BY of the query is `Precedes`.  `now` counts the writes and stands
for the time in `updated_at`, which SQL and a trigger of the table set in each
of them; a menu_json is the number of the request that sent it.

### Tenants

`tenants` is the table, `login_rate` the counter of one client address and
its TTL ("none" yet, "set", or "lost": the EXPIRE failed, or the process died
before it), `server` the process: down, in the first or the second
of the two migrations that write rows, or up.  Register, ChangePassword,
ResetPassword and UpdateUser take two steps (a query, then `Create`,
`UpdatePassword` or `Update`), Login up to four (`Login` is INCR, `SetLimit`
EXPIRE, `CheckLogin`, `RecordLogin`); UpdateProfile is one statement. `Update`
writes profile, status and role of the copy but not the password, as the SQL
of `Repo.Update` does.  A password is the number of the request that sent it.
`history` and `retired` keep what was asked for and which passwords each
tenant had; no action reads them.

### Content

`channels` is `cms_channels`; `posts` has the rows of the three other tables.
Channels and articles are written by one statement per request.  UpdateNews and
ReplyHandler.Update read the row (`UpdateNews`, `UpdateReply`), merge what was
sent, and write the copy back (`WriteBack`) where the row is not deleted. A
negative status or level, for which -1 stands, keeps the old one in the updates
of articles and channels (`UnlessNegative`). The recursive query is
`GetChannelTree`, the answer built from its rows `buildChannelTree`; both, and
the `Line` of a channel's ancestors, are the least set closed under a step of
the code's recursion, which is what WITH RECURSIVE means and what a proof can
use.  CMSRepoDB in handler/api/cms.go is what the router installs;
`internal/repository/cms` is a copy nobody uses, whose UpdateChannel would also
write parent_id.

### Storage

Two halves that share the server and its failures.  An upload stores a file
(`LocalCreate` and `LocalCopy`, or `S3Put`), inserts the row (`Create`) and on
an error deletes the file (`Clean`); an error may be reported for an INSERT
that took place.  `reader` is a client that goes through the pages of the list,
each a COUNT and a SELECT; no two materials have the same `created_at`, whose
order the database would be free to choose.  A settings page reads its keys one
by one (`getConfigValue`), shows the access key masked and no secret (`Shown`),
is filled in and saved (`Save`), and its values are written one by one in any
order, as Go goes through a map (`upsertConfig`, `upsertFails`).  `base` and
`alone` of a page are history.  `driver` is chosen at the start from the
configuration file, which the settings in the table never reach.

### TipTap and Import

`TipTap` has the functions of main.go that turn parsed HTML into blocks, one
recursive operator each; `TextsKept` says what becomes of each text from the
path of tags above it alone.  `Import` is the loop over the eight steps: the
rows of a step come in any order, an upsert that a foreign key refuses ends
the run, and the server creates, updates and deletes rows in between.  Of a
row the model has its id, its reference, who wrote it last and whether it is
deleted.  Queries of the old database are taken to succeed.

## 3. What is checked

`pass` runs end without error; `violation` runs show a disagreement between
the code and a comment in it (section 5).

| Run | Instance | Shows |
|---|---|---|
| `authorizer_races` | 2 rows, 2 apps, 1 tenant, 2 handlers, 2 tokens, failures and crashes | `IInv`: no key ever holds a token of another account, one live row per app, copies agree with their rows on what never changes; `ImplementsLifecycle` |
| `authorizer_liveness` | 1 row, 1 app, 2 tenants, 2 handlers, fairness | `OnlyOwnerDeletes`, `DeletedEventuallyUncached` |
| `component` | short times, 2 handlers, 2 failures or crashes, fairness | `CInv`, `TokenReady`, `RefresherStops`, `TokenRecovers` |
| `session_tabs` | 2 tabs with 2 calls each, another browser, 2 logins at any time, 1 expiry, losses at any step | `SessionInv`, `QueueServed`, `SessionKept` |
| `session_answers` | 1 tab with 3 calls, another browser, 1 login, 2 expiries, losses at any step, fairness | `CallsAnswered` |
| `voting` | 2 votes, 2 options, a voter with 2 submissions at once, 2 editors, a failing statement | `VInv`, `CountersFollowRecords`, `RecordsLimited`, `ImplementsBallotBox` |
| `menu` | 4 menus, 3 requests at once, 6 in all | `MInv`, `MenusBounded`, `PublicationKept` (and in it `DeletedStays`) |
| `tenants` | 2 users, admin among them, 2 requests at once, 3 in all, 2 starts, 1 failure, limit 2, fairness | `TInv`, `OnlyAdministratorsDecide`, `PasswordsRetired`, `LoginsLimited`, `UpdateChangesOnlyAsked`, `LockLifts` |
| `content` | 3 channels, 2 accounts, an article, a news item, a rule, 2 updates at once, 5 requests | `PostsSound`, `TreeWhole`, `LostForGood`, `HiddenStays`, `DeletedStay` |
| `storage` | 3 files on pages of 1, 2 uploads, 2 settings pages, 2 failures or crashes, 4 requests | `UploadsSound`, `FilesCounted`, `PagesComplete`, `SavesWhole`, `SecretKept` |
| `import` | 2 ids, 2 runs, 1 write of the server, 1 failure, 35 small databases and 1161 articles | `Imported`, `ArticlesKeepText`, `NewsBlock`, `StopsForCause`, `DeletedStay` |
| `tokens_revert` | 1 row, 1 handler, 3 tokens | violation of `TokensNeverRevert` |

Why the bounds are enough.  The races of this code are between two handlers on
one row (or two rows that want one app): two requests, two rows and two apps
are the least that has every pair, and the proofs cover the rest for
AuthorizerTokens, ComponentToken, SessionTokens, Voting, Menu, Tenants, Content
and Storage.  `MaxIssue` bounds the tokens WeChat hands out: two suffice for an
old and a new one; the violation run uses three.  In SessionTokens no browser
makes a new call after that many pairs, but what is under way goes on: with
two, a login, an expiry, renewals of both tabs at once and a second login or
the other browser's follow one another.  In `component` a ticket lives 3 units,
a token 6 and the period is 4: that keeps the order of the code's 3, 22 and 20,
and the theorems hold for all times in that order.  Three calls of a tab make
one that renews and two that wait, which the liveness run has, and the theorem
`QueueStaysServed` takes any number; two tabs make every race for localStorage.
In Voting an option list has at most two entries and edits are bounded by
`MaxEdit`: one creates a vote, the other edits it or creates its rival for the
options.  One voter with two submissions reaches what two voters reach and the
race for the limit besides; the limit is 2, and votes without one are covered
by the proofs. In Menu three requests at once can each create a row and three
more find them; six requests create four rows at most.  In Tenants three
requests make a registration, a decision and an update that overlaps one of
them; a limit of two is reached with one try to spare. In Content three
channels make a line with a middle, which is deleted above or below a live one.
In Storage a third file with pages of one moves a row across two pages; two
failures make an INSERT fail and its clean-up with it. In Import two ids give a
channel and its parent, or a keyword and a default reply that share an id; a
second run finds what the first and the server left.  The HTML of an article is
up to three elements deep (four for lists and marks) around one text, and two
deep around eight short sequences of texts, marks, breaks and a nested list.
Behaviours of SessionTokens, Voting, Menu, Tenants, Content, Storage and Import
end when logins, expiries, edits, requests or runs are used up, so their runs
do not look for deadlock; the others do.

Fairness.  A goroutine that has made a call makes the next one, Redis drops
keys past their TTL, time passes, and docker-compose restarts the server
(`restart: unless-stopped`, docker-compose.yml:72).  In Tenants these are
`WF_vars(LimitLifted)` and `WF_vars(Calls(r))` for each request.  The server
answers what reaches it and a browser handles the answers it gets (`Renew`,
`Answer`); a call that is lost ends with the client's 30 seconds, but nothing
is assumed to end a renewal that is lost, so `CallsAnswered` names it as the
one exception.  Nothing is assumed about requests arriving, pushes, logins or
failures stopping on their own; a behaviour has at most `MaxFaults` failures
and crashes.

## 4. What is proved

All proofs are checked by tlapm from nothing, with the assumptions named in
the modules: identifiers of different kinds differ, bounds are naturals, sets
that are counted (the options, voters and slots of Voting, the menus and
requests of Menu, the keys and requests of Storage) are finite, and for
ComponentToken that a token outlives the period by more than one unit
(`TokenTTL > Interval + 1`; 22 and 20 in the code).

**AuthorizerTokensProofs**, for any number of rows, apps, tenants and
handlers.  `CachedForItsApp` is not inductive: whether the token a handler is
about to cache fits the row depends on what the handler read several calls
ago.  `IInv` adds, per step of a handler, what it may still rely on
(`RequestSound`), and what every row satisfies (`RowsSound`).  The copy a
handler holds may be stale in its tokens and status but agrees with the row on
kind and tenant, and for platform accounts on the app: no statement changes
those.  From `IInv` follow `CacheNeverMixesAccounts`, `OwnerDeletes` and the
refinement `AccountsFollowLifecycle`: each table write is a Bind, Renew or
Unbind, everything else a stutter.

**ComponentTokenProofs.**  `TokenNeverMissing`: as long as nothing has failed,
a server that is up and has saved a ticket has a token.  `CInv` relates the
token's TTL to the ticker (`TokenCovered`), to where the refresher is, and to
the one case in which a refresh finds no ticket (`MissSound`, `TicketKept`).
Its part `Sound` is claimed only while `faults = 0`: one lost refresh may
leave a gap, from which `TokenRecovers` promises the way back.
`RefresherStopsForGood` needs only the types and holds with failures as well.

**VotingProofs.**  `VInv`: a counter above zero is backed by a record, a
submission about to count has written its record, and an option with a record
exists.  From it `CountedVotesStay`: the foreign key keeps every option that
was voted for, whatever administrators do.  `CountersKeepUp` compares a counter
with the number of rows.  A statement of a submission adds a row, moves the
submission into the set that has yet to count (`Uncounted`, `Untotalled`), out
of it again, or fails, and each of these changes one cardinality by one
(`CInv`); that an option or vote with rows cannot be deleted and made anew,
which would reset its counter, comes from `VInv`.  `VotesFollowBallotBox` is
the refinement, one case per statement.  The INSERT of a record is a Cast whose
number is new because the rows of one voter on one option are numbered without
gaps (`RowAdded`).  The DELETE of a vote's options is a Withdraw since the
foreign key lets it through only when none has a row (`NoSlips`), and then its
reset of the counters changes nothing, as a counter above zero would have a row
(`CounterBacked`).  A submission that counts is itself in `Uncounted` or
`Untotalled`, so by `CInv` the counter is still below the slips.  For the limit
the rows alone are not inductive: a submission that was let through has the
rest of its options to write whatever others write meanwhile.  `LInv` gives
each such submission its `Pending` rows and bounds rows and pending rows
together; the count that lets a submission through is below the limit, and it
and the other slots have at most `choices` pending rows each.
`RecordsStayBelow` says so for the largest limit any edit may give;
`RecordsStayLimited` is `RecordsLimited` itself where an edit cannot change the
limits (one positive value in `MaxVotes` and in `MaxChoices`, as in the run):
an administrator who lowers `max_votes` leaves voters above it.

**MenuProofs.**  `MInv`: what a handler knows of the menu it read.  A copy has
the `updated_at` of the row it was read from, and a write gives the row a
larger one; so a copy as new as its row has its status (`CopySound`).  From it
`PublicationsKept`: whoever takes a publication back had read the menu before
it.  `MenusBounded` is part of the invariant: a handler goes on to create a
menu only when none is live, so live menus and pending creations together
never outnumber the requests that run at once.  `DeletedForGood` rests on the
condition `deleted_at IS NULL` of both writes.

**TenantsProofs.**  `TInv` is inductive for any number of users, requests,
starts and failures.  Its core is `CopySound`: the copy an administrator's
update holds has decided values only (`Decided`), and as long as no other
write came, which `updated_at` tells, differs from its row only where someone
asked for it (`Extends`); so `UpdatesChangeOnlyAsked`, and for stale copies
still `AdministratorsDecide`.  A start writes only the row named admin, which
is there before any request (`ServerSound`) and so was never registered.
`PasswordsStayRetired` needs that a password on its way to the table is new
and on its way once (`PasswordNew`).  `LoginsStayLimited`: logins that passed
never outnumber the counter, and whoever made the counter is still on the way
to its EXPIRE, or that has succeeded, or it was lost.

**SessionTokensProofs**, for any number of tabs, calls, logins and renewals,
any doings of another browser, and whatever is lost.  `SessionInv` is inductive
and holds of every behaviour (`InvariantHolds`): unless the session is
disturbed, the browser's pair is the one Redis looks for, or the other browser
has that, or there is none.  Neither client.ts nor the server keeps a session
from being disturbed: of two tabs that renew at once one loses what the other
got (section 5), a login beside a renewal may be answered before it, and a
rotation whose answer is lost leaves a pair nobody has.  `disturbed` names
these ways; the invariant says that there is no other, and that the next
sign-out, forced or not, puts an end to the damage, so that the login after it
starts afresh.  That the pairs agree between renewals (`PairsAgree`) is not
inductive: `RenewalSound` says what a renewal may rely on at each of its steps,
`LoginSound` what an accepted login may.  A renewal that is refused gave a
token that is not the stored one; as the browser still holds that token, the
stored one is missing or the other browser's and newer, which is
`SessionsKept`.  One tab with one login is never disturbed as long as nothing
is lost (`OneTabUndisturbed`: `isRefreshing` keeps its renewals apart, and
before the login it has done nothing), whenever its calls and the login happen.
`QueueStaysServed`: a call joins the queue only beside a renewal of its tab,
every end of a renewal empties the queue, and a call that was sent again with
its `_retry` mark never waits twice.

**ContentProofs.**  `PostsSound` is inductive as it stands: a copy as new as
its row has the row's status or the one it was sent, and an article that a
channel shows has its time, since only a saved template, with no channel, is
shown without one.  `HiddenUntilAsked` and
`DeletedForGood` follow action by action.  Of the channels, `LinesEnd`: every
line ends in a root.  It is inductive because a channel's parent is given once,
before anything refers to the channel, so a new line is the parent's with one
more channel and the old ones do not change.  No induction over a line is
needed: what holds of the least closed set is shown by naming a closed set that
has the property.  In `TreesStayWhole` a live line that ends in a root is in
the tree, since the channels of the line outside it would be closed and hold no
root; `LostStaysLost` compares the trees before and after a step.

**StorageProofs.**  `UploadsSound` is inductive; that a key has no row before
its insert and belongs to one upload keeps every other upload's deletion away
from an answered file.  `SavesWhole` is not inductive: `PagesSound` says for a
page no other page's save has overlapped what it has read, shown and still to
write, at each of its calls.  `SecretStays` holds step by step, since `Save`
leaves an empty secret out.  `FilesStayCounted` counts stray and broken files
against failures; the invariant `FilesAccounted` pays at once for an insert
that reported an error, as its file may be deleted under a row later.
`PagesStayComplete` rests on `ReaderSound`: what a client has not seen of what
it wants lies behind the pages it has read, and a new material, which comes
first in the list, only moves the others back.

Only model-checked: liveness (`DeletedEventuallyUncached`, `TokenRecovers`,
`CallsAnswered`, `LockLifts`), which is out of the prover's reach; of
`CallsAnswered` the safety half, that no call is left in a queue, is
`QueueStaysServed`.  Import and TipTap, whose conversion is a set of recursive
operators over HTML, of which the prover knows nothing; with them `Imported`,
`ArticlesKeepText`, `NewsBlock`, and the import's `StopsForCause` and
`DeletedStay`.

## 5. Where code and comments disagree

| Run | The comment | The code |
|---|---|---|
| `tokens_revert` | wechat.go:421: update the tokens and the permission set | the row read before is saved over the new tokens (:435) |

The models show more that no run is kept for.

Accounts.  A revoked account (wechat.go:458: status 3, authorization
withdrawn) would go back to status 1 with the next `refreshAuthorizerToken`
(repository/account/account.go:297), and a `GetAuthorizerAccessToken` after a
revocation would put its token back into Redis, since wechat.go:224 does not
look at `auth_status` (the comment at :461 says the cache is cleared); so far
only tests call them.  Editing the AppId of a manual
account leaves the former app's token in Redis (handler/api/account.go:616);
Delete clears it.  Handlers and the refresher refresh the component token at
the same time: `mu` and `refreshing` (wechat.go:35, "avoid concurrent
refreshes") are never used.  A refresh token that `refreshAuthorizerToken` has
just got would be lost if the process stopped before wechat.go:256 stores it.

Sessions and users. Of two tabs that renew at once the losing one removes the
pair the other has stored (client.ts:83; :38 says a 401 refreshes the token);
a login in another browser ends this one's session. A sign-out during a
renewal is undone when the new pair arrives (client.ts:74). A refresh past its
check stores a new token after a logout (handler/api/auth.go:289, against
service/auth.go:82), and Refresh never looks at the user's status, so a
suspended user goes on. UpdateProfile writes NULL where a field is left out
(auth.go:453). A restart approves a suspended admin again (migration 000006).

Voting and menu.  The limit of 000001_init.up.sql:490 can be passed, as count
and insert are not one step (vote.go:647, :674).  UpdateVote is to delete the
old options (vote.go:433); once a vote is cast the DELETE fails, the error is
ignored (:435), and both sets remain.  `total_votes`, the "number of voters"
of 000001_init.up.sql:493, grows by one per option and submission
(vote.go:812).  DeleteDraft, where "only drafts may be deleted" (menu.go:397),
deletes a menu published after the check; two first drafts saved at once
become two menus (menu.go:243, "is there a draft already").

Content.  An update that leaves the level of a channel out sets it to 0.  An
update of a saved template with a negative status keeps the status and makes
it an article (cms.go:871, :872): shown, and without a time of publication.  A
channel may be created under a channel of another account and is then shown in
that account's tree, or under a deleted one and is never shown.  A stale
update shows a hidden news item again.

Storage.  The server serves `./uploads` whatever `local_path` says
(router.go:412); the driver never follows the settings in the table
(router.go:317).  A save writes the masked access key over the real one unless
it is typed again, and a save from the local tab empties the S3 fields but the
secret.  A setting that cannot be read is shown empty and then saved so.  An
INSERT that takes place but reports an error has its file deleted under the
live row.  A deleted material keeps its file.  That names of files differ
rests on the nanosecond of the clock.

Import.  Step 2 names a column `status` that `wechat_accounts` does not have
(main.go:375), so it fails whenever the legacy account exists; content rows
name account 25, the id of the tenant (main.go:35), whatever the account's id
is; news come before the channels they refer to (main.go:88); default replies
take the ids of keywords.  "Idempotent UPSERTs so it can be re-run safely"
(main.go:9): a second run writes over what the server changed since and over
rows the server created with ids the sequences, which are not advanced, gave
again; `Imported` and `NewsBlock` name these exceptions.  HTML without any
block becomes `null` rather than `[]`; a nested list's text appears twice;
elements of a quotation other than p, and texts of a list outside li, are
dropped; a mark outside any block is lost.

## 6. Not modelled, and the plan

Left out for good: stateless middleware, configuration, routing, health and
server information, the AI service and the page editor keep no state that
changes; no route installs the in-memory rate limiter, so no behaviour of the
server depends on it.  Within the modelled parts: encryption and signatures of
callbacks (the handler leaves them to an SDK that is a stub), the format of
tokens and keys, searches and the lists but that of materials, slugs and
texts, how WeChat treats an older refresh
token or ticket.

What could follow: the control of Import apart from its conversion, so that it
can be proved about.
