---------------------------- MODULE SessionTokens ----------------------------
(***************************************************************************)
(* The session of one user: the token pair of the admin API                *)
(* (internal/handler/api/auth.go, internal/service/auth.go), and the       *)
(* browser tabs that share it through localStorage and renew it when a     *)
(* call is answered 401 (web/admin/src/api/client.ts,                      *)
(* components/common/AuthGuard.tsx).                                       *)
(*                                                                         *)
(* An access token and a refresh token are issued together: one number     *)
(* stands for the pair, 0 for none.  Redis keeps one refresh token per     *)
(* user.  A tab runs one handler at a time, the server any number; each    *)
(* tab guards its own refresh only, by isRefreshing.  Of another browser   *)
(* of the user the model has its pair, and what it asks of the server.     *)
(***************************************************************************)
EXTENDS Naturals, FiniteSets

CONSTANTS
  Tab,        \* tabs of the browser
  Call,       \* API calls a tab has in flight at once
  MaxLogin,   \* bound on the logins tried
  MaxExpire,  \* bound on the access tokens that expire
  MaxIssue,   \* no browser makes a call once this many pairs were issued
  Faults      \* TRUE when answers may be lost and pages closed at any time

ASSUME BoundAssumption ==
  MaxLogin \in Nat /\ MaxExpire \in Nat /\ MaxIssue \in Nat /\ Faults \in BOOLEAN

VARIABLES
  stored,   \* refresh_token:<user_id> in Redis
  issued,   \* pairs issued so far
  expired,  \* the access tokens 1 .. expired have expired
  storage,  \* the pair in localStorage
  renewal,  \* the POST /auth/refresh of each tab
  call,     \* the API calls of each tab
  logins,   \* logins tried so far
  elsewhere, \* the pair of another browser, and whether Refresh has accepted it
  disturbed \* history: an answer was lost or two tokens were asked for at once
            \* since the browser was last signed out

vars == <<stored, issued, expired, storage, renewal, call, logins, elsewhere, disturbed>>

\* A renewal: where it is, whether a call or AuthGuard waits for it, the
\* refresh token it gave, the pair it got.
NoRenewal == [at |-> "none", by |-> "call", given |-> 0, pair |-> 0]

Renewal(by) == [NoRenewal EXCEPT !.at = "get", !.by = by, !.given = storage]

\* A call: where it is, the access token it carries (that of a login is not
\* looked at), its _retry mark, and whether it is a login.
NoCall == [at |-> "idle", token |-> 0, retry |-> FALSE, login |-> FALSE]

isRefreshing(t) == renewal[t].at # "none"

-----------------------------------------------------------------------------
(* The server *)

\* Refresh: the token must be the one in Redis.
CheckRefreshToken(t) ==
  /\ renewal[t].at = "get"
  /\ LET ok == stored # 0 /\ renewal[t].given = stored IN
     renewal' = [renewal EXCEPT ![t].at = IF ok THEN "set" ELSE "failed"]
  /\ UNCHANGED <<stored, issued, expired, storage, call, logins, elsewhere>>

\* For Login and Refresh: the new token replaces whatever is there by now.
GenerateRefreshToken ==
  /\ issued' = issued + 1
  /\ stored' = issued'

\* The rest of Refresh.
Rotate(t) ==
  /\ renewal[t].at = "set"
  /\ GenerateRefreshToken
  /\ renewal' = [renewal EXCEPT ![t].at = "done", ![t].pair = issued']
  /\ UNCHANGED <<expired, storage, call, logins, elsewhere>>

\* Login, with the right password of an active account.
AcceptLogin(t, c) ==
  /\ call[t][c].at = "sent" /\ call[t][c].login
  /\ GenerateRefreshToken
  /\ call' = [call EXCEPT ![t][c].at = "accepted", ![t][c].token = issued']
  /\ UNCHANGED <<expired, storage, renewal, logins, elsewhere>>

\* Logout, called with a valid access token (no page of the admin calls it).
Logout ==
  /\ stored # 0
  /\ issued > expired
  /\ stored' = 0
  /\ UNCHANGED <<issued, expired, storage, renewal, call, logins, elsewhere>>

\* The refresh token expires after seven days, every access token issued with
\* or before it within two hours.
StoredExpires ==
  /\ stored # 0
  /\ expired = issued
  /\ stored' = 0
  /\ UNCHANGED <<issued, expired, storage, renewal, call, logins, elsewhere>>

AccessExpires ==
  /\ expired < issued
  /\ expired < MaxExpire
  /\ expired' = expired + 1
  /\ UNCHANGED <<stored, issued, storage, renewal, call, logins, elsewhere>>

\* The middleware Auth lets a call through, or answers 401.
Auth(t, c) ==
  /\ call[t][c].at = "sent" /\ ~call[t][c].login
  /\ call' = [call EXCEPT ![t][c] =
                IF @.token > expired THEN NoCall ELSE [@ EXCEPT !.at = "401"]]
  /\ UNCHANGED <<stored, issued, expired, storage, renewal, logins, elsewhere>>

\* Login refuses: 401 for a wrong password, another error for a locked address
\* or a user who may not log in.
RefuseLogin(t, c) ==
  /\ call[t][c].at = "sent" /\ call[t][c].login
  /\ \/ call' = [call EXCEPT ![t][c].at = "401"]
     \/ call' = [call EXCEPT ![t][c] = NoCall]
  /\ UNCHANGED <<stored, issued, expired, storage, renewal, logins, elsewhere>>

-----------------------------------------------------------------------------
(* The browser *)

\* AuthGuard shows no page before its check is done.
Checking(t) == isRefreshing(t) /\ renewal[t].by = "guard"

\* A page of a signed-in tab makes a call.
Send(t, c) ==
  /\ storage # 0
  /\ issued < MaxIssue
  /\ call[t][c].at = "idle"
  /\ ~Checking(t)
  /\ call' = [call EXCEPT ![t][c] = [NoCall EXCEPT !.at = "sent", !.token = storage]]
  /\ UNCHANGED <<stored, issued, expired, storage, renewal, logins, elsewhere>>

\* Mutant of StartRenewal: the flag isRefreshing is not looked at.
StartRenewalAnyway(t, c) ==
  /\ renewal' = [renewal EXCEPT ![t] = Renewal("call")]
  /\ call' = [call EXCEPT ![t][c].at = "waiting", ![t][c].retry = TRUE]

StartRenewal(t, c) ==
  IF isRefreshing(t)
  THEN /\ call' = [call EXCEPT ![t][c].at = "waiting"]
       /\ UNCHANGED renewal
  ELSE /\ renewal' = [renewal EXCEPT ![t] = Renewal("call")]
       /\ call' = [call EXCEPT ![t][c].at = "waiting", ![t][c].retry = TRUE]

\* The response interceptor: the first 401 of a call waits for a refresh.
Intercept(t, c) ==
  /\ call[t][c].at = "401"
  /\ IF call[t][c].retry
     THEN /\ call' = [call EXCEPT ![t][c] = NoCall]
          /\ UNCHANGED renewal
     ELSE StartRenewal(t, c)
  /\ UNCHANGED <<stored, issued, expired, storage, logins, elsewhere>>

\* What ends with the page: a renewal, or a login that was accepted.
Cut(t) == isRefreshing(t) \/ \E c \in Call : call[t][c].at = "accepted"

\* A page is loaded anew, and the tab's calls are dropped.  Before a page of
\* the admin is shown, AuthGuard renews an expired token.
Reload(t) ==
  /\ issued < MaxIssue
  /\ Cut(t) => Faults
  /\ call' = [call EXCEPT ![t] = [c \in Call |-> NoCall]]
  /\ \/ renewal' = [renewal EXCEPT ![t] = NoRenewal]
     \/ /\ storage # 0 /\ storage <= expired
        /\ renewal' = [renewal EXCEPT ![t] = Renewal("guard")]
  /\ UNCHANGED <<stored, issued, expired, storage, logins, elsewhere>>

\* Every waiting call of the tab is sent again with the new token.
Resend(t, pair) ==
  [call EXCEPT ![t] = [c \in Call |->
     IF @[c].at = "waiting" THEN [@[c] EXCEPT !.at = "sent", !.token = pair] ELSE @[c]]]

\* Every waiting call of the tab is rejected.
Reject(t) ==
  [call EXCEPT ![t] = [c \in Call |-> IF @[c].at = "waiting" THEN NoCall ELSE @[c]]]

\* Mutant of Renewed: the new pair is used, but not kept.
RenewedUnsaved(t) ==
  /\ renewal[t].at = "done"
  /\ call' = Resend(t, renewal[t].pair)
  /\ renewal' = [renewal EXCEPT ![t] = NoRenewal]
  /\ UNCHANGED <<stored, issued, expired, storage, logins, elsewhere>>

\* The answer: the new pair goes to localStorage.
Renewed(t) ==
  /\ renewal[t].at = "done"
  /\ storage' = renewal[t].pair
  /\ call' = Resend(t, renewal[t].pair)
  /\ renewal' = [renewal EXCEPT ![t] = NoRenewal]
  /\ UNCHANGED <<stored, issued, expired, logins, elsewhere>>

\* Mutant of RenewalFailed: the queue of waiting calls is forgotten.
RenewalFailedQuietly(t) ==
  /\ renewal[t].at = "failed"
  /\ storage' = 0
  /\ renewal' = [renewal EXCEPT ![t] = NoRenewal]
  /\ UNCHANGED <<stored, issued, expired, call, logins, elsewhere>>

\* The refresh failed: localStorage is cleared, whatever pair it holds by
\* now, and the tab goes to the login page.
RenewalFailed(t) ==
  /\ renewal[t].at = "failed"
  /\ storage' = 0
  /\ call' = Reject(t)
  /\ renewal' = [renewal EXCEPT ![t] = NoRenewal]
  /\ UNCHANGED <<stored, issued, expired, logins, elsewhere>>

\* A 500, a lost request or a lost answer.  The interceptor sends its renewal by
\* the global axios, which has no timeout: where nothing comes back it learns of
\* the loss late, or never.  AuthGuard uses the client, which gives up in time.
RenewalLost(t) ==
  /\ Faults
  /\ renewal[t].at \in {"get", "set", "done", "lost"}
  /\ \/ renewal' = [renewal EXCEPT ![t].at = "failed"]
     \/ renewal[t].by = "call" /\ renewal' = [renewal EXCEPT ![t].at = "lost"]
  /\ UNCHANGED <<stored, issued, expired, storage, call, logins, elsewhere>>

\* The login page, which a signed-in user can open as well, sends a login: an
\* API call, and a rejected one runs into the response interceptor like any other.
Login(t, c) ==
  /\ logins < MaxLogin
  /\ call[t][c].at = "idle"
  /\ ~Checking(t)
  /\ logins' = logins + 1
  /\ call' = [call EXCEPT ![t][c] = [NoCall EXCEPT !.at = "sent", !.login = TRUE]]
  /\ UNCHANGED <<stored, issued, expired, storage, renewal, elsewhere>>

LoggedIn(t, c) ==
  /\ call[t][c].at = "accepted"
  /\ storage' = call[t][c].token
  /\ call' = [call EXCEPT ![t][c] = NoCall]
  /\ UNCHANGED <<stored, issued, expired, renewal, logins, elsewhere>>

\* A request or its answer is lost, or the answer comes after the 30 seconds that
\* the client waits.
CallLost(t, c) ==
  /\ Faults
  /\ call[t][c].at \in {"sent", "accepted"}
  /\ call' = [call EXCEPT ![t][c] = NoCall]
  /\ UNCHANGED <<stored, issued, expired, storage, renewal, logins, elsewhere>>

\* AdminLayout and ChangePassword sign out: the browser forgets the pair.
SignOut ==
  /\ storage # 0
  /\ storage' = 0
  /\ UNCHANGED <<stored, issued, expired, renewal, call, logins, elsewhere>>

-----------------------------------------------------------------------------
(* Another browser of the user *)

\* Login.  A request of this browser that it has given up, and that the server
\* finishes only then, does the same: it leaves a pair this browser never gets.
LoginElsewhere ==
  /\ issued < MaxIssue
  /\ GenerateRefreshToken
  /\ elsewhere' = [elsewhere EXCEPT !.pair = issued']
  /\ UNCHANGED <<expired, storage, renewal, call, logins>>

\* Refresh, its two steps.
CheckElsewhere ==
  /\ issued < MaxIssue
  /\ stored # 0 /\ stored = elsewhere.pair
  /\ elsewhere' = [elsewhere EXCEPT !.accepted = TRUE]
  /\ UNCHANGED <<stored, issued, expired, storage, renewal, call, logins>>

RotateElsewhere ==
  /\ elsewhere.accepted
  /\ GenerateRefreshToken
  /\ elsewhere' = [pair |-> issued', accepted |-> FALSE]
  /\ UNCHANGED <<expired, storage, renewal, call, logins>>

-----------------------------------------------------------------------------
(* What may replace the pair, and whether one thing at a time did *)

LoggingIn(t, c) ==
  call[t][c].at = "accepted" \/ (call[t][c].at = "sent" /\ call[t][c].login)

\* One renewal at a time, or one login.  isRefreshing sees to it for the
\* renewals of a tab; nothing in client.ts does for two tabs, or for a login
\* beside a call that is answered 401.
InTurn ==
  /\ \A t, u \in Tab : isRefreshing(t) /\ isRefreshing(u) => t = u
  /\ \A t, u \in Tab, c, d \in Call : LoggingIn(t, c) =>
       ~isRefreshing(u) /\ (LoggingIn(u, d) => u = t /\ d = c)

SignedOut ==
  /\ storage = 0
  /\ \A t \in Tab : ~isRefreshing(t) /\ \A c \in Call : ~LoggingIn(t, c)

Record(lost) == disturbed' = (~SignedOut' /\ (disturbed \/ lost \/ ~InTurn'))

-----------------------------------------------------------------------------
Init ==
  /\ stored = 0
  /\ issued = 0
  /\ expired = 0
  /\ storage = 0
  /\ renewal = [t \in Tab |-> NoRenewal]
  /\ call = [t \in Tab |-> [c \in Call |-> NoCall]]
  /\ logins = 0
  /\ elsewhere = [pair |-> 0, accepted |-> FALSE]
  /\ disturbed = FALSE

Renew(t) == CheckRefreshToken(t) \/ Rotate(t) \/ Renewed(t) \/ RenewalFailed(t)

Answer(t, c) == \/ AcceptLogin(t, c) \/ RefuseLogin(t, c) \/ LoggedIn(t, c)
                \/ Auth(t, c) \/ Intercept(t, c)

Server == \/ Logout \/ StoredExpires \/ AccessExpires
          \/ LoginElsewhere \/ CheckElsewhere \/ RotateElsewhere

Step ==
  \/ \E t \in Tab : Renew(t) \/ \E c \in Call : Send(t, c) \/ Login(t, c) \/ Answer(t, c)
  \/ SignOut \/ Server

Next ==
  \/ Step /\ Record(FALSE)
  \/ \E t \in Tab :
       \/ Reload(t) /\ Record(Cut(t))
       \/ RenewalLost(t) /\ Record(TRUE)
       \/ \E c \in Call : CallLost(t, c) /\ Record(call[t][c].at = "accepted")

Spec == Init /\ [][Next]_vars

\* Requests are answered and answers are handled, but for those that are lost.
Fairness == /\ \A t \in Tab : WF_vars(Renew(t) /\ Record(FALSE))
            /\ \A t \in Tab, c \in Call : WF_vars(Answer(t, c) /\ Record(FALSE))

FairSpec == Spec /\ Fairness

-----------------------------------------------------------------------------
(* Properties *)

TypeOK ==
  /\ stored \in Nat
  /\ issued \in Nat
  /\ expired \in Nat
  /\ storage \in Nat
  /\ renewal \in [Tab -> [at: {"none", "get", "set", "done", "failed", "lost"},
                          by: {"call", "guard"}, given: Nat, pair: Nat]]
  /\ call \in [Tab -> [Call -> [at: {"idle", "sent", "401", "waiting", "accepted"},
                                token: Nat, retry: BOOLEAN, login: BOOLEAN]]]
  /\ logins \in 0 .. MaxLogin
  /\ elsewhere \in [pair: Nat, accepted: BOOLEAN]
  /\ disturbed \in BOOLEAN

\* No token is newer than the last pair issued, and that is the one in Redis.
TokensIssued ==
  /\ stored \in {0, issued}
  /\ expired <= issued /\ storage <= issued /\ elsewhere.pair <= issued
  /\ \A t \in Tab : /\ renewal[t].given <= issued /\ renewal[t].pair <= issued
                   /\ \A c \in Call : call[t][c].token <= issued

\* What Redis may hold while this browser has a pair: that pair, nothing, or
\* what the other browser got.
Renewable(pair) == stored \in {0, pair, elsewhere.pair}

LoginSound(t, c) ==
  call[t][c].at = "accepted" => call[t][c].token # 0 /\ Renewable(call[t][c].token)

\* What the browser may rely on at each step of a renewal.
RenewalSound(t) ==
  /\ isRefreshing(t) => storage \in {0, renewal[t].given}
  /\ renewal[t].at = "set" => renewal[t].given # 0
  /\ renewal[t].at = "done" => renewal[t].pair # 0 /\ Renewable(renewal[t].pair)
  /\ renewal[t].at = "failed" /\ storage # 0 => stored = 0 \/ elsewhere.pair > storage

\* While the server has not replaced it, the refresh token of a signed-in
\* browser is the one that Refresh will look for, or there is none to look for,
\* or the other browser has it.
PairsAgree ==
  /\ storage # 0
  /\ \A t \in Tab : /\ renewal[t].at \in {"none", "get"}
                    /\ \A c \in Call : call[t][c].at # "accepted"
  => Renewable(storage)

Undisturbed ==
  /\ InTurn /\ PairsAgree
  /\ \A t \in Tab : RenewalSound(t) /\ \A c \in Call : LoginSound(t, c)

\* The browser's pair and the server's agree unless an answer was lost, or two
\* tokens were asked for at once, since the browser was last signed out: a
\* disturbed session lasts until the next sign-out and no longer.
SessionInv == TypeOK /\ TokensIssued /\ (~disturbed => Undisturbed)

\* client.ts, response interceptor: "a 401 refreshes the token by itself".
\* The browser gives up its pair only when the user signs out, when Redis has
\* no refresh token left, when another browser has got a newer pair, or in a
\* disturbed session: however many calls of however many tabs run into an
\* expired access token, nothing else loses the pair.
SessionKept ==
  [][storage # 0 /\ storage' = 0 =>
       disturbed \/ stored = 0 \/ renewal' = renewal \/ elsewhere.pair > storage]_vars

\* client.ts, failedQueue: a call that waits has a renewal of its tab to wait
\* for, and exactly one of the waiting calls has started it, however calls,
\* answers, failures and page loads interleave; while AuthGuard checks, the tab
\* has no call.
QueueServed ==
  \A t \in Tab :
    LET Waiting == {c \in Call : call[t][c].at = "waiting"}
        Starters == {c \in Waiting : call[t][c].retry} IN
    /\ Waiting # {} => isRefreshing(t) /\ ~Checking(t)
    /\ isRefreshing(t) /\ ~Checking(t) => \E c \in Call : Starters = {c}
    /\ Checking(t) => \A c \in Call : call[t][c].at = "idle"

\* A call always ends: it succeeds, or is rejected, also when it waits behind
\* other calls for a renewal that fails, or the page is loaded anew.  The one
\* exception is a renewal to which nothing comes back, not even an error.
CallsAnswered ==
  \A t \in Tab, c \in Call :
    call[t][c].at # "idle" ~> call[t][c].at = "idle" \/ renewal[t].at = "lost"

=============================================================================
