------------------------ MODULE SessionTokensProofs ------------------------
(***************************************************************************)
(* Proofs about SessionTokens, for any number of tabs, calls and logins,   *)
(* any doings of another browser, and whatever is lost: the types,         *)
(* SessionInv, which is inductive, SessionKept, which follows from it, and *)
(* that the calls in a tab's queue have a renewal to wait for.             *)
(* Where nothing is lost, one tab with one login is never disturbed.       *)
(***************************************************************************)
EXTENDS SessionTokens, TLAPS

CallState ==
  [at: {"idle", "sent", "401", "waiting", "accepted"}, token: Nat, retry: BOOLEAN, login: BOOLEAN]
RenewalState ==
  [at: {"none", "get", "set", "done", "failed", "lost"}, by: {"call", "guard"}, given: Nat, pair: Nat]

-----------------------------------------------------------------------------
(* Types *)

LEMMA CallsTyped ==
  ASSUME TypeOK, NEW t \in Tab
  PROVE  /\ \A pair \in Nat : Resend(t, pair) \in [Tab -> [Call -> CallState]]
         /\ Reject(t) \in [Tab -> [Call -> CallState]]
<1>1. call \in [Tab -> [Call -> CallState]]
  BY DEF TypeOK, CallState
<1>2. ASSUME NEW pair \in Nat
      PROVE  Resend(t, pair) \in [Tab -> [Call -> CallState]]
  <2> DEFINE new == [c \in Call |->
               IF call[t][c].at = "waiting"
               THEN [call[t][c] EXCEPT !.at = "sent", !.token = pair] ELSE call[t][c]]
  <2>0. \A c \in Call : call[t][c] \in CallState
    BY <1>1
  <2>1. new \in [Call -> CallState]
    BY <2>0 DEF CallState
  <2>2. Resend(t, pair) = [call EXCEPT ![t] = new]
    BY <1>1 DEF Resend
  <2> HIDE DEF new
  <2> QED
    BY <1>1, <2>1, <2>2
<1>3. Reject(t) \in [Tab -> [Call -> CallState]]
  <2> DEFINE new == [c \in Call |-> IF call[t][c].at = "waiting" THEN NoCall ELSE call[t][c]]
  <2>1. new \in [Call -> CallState]
    BY <1>1 DEF CallState, NoCall
  <2>2. Reject(t) = [call EXCEPT ![t] = new]
    BY <1>1 DEF Reject
  <2> HIDE DEF new
  <2> QED
    BY <1>1, <2>1, <2>2
<1> QED
  BY <1>2, <1>3

\* A call or a renewal is set.
LEMMA OneSet ==
  ASSUME TypeOK, NEW t \in Tab
  PROVE  /\ \A c \in Call : [call EXCEPT ![t][c] = NoCall] \in [Tab -> [Call -> CallState]]
         /\ \A r \in RenewalState : [renewal EXCEPT ![t] = r] \in [Tab -> RenewalState]
         /\ \A at \in {"get", "set", "done", "failed", "lost"} :
               /\ [renewal EXCEPT ![t].at = at] \in [Tab -> RenewalState]
               /\ \A pair \in Nat :
                    [renewal EXCEPT ![t].at = at, ![t].pair = pair] \in [Tab -> RenewalState]
         /\ \A c \in Call, at \in {"401", "waiting", "accepted"} :
               /\ [call EXCEPT ![t][c].at = at] \in [Tab -> [Call -> CallState]]
               /\ [call EXCEPT ![t][c].at = at, ![t][c].retry = TRUE] \in [Tab -> [Call -> CallState]]
               /\ \A token \in Nat :
                    [call EXCEPT ![t][c].at = at, ![t][c].token = token] \in [Tab -> [Call -> CallState]]
<1>1. call \in [Tab -> [Call -> CallState]] /\ renewal \in [Tab -> RenewalState]
  BY DEF TypeOK, CallState, RenewalState
<1>2. \A c \in Call : call[t][c] \in CallState
  BY <1>1
<1>3. renewal[t] \in RenewalState
  BY <1>1
<1>4. \A c \in Call : \A k \in CallState :
        [call EXCEPT ![t][c] = k] \in [Tab -> [Call -> CallState]]
  BY <1>1
<1>5. \A r \in RenewalState : [renewal EXCEPT ![t] = r] \in [Tab -> RenewalState]
  BY <1>1
<1>6. ASSUME NEW at \in {"get", "set", "done", "failed", "lost"}, NEW pair \in Nat
      PROVE  /\ [renewal EXCEPT ![t].at = at] \in [Tab -> RenewalState]
             /\ [renewal EXCEPT ![t].at = at, ![t].pair = pair] \in [Tab -> RenewalState]
  <2>1. /\ [renewal[t] EXCEPT !.at = at] \in RenewalState
        /\ [renewal[t] EXCEPT !.at = at, !.pair = pair] \in RenewalState
    BY <1>3 DEF RenewalState
  <2>2. /\ [renewal EXCEPT ![t].at = at] = [renewal EXCEPT ![t] = [renewal[t] EXCEPT !.at = at]]
        /\ [renewal EXCEPT ![t].at = at, ![t].pair = pair] =
             [renewal EXCEPT ![t] = [renewal[t] EXCEPT !.at = at, !.pair = pair]]
    BY <1>1
  <2> QED
    BY <1>5, <2>1, <2>2
<1>7. ASSUME NEW c \in Call, NEW at \in {"401", "waiting", "accepted"}, NEW token \in Nat
      PROVE  /\ [call EXCEPT ![t][c].at = at] \in [Tab -> [Call -> CallState]]
             /\ [call EXCEPT ![t][c].at = at, ![t][c].token = token] \in [Tab -> [Call -> CallState]]
             /\ [call EXCEPT ![t][c].at = at, ![t][c].retry = TRUE] \in [Tab -> [Call -> CallState]]
  <2> DEFINE k1 == [call[t][c] EXCEPT !.at = at]
             k2 == [call[t][c] EXCEPT !.at = at, !.token = token]
             k3 == [call[t][c] EXCEPT !.at = at, !.retry = TRUE]
  <2>1. k1 \in CallState /\ k2 \in CallState /\ k3 \in CallState
    BY <1>2 DEF CallState
  <2>2. /\ [call EXCEPT ![t][c].at = at] = [call EXCEPT ![t][c] = k1]
        /\ [call EXCEPT ![t][c].at = at, ![t][c].token = token] = [call EXCEPT ![t][c] = k2]
        /\ [call EXCEPT ![t][c].at = at, ![t][c].retry = TRUE] = [call EXCEPT ![t][c] = k3]
    BY <1>1
  <2> HIDE DEF k1, k2, k3
  <2>3. /\ [call EXCEPT ![t][c] = k1] \in [Tab -> [Call -> CallState]]
        /\ [call EXCEPT ![t][c] = k2] \in [Tab -> [Call -> CallState]]
        /\ [call EXCEPT ![t][c] = k3] \in [Tab -> [Call -> CallState]]
    BY <1>4, <2>1
  <2> QED
    BY <2>2, <2>3
<1>8. \A c \in Call, at \in {"401", "waiting", "accepted"} :
        /\ [call EXCEPT ![t][c].at = at] \in [Tab -> [Call -> CallState]]
        /\ [call EXCEPT ![t][c].at = at, ![t][c].retry = TRUE] \in [Tab -> [Call -> CallState]]
  BY <1>7
<1>9. \A c \in Call : [call EXCEPT ![t][c] = NoCall] \in [Tab -> [Call -> CallState]]
  <2>1. NoCall \in CallState
    BY DEF NoCall, CallState
  <2> QED
    BY <1>4, <2>1, Zenon
<1> QED
  BY <1>5, <1>6, <1>7, <1>8, <1>9

\* The steps, whatever they record.
LEMMA Steps ==
  ASSUME [Next]_vars
  PROVE  \/ \E t \in Tab : Renew(t) \/ RenewalLost(t) \/ Reload(t)
         \/ \E t \in Tab, c \in Call : Send(t, c) \/ Login(t, c) \/ Answer(t, c) \/ CallLost(t, c)
         \/ SignOut \/ Server \/ UNCHANGED vars
BY DEF Next, Step

LEMMA TypesKept == TypeOK /\ [Next]_vars => TypeOK'
<1> SUFFICES ASSUME TypeOK, [Next]_vars
             PROVE  TypeOK'
  OBVIOUS
<1>0. disturbed' \in BOOLEAN
  BY DEF Next, Record, vars, TypeOK
<1> USE <1>0
<1>1. /\ stored \in Nat /\ issued \in Nat /\ expired \in Nat /\ storage \in Nat
      /\ renewal \in [Tab -> RenewalState] /\ call \in [Tab -> [Call -> CallState]]
      /\ logins \in 0 .. MaxLogin /\ elsewhere \in [pair: Nat, accepted: BOOLEAN]
      /\ disturbed \in BOOLEAN
  BY DEF TypeOK, RenewalState, CallState
<1>2. \A by \in {"call", "guard"} : Renewal(by) \in RenewalState
  BY <1>1 DEF Renewal, NoRenewal, RenewalState
<1>3. NoRenewal \in RenewalState /\ NoCall \in CallState
  BY DEF NoRenewal, RenewalState, NoCall, CallState
<1>4. ASSUME NEW t \in Tab, Renew(t) \/ RenewalLost(t) \/ Reload(t)
      PROVE  TypeOK'
  <2>1. CASE CheckRefreshToken(t) \/ RenewalLost(t)
    <3>1. renewal' \in [Tab -> RenewalState]
      <4>1. PICK at \in {"set", "failed", "lost"} : renewal' = [renewal EXCEPT ![t].at = at]
        BY <2>1 DEF CheckRefreshToken, RenewalLost
      <4> QED
        BY <4>1, OneSet
    <3> QED
      BY <1>1, <2>1, <3>1 DEF CheckRefreshToken, RenewalLost, TypeOK, RenewalState
  <2>2. CASE Rotate(t)
    <3>1. issued' \in Nat /\ stored' \in Nat
      BY <1>1, <2>2 DEF Rotate, GenerateRefreshToken
    <3>2. renewal' \in [Tab -> RenewalState]
      BY <2>2, <3>1, OneSet DEF Rotate
    <3> QED
      BY <1>1, <2>2, <3>1, <3>2 DEF Rotate, TypeOK, RenewalState
  <2>3. CASE Renewed(t)
    <3>1. renewal[t].pair \in Nat
      BY <1>1 DEF RenewalState
    <3>2. call' \in [Tab -> [Call -> CallState]] /\ renewal' \in [Tab -> RenewalState]
      BY <1>1, <1>3, <2>3, <3>1, CallsTyped DEF Renewed
    <3> QED
      BY <1>1, <2>3, <3>1, <3>2 DEF Renewed, TypeOK, RenewalState, CallState
  <2>4. CASE RenewalFailed(t)
    <3>1. call' \in [Tab -> [Call -> CallState]] /\ renewal' \in [Tab -> RenewalState]
      BY <1>1, <1>3, <2>4, CallsTyped DEF RenewalFailed
    <3> QED
      BY <1>1, <2>4, <3>1 DEF RenewalFailed, TypeOK, RenewalState, CallState
  <2>5. CASE Reload(t)
    <3>1. call' \in [Tab -> [Call -> CallState]] /\ renewal' \in [Tab -> RenewalState]
      BY <1>1, <1>2, <1>3, <2>5 DEF Reload
    <3> QED
      BY <1>1, <2>5, <3>1 DEF Reload, TypeOK, RenewalState, CallState
  <2> QED
    BY <1>4, <2>1, <2>2, <2>3, <2>4, <2>5 DEF Renew
<1>5. ASSUME NEW t \in Tab, NEW c \in Call, Send(t, c) \/ Login(t, c) \/ Answer(t, c) \/ CallLost(t, c)
      PROVE  TypeOK'
  <2>1. CASE Send(t, c)
    BY <1>1, <2>1 DEF Send, NoCall, TypeOK, RenewalState, CallState
  <2>2. CASE Login(t, c)
    <3>1. logins' \in 0 .. MaxLogin
      BY <2>2, BoundAssumption DEF Login, TypeOK
    <3>2. call' \in [Tab -> [Call -> CallState]]
      BY <1>1, <2>2 DEF Login, NoCall, CallState
    <3> QED
      BY <2>2, <3>1, <3>2 DEF Login, TypeOK, CallState
  <2>3. CASE AcceptLogin(t, c)
    <3>1. issued' \in Nat /\ stored' \in Nat
      BY <2>3 DEF AcceptLogin, GenerateRefreshToken, TypeOK
    <3>2. call' = [call EXCEPT ![t][c].at = "accepted", ![t][c].token = issued']
      BY <2>3 DEF AcceptLogin
    <3>3. call' \in [Tab -> [Call -> CallState]]
      BY <3>1, <3>2, OneSet
    <3> QED
      BY <2>3, <3>1, <3>3 DEF AcceptLogin, TypeOK, CallState
  <2>4. CASE Auth(t, c) \/ RefuseLogin(t, c) \/ CallLost(t, c)
    <3>1. call' \in [Tab -> [Call -> CallState]]
      <4>1. call' = [call EXCEPT ![t][c] = NoCall] \/ call' = [call EXCEPT ![t][c].at = "401"]
        BY <1>1, <2>4 DEF Auth, RefuseLogin, CallLost
      <4>2. [call EXCEPT ![t][c] = NoCall] \in [Tab -> [Call -> CallState]]
        BY OneSet
      <4>3. [call EXCEPT ![t][c].at = "401"] \in [Tab -> [Call -> CallState]]
        BY OneSet
      <4> QED
        BY <4>1, <4>2, <4>3, Zenon
    <3> QED
      BY <1>1, <2>4, <3>1 DEF Auth, RefuseLogin, CallLost, TypeOK, CallState
  <2>5. CASE LoggedIn(t, c)
    BY <1>1, <2>5 DEF LoggedIn, NoCall, TypeOK, RenewalState, CallState
  <2>6. CASE Intercept(t, c)
    <3>1. call' \in [Tab -> [Call -> CallState]]
      <4>1. \/ call' = [call EXCEPT ![t][c] = NoCall]
            \/ call' = [call EXCEPT ![t][c].at = "waiting"]
            \/ call' = [call EXCEPT ![t][c].at = "waiting", ![t][c].retry = TRUE]
        BY <2>6 DEF Intercept, StartRenewal
      <4>2. [call EXCEPT ![t][c] = NoCall] \in [Tab -> [Call -> CallState]]
        BY OneSet
      <4>3. /\ [call EXCEPT ![t][c].at = "waiting"] \in [Tab -> [Call -> CallState]]
            /\ [call EXCEPT ![t][c].at = "waiting", ![t][c].retry = TRUE] \in [Tab -> [Call -> CallState]]
        BY OneSet
      <4> QED
        BY <4>1, <4>2, <4>3, Zenon
    <3>2. renewal' \in [Tab -> RenewalState]
      BY <1>1, <1>2, <2>6 DEF Intercept, StartRenewal
    <3> QED
      BY <1>1, <2>6, <3>1, <3>2 DEF Intercept, TypeOK, RenewalState, CallState
  <2> QED
    BY <1>5, <2>1, <2>2, <2>3, <2>4, <2>5, <2>6 DEF Answer
<1>6. CASE SignOut \/ Server
  <2>1. CASE SignOut \/ Logout \/ StoredExpires \/ AccessExpires
    BY <2>1 DEF SignOut, Logout, StoredExpires, AccessExpires, TypeOK
  <2>3. CASE CheckElsewhere
    <3>1. elsewhere' \in [pair: Nat, accepted: BOOLEAN]
      BY <1>1, <2>3 DEF CheckElsewhere
    <3> QED
      BY <2>3, <3>1 DEF CheckElsewhere, TypeOK
  <2>2. CASE LoginElsewhere \/ RotateElsewhere
    <3>1. issued' \in Nat /\ stored' \in Nat
      BY <1>1, <2>2 DEF LoginElsewhere, RotateElsewhere, GenerateRefreshToken
    <3>2. elsewhere' \in [pair: Nat, accepted: BOOLEAN]
      <4>1. \/ elsewhere' = [elsewhere EXCEPT !.pair = issued']
            \/ elsewhere' = [pair |-> issued', accepted |-> FALSE]
        BY <2>2 DEF LoginElsewhere, RotateElsewhere
      <4>2. [elsewhere EXCEPT !.pair = issued'] \in [pair: Nat, accepted: BOOLEAN]
        BY <1>1, <3>1
      <4>3. [pair |-> issued', accepted |-> FALSE] \in [pair: Nat, accepted: BOOLEAN]
        BY <3>1
      <4> QED
        BY <4>1, <4>2, <4>3, Zenon
    <3> QED
      BY <2>2, <3>1, <3>2 DEF LoginElsewhere, RotateElsewhere, TypeOK
  <2> QED
    BY <1>6, <2>1, <2>2, <2>3 DEF Server
<1>7. CASE UNCHANGED vars
  BY <1>7 DEF vars, TypeOK
<1> QED
  BY <1>4, <1>5, <1>6, <1>7, Steps

LEMMA InitTyped == Init => TypeOK
<1> SUFFICES ASSUME Init
             PROVE  TypeOK
  OBVIOUS
<1>1. renewal \in [Tab -> RenewalState]
  BY DEF Init, NoRenewal, RenewalState
<1>2. call \in [Tab -> [Call -> CallState]]
  BY DEF Init, NoCall, CallState
<1>3. logins \in 0 .. MaxLogin /\ elsewhere \in [pair: Nat, accepted: BOOLEAN]
  BY BoundAssumption DEF Init
<1> QED
  BY <1>1, <1>2, <1>3 DEF Init, TypeOK, RenewalState, CallState

\* The pairs, the calls and the renewals keep their types, for any number of
\* tabs and logins and with failures.
THEOREM TypeCorrect == Spec => []TypeOK
BY InitTyped, TypesKept, PTL DEF Spec

-----------------------------------------------------------------------------
(* What a step does to its call *)

LEMMA CallStep ==
  ASSUME TypeOK, NEW t \in Tab, NEW c \in Call,
         Send(t, c) \/ Login(t, c) \/ Answer(t, c) \/ CallLost(t, c)
  PROVE  /\ \A u \in Tab, d \in Call : u # t \/ d # c => call'[u][d] = call[u][d]
         /\ call'[t][c].token \in {0, storage, issued', call[t][c].token}
         /\ \/ /\ Send(t, c) /\ renewal' = renewal /\ call[t][c].at = "idle"
               /\ call'[t][c].at = "sent" /\ ~call'[t][c].login
            \/ /\ Login(t, c) /\ renewal' = renewal /\ call[t][c].at = "idle"
               /\ call'[t][c].at = "sent" /\ call'[t][c].login
            \/ /\ AcceptLogin(t, c) /\ renewal' = renewal /\ call[t][c].at = "sent"
               /\ call'[t][c].at = "accepted" /\ call'[t][c].token = issued'
               /\ call'[t][c].login = call[t][c].login
            \/ /\ Auth(t, c) \/ RefuseLogin(t, c)
               /\ renewal' = renewal /\ call[t][c].at = "sent"
               /\ \/ call'[t][c] = NoCall
                  \/ call'[t][c].at = "401" /\ call'[t][c].login = call[t][c].login
            \/ /\ LoggedIn(t, c) \/ CallLost(t, c)
               /\ renewal' = renewal /\ call'[t][c] = NoCall
            \/ /\ Intercept(t, c) /\ call[t][c].at = "401"
               /\ \/ renewal' = renewal /\ call'[t][c] = NoCall
                  \/ /\ renewal' = renewal /\ isRefreshing(t)
                     /\ call'[t][c].at = "waiting" /\ ~call'[t][c].retry
                     /\ call'[t][c].login = call[t][c].login
                  \/ /\ ~isRefreshing(t) /\ renewal' = [renewal EXCEPT ![t] = Renewal("call")]
                     /\ call'[t][c].at = "waiting" /\ call'[t][c].retry
                     /\ call'[t][c].login = call[t][c].login
<1>1. call \in [Tab -> [Call -> CallState]] /\ call[t][c] \in CallState
  BY DEF TypeOK, CallState
<1>2. NoCall.token = 0
  BY DEF NoCall
<1>a. ASSUME NEW new, call' = [call EXCEPT ![t][c] = new]
      PROVE  /\ \A u \in Tab, d \in Call : u # t \/ d # c => call'[u][d] = call[u][d]
             /\ call'[t][c] = new
  BY <1>1, <1>a
<1>3. CASE Send(t, c)
  <2> DEFINE new == [NoCall EXCEPT !.at = "sent", !.token = storage]
  <2>1. new.at = "sent" /\ new.token = storage /\ ~new.login
    BY DEF NoCall
  <2>2. call' = [call EXCEPT ![t][c] = new] /\ renewal' = renewal /\ call[t][c].at = "idle"
    BY <1>3 DEF Send
  <2> HIDE DEF new
  <2> QED
    BY <1>3, <1>a, <2>1, <2>2
<1>4. CASE Login(t, c)
  <2> DEFINE new == [NoCall EXCEPT !.at = "sent", !.login = TRUE]
  <2>1. new.at = "sent" /\ new.token = 0 /\ new.login
    BY DEF NoCall
  <2>2. call' = [call EXCEPT ![t][c] = new] /\ renewal' = renewal /\ call[t][c].at = "idle"
    BY <1>4 DEF Login
  <2> HIDE DEF new
  <2> QED
    BY <1>4, <1>a, <2>1, <2>2
<1>5. CASE AcceptLogin(t, c)
  <2> DEFINE new == [call[t][c] EXCEPT !.at = "accepted", !.token = issued']
  <2>1. new.at = "accepted" /\ new.token = issued' /\ new.login = call[t][c].login
    BY <1>1 DEF CallState
  <2>2. call' = [call EXCEPT ![t][c] = new] /\ renewal' = renewal /\ call[t][c].at = "sent"
    BY <1>1, <1>5 DEF AcceptLogin
  <2> HIDE DEF new
  <2> QED
    BY <1>5, <1>a, <2>1, <2>2
<1>6. CASE Auth(t, c) \/ RefuseLogin(t, c) \/ LoggedIn(t, c) \/ CallLost(t, c)
  <2> DEFINE new == [call[t][c] EXCEPT !.at = "401"]
  <2>1. new.at = "401" /\ new.token = call[t][c].token /\ new.login = call[t][c].login
    BY <1>1 DEF CallState
  <2>2. /\ renewal' = renewal
        /\ \/ /\ LoggedIn(t, c) \/ CallLost(t, c)
              /\ call' = [call EXCEPT ![t][c] = NoCall]
           \/ /\ Auth(t, c) \/ RefuseLogin(t, c)
              /\ call[t][c].at = "sent"
              /\ \/ call' = [call EXCEPT ![t][c] = NoCall]
                 \/ call' = [call EXCEPT ![t][c] = new]
    BY <1>1, <1>6 DEF Auth, RefuseLogin, LoggedIn, CallLost
  <2> HIDE DEF new
  <2>3. CASE call' = [call EXCEPT ![t][c] = NoCall]
    BY <1>2, <1>a, <2>2, <2>3
  <2>4. CASE call' = [call EXCEPT ![t][c] = new]
    BY <1>2, <1>a, <2>1, <2>2, <2>4
  <2> QED
    BY <2>2, <2>3, <2>4
<1>7. CASE Intercept(t, c)
  <2> DEFINE waits == [call[t][c] EXCEPT !.at = "waiting"]
             starts == [call[t][c] EXCEPT !.at = "waiting", !.retry = TRUE]
  <2>1. /\ waits.at = "waiting" /\ waits.retry = call[t][c].retry
        /\ waits.token = call[t][c].token /\ waits.login = call[t][c].login
        /\ starts.at = "waiting" /\ starts.retry
        /\ starts.token = call[t][c].token /\ starts.login = call[t][c].login
    BY <1>1 DEF CallState
  <2>2. /\ call[t][c].at = "401"
        /\ \/ renewal' = renewal /\ call' = [call EXCEPT ![t][c] = NoCall]
           \/ /\ renewal' = renewal /\ isRefreshing(t) /\ ~call[t][c].retry
              /\ call' = [call EXCEPT ![t][c] = waits]
           \/ /\ ~isRefreshing(t) /\ renewal' = [renewal EXCEPT ![t] = Renewal("call")]
              /\ call' = [call EXCEPT ![t][c] = starts]
    BY <1>1, <1>7 DEF Intercept, StartRenewal
  <2> HIDE DEF waits, starts
  <2>3. CASE renewal' = renewal /\ call' = [call EXCEPT ![t][c] = NoCall]
    BY <1>2, <1>7, <1>a, <2>2, <2>3
  <2>4. CASE /\ renewal' = renewal /\ isRefreshing(t) /\ ~call[t][c].retry
             /\ call' = [call EXCEPT ![t][c] = waits]
    <3>1. /\ \A u \in Tab, d \in Call : u # t \/ d # c => call'[u][d] = call[u][d]
          /\ call'[t][c] = waits
      BY <1>a, <2>4, Zenon
    <3> QED
      BY <1>7, <2>1, <2>2, <2>4, <3>1
  <2>5. CASE /\ ~isRefreshing(t) /\ renewal' = [renewal EXCEPT ![t] = Renewal("call")]
             /\ call' = [call EXCEPT ![t][c] = starts]
    <3>1. /\ \A u \in Tab, d \in Call : u # t \/ d # c => call'[u][d] = call[u][d]
          /\ call'[t][c] = starts
      BY <1>a, <2>5, Zenon
    <3> QED
      BY <1>7, <2>1, <2>2, <2>5, <3>1
  <2> QED
    BY <2>2, <2>3, <2>4, <2>5
<1> QED
  BY <1>3, <1>4, <1>5, <1>6, <1>7 DEF Answer

\* What a step of a renewal, or a new page, does to its tab.
LEMMA RenewalStep ==
  ASSUME TypeOK, NEW t \in Tab, Renew(t) \/ RenewalLost(t) \/ Reload(t)
  PROVE  /\ \A u \in Tab : u # t => renewal'[u] = renewal[u] /\ call'[u] = call[u]
         /\ \/ /\ CheckRefreshToken(t) \/ Rotate(t) \/ RenewalLost(t)
               /\ call' = call /\ renewal[t].at # "none" /\ renewal'[t].at # "none"
               /\ renewal'[t].by = renewal[t].by /\ renewal'[t].given = renewal[t].given
               /\ \/ /\ CheckRefreshToken(t) /\ renewal'[t].pair = renewal[t].pair
                     /\ renewal'[t].at \in {"set", "failed"}
                     /\ renewal'[t].at = "set" <=> stored # 0 /\ renewal[t].given = stored
                  \/ Rotate(t) /\ renewal'[t].at = "done" /\ renewal'[t].pair = issued'
                  \/ RenewalLost(t) /\ renewal'[t].pair = renewal[t].pair
            \/ /\ Renewed(t) \/ RenewalFailed(t)
               /\ renewal[t].at # "none" /\ renewal'[t] = NoRenewal
               /\ \A c \in Call : \/ call'[t][c] = call[t][c] /\ call[t][c].at # "waiting"
                                  \/ RenewalFailed(t) /\ call'[t][c] = NoCall
                                  \/ /\ Renewed(t) /\ call[t][c].at = "waiting"
                                     /\ call'[t][c].at = "sent"
                                     /\ call'[t][c].token = renewal[t].pair
                                     /\ call'[t][c].login = call[t][c].login
            \/ /\ Reload(t) /\ \A c \in Call : call'[t][c] = NoCall
               /\ \/ renewal'[t] = NoRenewal
                  \/ storage # 0 /\ renewal'[t] = Renewal("guard")
<1>1. /\ call \in [Tab -> [Call -> CallState]] /\ renewal \in [Tab -> RenewalState]
      /\ renewal[t] \in RenewalState
  BY DEF TypeOK, CallState, RenewalState
<1>2. CASE CheckRefreshToken(t) \/ RenewalLost(t)
  <2>1. PICK at \in {"set", "failed", "lost"} :
          /\ renewal' = [renewal EXCEPT ![t] = [renewal[t] EXCEPT !.at = at]]
          /\ \/ RenewalLost(t)
             \/ /\ CheckRefreshToken(t)
                /\ at = IF stored # 0 /\ renewal[t].given = stored THEN "set" ELSE "failed"
    BY <1>1, <1>2 DEF CheckRefreshToken, RenewalLost
  <2>2. renewal'[t] = [renewal[t] EXCEPT !.at = at]
    BY <1>1, <2>1
  <2>3. /\ renewal'[t].at = at /\ renewal'[t].by = renewal[t].by
        /\ renewal'[t].given = renewal[t].given /\ renewal'[t].pair = renewal[t].pair
    BY <1>1, <2>2 DEF RenewalState
  <2>4. renewal[t].at # "none" /\ call' = call
    BY <1>2 DEF CheckRefreshToken, RenewalLost
  <2>5. \A u \in Tab : u # t => renewal'[u] = renewal[u]
    BY <1>1, <2>1
  <2> QED
    BY <2>1, <2>3, <2>4, <2>5
<1>3. CASE Rotate(t)
  <2>1. /\ renewal' = [renewal EXCEPT ![t] = [renewal[t] EXCEPT !.at = "done", !.pair = issued']]
        /\ renewal[t].at # "none" /\ call' = call
    BY <1>1, <1>3 DEF Rotate
  <2>2. renewal'[t] = [renewal[t] EXCEPT !.at = "done", !.pair = issued']
    BY <1>1, <2>1
  <2>3. /\ renewal'[t].at = "done" /\ renewal'[t].by = renewal[t].by
        /\ renewal'[t].given = renewal[t].given /\ renewal'[t].pair = issued'
    BY <1>1, <2>2 DEF RenewalState
  <2>4. \A u \in Tab : u # t => renewal'[u] = renewal[u]
    BY <1>1, <2>1
  <2> QED
    BY <1>3, <2>1, <2>3, <2>4
<1>4. CASE Renewed(t)
  <2>1. /\ renewal'[t] = NoRenewal /\ renewal[t].at # "none"
        /\ \A u \in Tab : u # t => renewal'[u] = renewal[u] /\ call'[u] = call[u]
        /\ \A c \in Call : call'[t][c] =
             IF call[t][c].at = "waiting"
             THEN [call[t][c] EXCEPT !.at = "sent", !.token = renewal[t].pair] ELSE call[t][c]
    BY <1>1, <1>4 DEF Renewed, Resend
  <2>2. ASSUME NEW c \in Call, call[t][c].at = "waiting"
        PROVE  /\ call'[t][c].at = "sent" /\ call'[t][c].token = renewal[t].pair
               /\ call'[t][c].login = call[t][c].login
    <3>1. call[t][c] \in CallState
      BY <1>1
    <3>2. call'[t][c] = [call[t][c] EXCEPT !.at = "sent", !.token = renewal[t].pair]
      BY <2>1, <2>2
    <3> QED
      BY <3>1, <3>2 DEF CallState
  <2> QED
    BY <1>4, <2>1, <2>2
<1>5. CASE RenewalFailed(t)
  BY <1>1, <1>5 DEF RenewalFailed, Reject
<1>6. CASE Reload(t)
  BY <1>1, <1>6 DEF Reload
<1> QED
  BY <1>2, <1>3, <1>4, <1>5, <1>6 DEF Renew

-----------------------------------------------------------------------------
(* Tokens, whatever is lost *)

LEMMA TokensKept == TypeOK /\ TypeOK' /\ TokensIssued /\ [Next]_vars => TokensIssued'
<1> SUFFICES ASSUME TypeOK, TypeOK', TokensIssued, [Next]_vars
             PROVE  TokensIssued'
  OBVIOUS
<1>0. /\ issued \in Nat /\ NoRenewal.given = 0 /\ NoRenewal.pair = 0 /\ NoCall.token = 0
      /\ \A by : Renewal(by).given = storage /\ Renewal(by).pair = 0
  BY DEF TypeOK, NoRenewal, Renewal, NoCall
<1>a. /\ storage \in Nat /\ storage <= issued
      /\ \A t \in Tab : /\ renewal[t].given \in Nat /\ renewal[t].given <= issued
                        /\ renewal[t].pair \in Nat /\ renewal[t].pair <= issued
      /\ \A t \in Tab, c \in Call : call[t][c].token \in Nat /\ call[t][c].token <= issued
      /\ stored \in {0, issued} /\ expired <= issued /\ elsewhere.pair <= issued
      /\ expired \in Nat /\ elsewhere.pair \in Nat
  BY DEF TypeOK, TokensIssued
<1>1. ASSUME NEW t \in Tab, Renew(t) \/ RenewalLost(t) \/ Reload(t)
      PROVE  TokensIssued'
  <2>1. /\ issued' \in {issued, issued + 1} /\ stored' \in {stored, issued'}
        /\ issued' # issued => stored' = issued'
        /\ UNCHANGED <<expired, elsewhere>> /\ storage' \in {storage, 0, renewal[t].pair}
    BY <1>1
       DEF Renew, CheckRefreshToken, Rotate, Renewed, RenewalFailed, RenewalLost, Reload,
           GenerateRefreshToken
  <2>2. ASSUME NEW u \in Tab
        PROVE  renewal'[u].given <= issued' /\ renewal'[u].pair <= issued'
    <3>1. CASE u # t
      BY <1>0, <1>1, <1>a, <2>1, <3>1, RenewalStep
    <3>2. CASE u = t
      <4>1. /\ renewal'[t].given \in {0, storage, renewal[t].given}
            /\ renewal'[t].pair \in {0, issued', renewal[t].pair}
        BY <1>0, <1>1, RenewalStep
      <4> QED
        BY <1>0, <1>a, <2>1, <3>2, <4>1
    <3> QED
      BY <3>1, <3>2
  <2>3. ASSUME NEW u \in Tab, NEW c \in Call
        PROVE  call'[u][c].token <= issued'
    <3>1. call'[u][c].token \in {0, renewal[t].pair, call[u][c].token}
      BY <1>0, <1>1, RenewalStep
    <3> QED
      BY <1>0, <1>a, <2>1, <3>1
  <2> QED
    BY <1>0, <1>a, <2>1, <2>2, <2>3 DEF TokensIssued
<1>2. ASSUME NEW t \in Tab, NEW c \in Call, Send(t, c) \/ Login(t, c) \/ Answer(t, c) \/ CallLost(t, c)
      PROVE  TokensIssued'
  <2>1. /\ issued' \in {issued, issued + 1} /\ stored' \in {stored, issued'}
        /\ issued' # issued => stored' = issued'
        /\ UNCHANGED <<expired, elsewhere>> /\ storage' \in {storage, call[t][c].token}
    BY <1>2
       DEF Send, Login, Answer, AcceptLogin, RefuseLogin, LoggedIn, Auth, Intercept, CallLost,
           GenerateRefreshToken
  <2>2. ASSUME NEW u \in Tab, NEW d \in Call
        PROVE  call'[u][d].token <= issued'
    <3>1. call'[u][d].token \in {0, storage, issued', call[u][d].token}
      BY <1>2, CallStep
    <3> QED
      BY <1>0, <1>a, <2>1, <3>1
  <2>3. ASSUME NEW u \in Tab
        PROVE  renewal'[u].given <= issued' /\ renewal'[u].pair <= issued'
    <3>1. renewal' = renewal \/ renewal' = [renewal EXCEPT ![t] = Renewal("call")]
      BY <1>2, CallStep
    <3>2. renewal'[u] = renewal[u] \/ renewal'[u] = Renewal("call")
      BY <3>1 DEF TypeOK
    <3> QED
      BY <1>0, <1>a, <2>1, <3>2
  <2> QED
    BY <1>0, <1>a, <2>1, <2>2, <2>3 DEF TokensIssued
<1>3. CASE SignOut \/ Server \/ UNCHANGED vars
  <2>1. CASE LoginElsewhere \/ RotateElsewhere
    BY <2>1 DEF LoginElsewhere, RotateElsewhere, GenerateRefreshToken, TypeOK, TokensIssued
  <2> QED
    BY <1>3, <2>1
       DEF Server, SignOut, Logout, StoredExpires, AccessExpires, CheckElsewhere, vars,
           TypeOK, TokensIssued
<1> QED
  BY <1>1, <1>2, <1>3, Steps

-----------------------------------------------------------------------------
(* A browser that is not disturbed: what other parts do, and what leaves its *)
(* pair and its logins alone                                                 *)

\* The server issues a pair to the other browser, or none.
LEMMA ServerKeeps ==
  ASSUME TypeOK, TokensIssued, Undisturbed, TypeOK', InTurn', Server
  PROVE  Undisturbed'
<1>1. UNCHANGED <<storage, renewal, call>>
  BY DEF Server, Logout, StoredExpires, AccessExpires, LoginElsewhere, CheckElsewhere, RotateElsewhere
<1>2. \/ stored' \in {0, stored} /\ elsewhere'.pair = elsewhere.pair
      \/ stored' = issued + 1 /\ elsewhere'.pair = stored'
  <2>1. CASE LoginElsewhere \/ RotateElsewhere
    BY <2>1 DEF LoginElsewhere, RotateElsewhere, GenerateRefreshToken, TypeOK
  <2> QED
    BY <2>1 DEF Server, Logout, StoredExpires, AccessExpires, CheckElsewhere, TypeOK
<1>3. storage \in Nat /\ issued \in Nat /\ storage <= issued
  BY DEF TypeOK, TokensIssued
<1>4. \A pair : Renewable(pair) => Renewable(pair)'
  BY <1>2 DEF Renewable
<1>5. PairsAgree'
  BY <1>1, <1>4 DEF Undisturbed, PairsAgree, Renewable
<1>6. ASSUME NEW t \in Tab
      PROVE  RenewalSound(t)'
  BY <1>1, <1>2, <1>3, <1>4 DEF Undisturbed, RenewalSound, isRefreshing, Renewable
<1>7. ASSUME NEW t \in Tab, NEW c \in Call
      PROVE  LoginSound(t, c)'
  BY <1>1, <1>4 DEF Undisturbed, LoginSound
<1> QED
  BY <1>5, <1>6, <1>7 DEF Undisturbed

\* A renewal may start, or be absent; no login is accepted or over.
LEMMA LoginsAlone ==
  ASSUME TypeOK, Undisturbed, InTurn', UNCHANGED <<stored, storage, elsewhere>>,
         \A t \in Tab : \/ renewal'[t] = renewal[t]
                        \/ /\ renewal[t].at = "none"
                           /\ renewal'[t] \in {NoRenewal, Renewal("call"), Renewal("guard")},
         \A t \in Tab, c \in Call :
           /\ call'[t][c].at = "accepted" <=> call[t][c].at = "accepted"
           /\ call[t][c].at = "accepted" => call'[t][c].token = call[t][c].token
  PROVE  Undisturbed'
<1>1. \A pair : Renewable(pair) => Renewable(pair)'
  BY DEF Renewable
<1>2. PairsAgree'
  <2>1. \A t \in Tab : renewal'[t].at \in {"none", "get"} => renewal[t].at \in {"none", "get"}
    BY DEF Renewal, NoRenewal
  <2> QED
    BY <1>1, <2>1 DEF Undisturbed, PairsAgree, Renewable
<1>3. ASSUME NEW t \in Tab
      PROVE  RenewalSound(t)'
  <2>1. CASE renewal'[t] = renewal[t]
    BY <1>1, <2>1 DEF Undisturbed, RenewalSound, isRefreshing, Renewable
  <2>2. CASE renewal'[t] \in {NoRenewal, Renewal("call"), Renewal("guard")}
    <3>1. NoRenewal.at = "none" /\ \A by : Renewal(by).at = "get" /\ Renewal(by).given = storage
      BY DEF Renewal, NoRenewal
    <3>2. renewal'[t].at = "none" \/ (renewal'[t].at = "get" /\ renewal'[t].given = storage)
      BY <2>2, <3>1
    <3> QED
      BY <3>2 DEF RenewalSound, isRefreshing
  <2> QED
    BY <2>1, <2>2
<1>4. ASSUME NEW t \in Tab, NEW c \in Call
      PROVE  LoginSound(t, c)'
  BY <1>1 DEF Undisturbed, LoginSound, Renewable
<1> QED
  BY <1>2, <1>3, <1>4 DEF Undisturbed

LEMMA CallKeeps ==
  ASSUME TypeOK, Undisturbed, InTurn', NEW t \in Tab, NEW c \in Call,
         \/ Send(t, c) \/ Login(t, c) \/ Auth(t, c) \/ RefuseLogin(t, c) \/ Intercept(t, c)
         \/ CallLost(t, c) /\ call[t][c].at # "accepted"
  PROVE  Undisturbed'
<1>1. /\ UNCHANGED <<stored, storage, elsewhere>>
      /\ call[t][c].at # "accepted" /\ ~AcceptLogin(t, c) /\ ~LoggedIn(t, c)
  <2>1. /\ UNCHANGED <<stored, issued, storage, elsewhere>> /\ call[t][c].at # "accepted"
    BY DEF Send, Login, Auth, RefuseLogin, CallLost, Intercept
  <2> QED
    BY <2>1 DEF AcceptLogin, GenerateRefreshToken, LoggedIn, TypeOK
<1>2. /\ call'[t][c].at # "accepted"
      /\ \A u \in Tab, d \in Call : u # t \/ d # c => call'[u][d] = call[u][d]
      /\ renewal' = renewal \/ (~isRefreshing(t) /\ renewal' = [renewal EXCEPT ![t] = Renewal("call")])
  BY <1>1, CallStep DEF Answer, NoCall
<1>3. \A u \in Tab : \/ renewal'[u] = renewal[u]
                     \/ renewal[u].at = "none" /\ renewal'[u] = Renewal("call")
  BY <1>2 DEF TypeOK, isRefreshing
<1>4. \A u \in Tab, d \in Call :
        /\ call'[u][d].at = "accepted" <=> call[u][d].at = "accepted"
        /\ call[u][d].at = "accepted" => call'[u][d].token = call[u][d].token
  BY <1>1, <1>2
<1> QED
  BY <1>1, <1>3, <1>4, LoginsAlone

\* A page that is loaded while neither a renewal nor an accepted login is under way.
LEMMA ReloadKeeps ==
  ASSUME TypeOK, Undisturbed, InTurn', NEW t \in Tab, Reload(t), ~Cut(t)
  PROVE  Undisturbed'
<1>1. /\ UNCHANGED <<stored, storage, elsewhere>>
      /\ renewal[t].at = "none" /\ \A c \in Call : call[t][c].at # "accepted"
      /\ \A c \in Call : call'[t][c] = NoCall
      /\ \A u \in Tab \ {t} : call'[u] = call[u] /\ renewal'[u] = renewal[u]
      /\ renewal'[t] \in {NoRenewal, Renewal("guard")}
  BY DEF TypeOK, Reload, Cut, isRefreshing
<1>2. \A u \in Tab, d \in Call :
        /\ call'[u][d].at = "accepted" <=> call[u][d].at = "accepted"
        /\ call[u][d].at = "accepted" => call'[u][d].token = call[u][d].token
  BY <1>1 DEF NoCall
<1>3. \A u \in Tab : \/ renewal'[u] = renewal[u]
                     \/ /\ renewal[u].at = "none"
                        /\ renewal'[u] \in {NoRenewal, Renewal("call"), Renewal("guard")}
  BY <1>1
<1> QED
  BY <1>1, <1>2, <1>3, LoginsAlone

-----------------------------------------------------------------------------
(* A browser that is not disturbed: renewals and logins *)

\* The token that is refused is not the stored one: a newer one is stored, or none.
LEMMA CheckKeeps ==
  ASSUME TypeOK, TokensIssued, Undisturbed, InTurn', NEW t \in Tab, CheckRefreshToken(t)
  PROVE  Undisturbed'
<1>1. /\ renewal[t].at = "get" /\ renewal'[t].at \in {"set", "failed"}
      /\ renewal'[t].at = "set" <=> stored # 0 /\ renewal[t].given = stored
      /\ renewal'[t].given = renewal[t].given
  BY DEF CheckRefreshToken, TypeOK
<1>2. /\ UNCHANGED <<stored, issued, storage, call, elsewhere>>
      /\ \A u \in Tab : u # t => renewal'[u] = renewal[u] /\ renewal[u].at = "none"
  BY <1>1 DEF CheckRefreshToken, TypeOK, Undisturbed, InTurn, isRefreshing
<1>3. \A u \in Tab, c \in Call : call[u][c].at # "accepted"
  BY <1>1 DEF Undisturbed, InTurn, LoggingIn, isRefreshing
<1>4. storage \in {0, renewal[t].given} /\ (storage # 0 => Renewable(storage))
  BY <1>1, <1>2, <1>3 DEF Undisturbed, RenewalSound, PairsAgree, isRefreshing
<1>5. /\ storage \in Nat /\ stored \in Nat /\ issued \in Nat /\ elsewhere.pair \in Nat
      /\ stored \in {0, issued} /\ storage <= issued
  BY DEF TypeOK, TokensIssued
<1>6. renewal'[t].at = "failed" /\ storage # 0 => stored = 0 \/ elsewhere.pair > storage
  BY <1>1, <1>4, <1>5 DEF Renewable
<1>7. ASSUME NEW u \in Tab
      PROVE  RenewalSound(u)'
  BY <1>1, <1>2, <1>4, <1>6 DEF RenewalSound, isRefreshing
<1>8. PairsAgree' /\ \A u \in Tab, c \in Call : LoginSound(u, c)'
  BY <1>1, <1>2, <1>3 DEF PairsAgree, LoginSound
<1> QED
  BY <1>7, <1>8 DEF Undisturbed

LEMMA RotateKeeps ==
  ASSUME TypeOK, Undisturbed, InTurn', NEW t \in Tab, Rotate(t)
  PROVE  Undisturbed'
<1>1. /\ renewal[t].at = "set" /\ renewal'[t].at = "done"
      /\ renewal'[t].given = renewal[t].given /\ renewal'[t].pair = issued'
      /\ stored' = issued' /\ issued' # 0
  BY DEF Rotate, GenerateRefreshToken, TypeOK
<1>2. /\ UNCHANGED <<storage, call, elsewhere>>
      /\ \A u \in Tab : u # t => renewal'[u] = renewal[u] /\ renewal[u].at = "none"
  BY <1>1 DEF Rotate, TypeOK, Undisturbed, InTurn, isRefreshing
<1>3. \A u \in Tab, c \in Call : call[u][c].at # "accepted"
  BY <1>1 DEF Undisturbed, InTurn, LoggingIn, isRefreshing
<1>4. storage \in {0, renewal[t].given}
  BY <1>1 DEF Undisturbed, RenewalSound, isRefreshing
<1>5. ASSUME NEW u \in Tab
      PROVE  RenewalSound(u)'
  BY <1>1, <1>2, <1>4 DEF RenewalSound, isRefreshing, Renewable
<1>6. PairsAgree' /\ \A u \in Tab, c \in Call : LoginSound(u, c)'
  BY <1>1, <1>2, <1>3 DEF PairsAgree, LoginSound
<1> QED
  BY <1>5, <1>6 DEF Undisturbed

\* The renewal is over, and no other one and no login is under way.
LEMMA EndKeeps ==
  ASSUME TypeOK, Undisturbed, InTurn', NEW t \in Tab, Renewed(t) \/ RenewalFailed(t)
  PROVE  Undisturbed'
<1>1. /\ renewal[t].at # "none" /\ UNCHANGED <<stored, elsewhere>>
      /\ \/ storage' = 0
         \/ renewal[t].at = "done" /\ storage' = renewal[t].pair
  BY DEF Renewed, RenewalFailed
<1>2. \A u \in Tab, c \in Call : call[u][c].at # "accepted"
  BY <1>1 DEF Undisturbed, InTurn, LoggingIn, isRefreshing
<1>3. \A u \in Tab, c \in Call : call'[u][c].at # "accepted"
  <2>1. NoCall.at # "accepted"
    BY DEF NoCall
  <2>2. \A c \in Call : call'[t][c] = NoCall \/ call'[t][c].at = "sent" \/ call'[t][c] = call[t][c]
    BY RenewalStep DEF Renew, NoCall
  <2>3. \A u \in Tab : u # t => call'[u] = call[u]
    BY RenewalStep DEF Renew
  <2> QED
    BY <1>2, <2>1, <2>2, <2>3
<1>4. \A u \in Tab : renewal'[u].at = "none"
  <2>1. \A u \in Tab : u # t => renewal'[u] = renewal[u] /\ renewal[u].at = "none"
    BY <1>1 DEF Renewed, RenewalFailed, TypeOK, Undisturbed, InTurn, isRefreshing
  <2>2. renewal'[t].at = "none"
    BY DEF Renewed, RenewalFailed, NoRenewal, TypeOK
  <2> QED
    BY <2>1, <2>2
<1>5. PairsAgree'
  BY <1>1 DEF Undisturbed, RenewalSound, PairsAgree, Renewable
<1>6. \A u \in Tab : RenewalSound(u)' /\ \A c \in Call : LoginSound(u, c)'
  BY <1>3, <1>4 DEF RenewalSound, LoginSound, isRefreshing
<1> QED
  BY <1>5, <1>6 DEF Undisturbed

\* A login is accepted, or its answer arrives: no renewal and no other login is
\* under way.
LEMMA LoginKeeps ==
  ASSUME TypeOK, Undisturbed, InTurn', NEW t \in Tab, NEW c \in Call,
         AcceptLogin(t, c) \/ LoggedIn(t, c)
  PROVE  Undisturbed'
<1>1. LoggingIn(t, c) /\ renewal' = renewal
  BY DEF AcceptLogin, LoggedIn, LoggingIn
<1>2. /\ \A u \in Tab : renewal'[u].at = "none"
      /\ \A u \in Tab, d \in Call : u # t \/ d # c => call[u][d].at # "accepted"
  BY <1>1 DEF Undisturbed, InTurn, isRefreshing, LoggingIn
<1>3. \A u \in Tab, d \in Call : u # t \/ d # c => call'[u][d].at # "accepted"
  BY <1>2, CallStep DEF Answer
<1>4. \A u \in Tab : RenewalSound(u)'
  BY <1>2 DEF RenewalSound, isRefreshing
<1>5. CASE AcceptLogin(t, c)
  <2>1. /\ call'[t][c].at = "accepted" /\ call'[t][c].token = issued'
        /\ stored' = issued' /\ issued' # 0
    BY <1>5 DEF AcceptLogin, GenerateRefreshToken, TypeOK
  <2>2. PairsAgree' /\ \A u \in Tab, d \in Call : LoginSound(u, d)'
    BY <1>3, <2>1 DEF PairsAgree, LoginSound, Renewable
  <2> QED
    BY <1>4, <2>2 DEF Undisturbed
<1>6. CASE LoggedIn(t, c)
  <2>1. call'[t][c].at = "idle"
    BY <1>6 DEF LoggedIn, NoCall, TypeOK
  <2>2. \A u \in Tab, d \in Call : LoginSound(u, d)'
    BY <1>3, <2>1 DEF LoginSound
  <2>3. PairsAgree'
    BY <1>6 DEF LoggedIn, PairsAgree, Undisturbed, LoginSound, Renewable
  <2> QED
    BY <1>4, <2>2, <2>3 DEF Undisturbed
<1> QED
  BY <1>5, <1>6

LEMMA SignOutKeeps ==
  ASSUME Undisturbed, InTurn', SignOut
  PROVE  Undisturbed'
<1>1. storage' = 0 /\ UNCHANGED <<stored, renewal, call, elsewhere>>
  BY DEF SignOut
<1>2. PairsAgree'
  BY <1>1 DEF PairsAgree
<1>3. \A t \in Tab : RenewalSound(t)' /\ \A c \in Call : LoginSound(t, c)'
  BY <1>1 DEF Undisturbed, RenewalSound, LoginSound, isRefreshing, Renewable
<1> QED
  BY <1>2, <1>3 DEF Undisturbed

-----------------------------------------------------------------------------
(* Steps *)

LEMMA InitSound == Init => SessionInv
<1> SUFFICES ASSUME Init
             PROVE  SessionInv
  OBVIOUS
<1>0. TypeOK
  BY InitTyped
<1>1. TokensIssued
  BY DEF Init, TokensIssued, NoRenewal, NoCall
<1>2. \A t \in Tab : renewal[t].at = "none" /\ \A c \in Call : call[t][c].at = "idle"
  BY DEF Init, NoRenewal, NoCall
<1>3. Undisturbed
  BY <1>2
     DEF Init, Undisturbed, InTurn, PairsAgree, RenewalSound, LoginSound, LoggingIn, isRefreshing
<1> QED
  BY <1>0, <1>1, <1>3 DEF SessionInv

\* A step that leaves the browser undisturbed ends signed out, or found it
\* undisturbed, lost nothing and kept the turns.
LEMMA UndisturbedStep ==
  ASSUME [Next]_vars, ~disturbed', ~UNCHANGED vars
  PROVE  \/ SignedOut'
         \/ /\ ~disturbed /\ InTurn'
            /\ \/ SignOut \/ Server
               \/ \E t \in Tab : Renew(t) \/ (Reload(t) /\ ~Cut(t))
               \/ \E t \in Tab, c \in Call :
                    \/ Send(t, c) \/ Login(t, c) \/ Answer(t, c)
                    \/ CallLost(t, c) /\ call[t][c].at # "accepted"
BY DEF Next, Step, Record

LEMMA StepSound == SessionInv /\ [Next]_vars => SessionInv'
<1> SUFFICES ASSUME SessionInv, [Next]_vars
             PROVE  SessionInv'
  OBVIOUS
<1>1. TypeOK /\ TokensIssued /\ TypeOK' /\ TokensIssued'
  BY TypesKept, TokensKept DEF SessionInv
<1>2. ASSUME ~disturbed', ~UNCHANGED vars
      PROVE  Undisturbed'
  <2>1. CASE SignedOut'
    BY <2>1
       DEF SignedOut, Undisturbed, InTurn, PairsAgree, RenewalSound, LoginSound, LoggingIn,
           isRefreshing
  <2>2. CASE ~SignedOut'
    <3>1. ~disturbed /\ InTurn' /\ Undisturbed
      BY <1>2, <2>2, UndisturbedStep DEF SessionInv
    <3>2. ASSUME NEW t \in Tab, Renew(t) \/ (Reload(t) /\ ~Cut(t))
          PROVE  Undisturbed'
      BY <1>1, <3>1, <3>2, CheckKeeps, RotateKeeps, EndKeeps, ReloadKeeps DEF Renew
    <3>3. ASSUME NEW t \in Tab, NEW c \in Call,
                 \/ Send(t, c) \/ Login(t, c) \/ Answer(t, c)
                 \/ CallLost(t, c) /\ call[t][c].at # "accepted"
          PROVE  Undisturbed'
      BY <1>1, <3>1, <3>3, CallKeeps, LoginKeeps DEF Answer
    <3> QED
      BY <1>1, <1>2, <2>2, <3>1, <3>2, <3>3, UndisturbedStep, SignOutKeeps, ServerKeeps
  <2> QED
    BY <2>1, <2>2
<1>3. ASSUME UNCHANGED vars
      PROVE  Undisturbed <=> Undisturbed'
  BY <1>3
     DEF vars, Undisturbed, InTurn, PairsAgree, RenewalSound, LoginSound, LoggingIn, Renewable,
         isRefreshing
<1> QED
  BY <1>1, <1>2, <1>3 DEF SessionInv, vars

\* The catch of the response interceptor.
LEMMA PairGivenUp ==
  ASSUME SessionInv, [Next]_vars, storage # 0, storage' = 0, renewal' # renewal
  PROVE  disturbed \/ stored = 0 \/ elsewhere.pair > storage
<1>1. PICK t \in Tab : Renewed(t) \/ RenewalFailed(t)
  <2>1. ASSUME NEW t \in Tab, Renew(t) \/ RenewalLost(t) \/ Reload(t)
        PROVE  Renewed(t) \/ RenewalFailed(t)
    BY <2>1 DEF Renew, CheckRefreshToken, Rotate, RenewalLost, Reload
  <2>2. ASSUME NEW t \in Tab, NEW c \in Call, Send(t, c) \/ Login(t, c) \/ Answer(t, c) \/ CallLost(t, c)
        PROVE  FALSE
    BY <2>2
       DEF Send, Login, Answer, AcceptLogin, RefuseLogin, Auth, LoggedIn, Intercept, CallLost
  <2>3. ~SignOut /\ ~Server /\ ~UNCHANGED vars
    BY DEF SignOut, Server, Logout, StoredExpires, AccessExpires, LoginElsewhere,
           CheckElsewhere, RotateElsewhere, vars
  <2> QED
    BY <2>1, <2>2, <2>3, Steps
<1>2. ~disturbed => renewal[t].at = "failed"
  BY <1>1 DEF SessionInv, Undisturbed, RenewalSound, Renewed, RenewalFailed
<1> QED
  BY <1>1, <1>2 DEF SessionInv, Undisturbed, RenewalSound

\* While nothing was lost and the tokens were asked for one at a time since the
\* browser was last signed out, its pair and the server's agree at every step of
\* a renewal and of a login, for any number of tabs, calls and logins and any
\* doings of another browser: client.ts against Refresh and Login of auth.go.
THEOREM InvariantHolds == Spec => []SessionInv
BY InitSound, StepSound, PTL DEF Spec

\* The browser gives up its pair only when its user signs out, when Redis has no
\* refresh token, when another browser has a newer pair, or in a disturbed
\* session, however many tabs and calls run into an expired access token: the
\* catch of the response interceptor.
THEOREM SessionsKept == Spec => SessionKept
<1>1. SessionInv /\ [Next]_vars =>
        [storage # 0 /\ storage' = 0 =>
           disturbed \/ stored = 0 \/ renewal' = renewal \/ elsewhere.pair > storage]_vars
  BY PairGivenUp
<1> QED
  BY <1>1, InvariantHolds, PTL DEF Spec, SessionKept

-----------------------------------------------------------------------------
(* One tab, one login *)

\* Of two tabs that renew one pair at once the second is refused, and clears what
\* the first one got; a second login may be sent while the pair is renewed.
OneTab == (\A t, u \in Tab : t = u) /\ MaxLogin <= 1 /\ ~Faults

\* With s in localStorage, the renewal r and the calls k: a tab that has done
\* nothing, and one whose login, until it has ended, is beside nothing but a
\* renewal that cannot succeed.
TabFresh(s, r, k) == s = 0 /\ r.at = "none" /\ \A c \in Call : k[c].at = "idle"

TabSound(s, r, k) ==
  \A c \in Call :
    /\ k[c].at = "accepted" => k[c].login
    /\ k[c].at # "idle" /\ k[c].login =>
         /\ s = 0
         /\ \A d \in Call : d # c => k[d].at = "idle"
         /\ r.at # "none" =>
              k[c].at = "waiting" /\ r.given = 0 /\ r.at \in {"get", "failed"}

TabInv ==
  /\ TypeOK /\ ~disturbed
  /\ \A t \in Tab : /\ logins = 0 => TabFresh(storage, renewal[t], call[t])
                    /\ TabSound(storage, renewal[t], call[t])

\* What the other parts do leaves the tab alone.
LEMMA TabLeftAlone ==
  ASSUME TabInv, UNCHANGED <<renewal, call, logins>>, storage' \in {0, storage}
  PROVE  \A t \in Tab : /\ logins' = 0 => TabFresh(storage', renewal'[t], call'[t])
                        /\ TabSound(storage', renewal'[t], call'[t])
BY DEF TabInv, TabFresh, TabSound

LEMMA TabRenews ==
  ASSUME TabInv, NEW t \in Tab, Renew(t) \/ (Reload(t) /\ ~Cut(t))
  PROVE  /\ logins' = 0 => TabFresh(storage', renewal'[t], call'[t])
         /\ TabSound(storage', renewal'[t], call'[t])
<1>0. /\ TypeOK /\ TabSound(storage, renewal[t], call[t])
      /\ logins = 0 => TabFresh(storage, renewal[t], call[t])
  BY DEF TabInv
<1>1. /\ logins' = logins /\ NoRenewal.at = "none" /\ NoCall.at = "idle"
  BY DEF Renew, CheckRefreshToken, Rotate, Renewed, RenewalFailed, Reload, NoRenewal, NoCall
<1>2. CASE CheckRefreshToken(t)
  <2>1. /\ renewal[t].at = "get" /\ storage' = storage /\ call' = call
        /\ renewal'[t].given = renewal[t].given /\ renewal'[t].at \in {"set", "failed"}
        /\ renewal'[t].at = "set" => renewal[t].given # 0
    BY <1>0, <1>2 DEF CheckRefreshToken, TypeOK
  <2> QED
    BY <1>0, <1>1, <2>1 DEF TabFresh, TabSound
<1>3. CASE Rotate(t)
  <2>1. renewal[t].at = "set" /\ storage' = storage /\ call' = call
    BY <1>3 DEF Rotate
  <2> QED
    BY <1>0, <1>1, <2>1 DEF TabFresh, TabSound
<1>4. CASE Renewed(t)
  <2>1. renewal[t].at = "done" /\ renewal'[t].at = "none"
    BY <1>0, <1>4 DEF Renewed, NoRenewal, TypeOK
  <2>2. \A c \in Call : call[t][c].at = "idle" \/ ~call[t][c].login
    BY <1>0, <2>1 DEF TabSound
  <2>3. \A c \in Call : \/ call'[t][c] = call[t][c]
                        \/ /\ call[t][c].at = "waiting" /\ call'[t][c].at = "sent"
                           /\ call'[t][c].login = call[t][c].login
                        \/ call'[t][c] = NoCall
    BY <1>0, <1>4, <2>1, RenewalStep DEF Renew
  <2>4. TabSound(storage', renewal'[t], call'[t])
    BY <1>0, <1>1, <2>1, <2>2, <2>3 DEF TabSound
  <2> QED
    BY <1>0, <1>1, <2>1, <2>4 DEF TabFresh
<1>5. CASE RenewalFailed(t)
  <2>1. /\ renewal[t].at = "failed" /\ renewal'[t].at = "none" /\ storage' = 0
        /\ \A c \in Call : call'[t][c] = IF call[t][c].at = "waiting" THEN NoCall ELSE call[t][c]
    BY <1>0, <1>5 DEF RenewalFailed, Reject, NoRenewal, TypeOK
  <2> QED
    BY <1>0, <1>1, <2>1 DEF TabFresh, TabSound
<1>6. CASE Reload(t)
  <2>1. /\ storage' = storage /\ \A c \in Call : call'[t][c] = NoCall
        /\ renewal'[t] = NoRenewal \/ storage # 0
    BY <1>0, <1>6 DEF Reload, TypeOK
  <2> QED
    BY <1>0, <1>1, <2>1 DEF TabFresh, TabSound
<1> QED
  BY <1>2, <1>3, <1>4, <1>5, <1>6 DEF Renew

LEMMA TabCalls ==
  ASSUME OneTab, TabInv, NEW t \in Tab, NEW c \in Call, Send(t, c) \/ Login(t, c) \/ Answer(t, c)
  PROVE  /\ logins' = 0 => TabFresh(storage', renewal'[t], call'[t])
         /\ TabSound(storage', renewal'[t], call'[t])
<1>0. /\ TypeOK /\ TabSound(storage, renewal[t], call[t])
      /\ logins = 0 => TabFresh(storage, renewal[t], call[t])
      /\ NoCall.at = "idle"
  BY DEF TabInv, NoCall
<1>a. \A d \in Call : d # c => call'[t][d] = call[t][d]
  BY <1>0, CallStep
<1>1. CASE Send(t, c)
  <2>1. /\ storage # 0 /\ storage' = storage /\ logins' = logins /\ renewal' = renewal
        /\ call'[t][c].at = "sent" /\ ~call'[t][c].login
    BY <1>0, <1>1 DEF Send, NoCall, TypeOK
  <2> QED
    BY <1>0, <1>a, <2>1 DEF TabFresh, TabSound
<1>2. CASE Login(t, c)
  <2>1. logins = 0 /\ logins' # 0
    <3>1. MaxLogin \in Nat /\ MaxLogin <= 1 /\ logins \in 0 .. MaxLogin
      BY <1>0, BoundAssumption DEF OneTab, TypeOK
    <3>2. logins < MaxLogin /\ logins' = logins + 1
      BY <1>2 DEF Login
    <3> QED
      BY <3>1, <3>2
  <2>2. /\ storage' = storage /\ renewal' = renewal /\ call'[t][c].at = "sent"
    BY <1>0, <1>2 DEF Login, NoCall, TypeOK
  <2> QED
    BY <1>0, <1>a, <2>1, <2>2 DEF TabFresh, TabSound
<1>3. CASE Answer(t, c)
  <2>1. call[t][c].at # "idle" /\ logins' = logins
    BY <1>3 DEF Answer, AcceptLogin, RefuseLogin, LoggedIn, Auth, Intercept
  <2>2. logins' # 0
    BY <1>0, <2>1 DEF TabFresh
  <2>3. CASE AcceptLogin(t, c)
    <3>1. /\ call[t][c].at = "sent" /\ call[t][c].login /\ storage' = storage /\ renewal' = renewal
          /\ call'[t][c].login
      BY <1>0, <2>3 DEF AcceptLogin, TypeOK
    <3> QED
      BY <1>0, <1>a, <2>2, <3>1 DEF TabSound
  <2>4. CASE Auth(t, c) \/ RefuseLogin(t, c)
    <3>1. /\ storage' = storage /\ renewal' = renewal /\ call[t][c].at = "sent"
          /\ \/ call'[t][c].at = "idle"
             \/ call'[t][c].at = "401" /\ call'[t][c].login = call[t][c].login
      BY <1>0, <2>4 DEF Auth, RefuseLogin, NoCall, TypeOK
    <3> QED
      BY <1>0, <1>a, <2>2, <3>1 DEF TabSound
  <2>5. CASE LoggedIn(t, c)
    <3>1. /\ renewal' = renewal /\ call[t][c].at = "accepted" /\ call'[t][c].at = "idle"
      BY <1>0, <2>5 DEF LoggedIn, NoCall, TypeOK
    <3>2. \A d \in Call : call'[t][d].at = "idle"
      BY <1>0, <1>a, <3>1 DEF TabSound
    <3> QED
      BY <2>2, <3>2 DEF TabSound
  <2>6. CASE Intercept(t, c)
    <3>1. Renewal("call").at = "get" /\ Renewal("call").given = storage
      BY DEF Renewal, NoRenewal
    <3>2. /\ storage' = storage /\ call[t][c].at = "401"
          /\ \/ renewal'[t] = renewal[t] /\ call'[t][c].at = "idle"
             \/ /\ call'[t][c].at = "waiting" /\ call'[t][c].login = call[t][c].login
                /\ \/ renewal'[t] = renewal[t] /\ renewal[t].at # "none"
                   \/ renewal'[t] = Renewal("call")
      BY <1>0, <2>6, CallStep DEF Answer, Intercept, isRefreshing, TypeOK
    <3> QED
      BY <1>0, <1>a, <2>2, <3>1, <3>2 DEF TabSound
  <2> QED
    BY <1>3, <2>3, <2>4, <2>5, <2>6 DEF Answer
<1> QED
  BY <1>1, <1>2, <1>3

\* One tab with one login is never disturbed while nothing is lost: isRefreshing
\* keeps its renewals apart, and the login comes before everything else.  So the
\* tab's pair and the server's agree in all its behaviours, and it loses the pair
\* to no renewal of its own (client.ts).
THEOREM OneTabUndisturbed == ASSUME OneTab PROVE Spec => []~disturbed
<1>1. Init => TabInv
  <2> SUFFICES ASSUME Init
               PROVE  TabInv
    OBVIOUS
  <2>1. TypeOK /\ ~disturbed /\ storage = 0
    BY InitSound DEF SessionInv, Init
  <2>2. \A t \in Tab : renewal[t].at = "none" /\ \A c \in Call : call[t][c].at = "idle"
    BY DEF Init, NoRenewal, NoCall
  <2> QED
    BY <2>1, <2>2 DEF TabInv, TabFresh, TabSound
<1>2. TabInv /\ [Next]_vars => TabInv'
  <2> SUFFICES ASSUME TabInv, [Next]_vars
               PROVE  TabInv'
    OBVIOUS
  <2>1. TypeOK' /\ ~disturbed /\ \A t, u \in Tab : t = u
    BY TypesKept DEF TabInv, OneTab
  <2>2. \/ SignOut \/ Server \/ UNCHANGED vars
        \/ \E t \in Tab : Renew(t) \/ (Reload(t) /\ ~Cut(t))
        \/ \E t \in Tab, c \in Call : Send(t, c) \/ Login(t, c) \/ Answer(t, c)
    BY DEF OneTab, Next, Step, RenewalLost, CallLost, Reload
  <2>3. \A t \in Tab : /\ logins' = 0 => TabFresh(storage', renewal'[t], call'[t])
                       /\ TabSound(storage', renewal'[t], call'[t])
    <3>1. CASE SignOut \/ Server \/ UNCHANGED vars
      <4>1. UNCHANGED <<renewal, call, logins>> /\ storage' \in {0, storage}
        BY <3>1
           DEF SignOut, Server, Logout, StoredExpires, AccessExpires, LoginElsewhere,
               CheckElsewhere, RotateElsewhere, vars
      <4> QED
        BY <4>1, TabLeftAlone
    <3> QED
      BY <2>1, <2>2, <3>1, TabRenews, TabCalls
  <2>4. InTurn'
    BY <2>1, <2>3 DEF TabSound, InTurn, LoggingIn, isRefreshing
  <2>5. ~disturbed'
    <3>1. CASE UNCHANGED vars
      BY <2>1, <3>1 DEF vars
    <3>2. CASE Next
      BY <2>1, <2>4, <3>2 DEF OneTab, Next, Record, RenewalLost, CallLost, Reload
    <3> QED
      BY <3>1, <3>2
  <2> QED
    BY <2>1, <2>3, <2>5 DEF TabInv
<1>3. TabInv => ~disturbed
  BY DEF TabInv
<1> QED
  BY <1>1, <1>2, <1>3, PTL DEF Spec

-----------------------------------------------------------------------------
(* The queue of a tab, of its renewal r and its calls k *)

QueueIn(r, k) ==
  /\ \A c \in Call : k[c].at = "waiting" => r.at # "none" /\ r.by = "call"
  /\ r.at # "none" /\ r.by = "call" =>
       \E c \in Call : \A d \in Call : (k[d].at = "waiting" /\ k[d].retry) <=> d = c
  /\ r.at # "none" /\ r.by = "guard" => \A c \in Call : k[c].at = "idle"

LEMMA QueueOfTabs == TypeOK => (QueueServed <=> \A t \in Tab : QueueIn(renewal[t], call[t]))
<1> SUFFICES ASSUME TypeOK
             PROVE  QueueServed <=> \A t \in Tab : QueueIn(renewal[t], call[t])
  OBVIOUS
<1>1. \A t \in Tab : renewal[t].by \in {"call", "guard"}
  BY DEF TypeOK
<1>2. ASSUME NEW t \in Tab
      PROVE  (\E c \in Call : {d \in {e \in Call : call[t][e].at = "waiting"} : call[t][d].retry} = {c})
             <=> \E c \in Call : \A d \in Call : (call[t][d].at = "waiting" /\ call[t][d].retry) <=> d = c
  BY Zenon
<1> QED
  BY <1>1, <1>2 DEF QueueServed, QueueIn, isRefreshing, Checking

\* A tab whose queue is not touched keeps it.
LEMMA QueueStays ==
  ASSUME NEW r, NEW k, NEW s, NEW l, QueueIn(r, k), s.by = r.by, s.at = "none" <=> r.at = "none",
         \A c \in Call : /\ l[c].at = "waiting" <=> k[c].at = "waiting"
                         /\ k[c].at = "waiting" => l[c].retry = k[c].retry
                         /\ k[c].at = "idle" => l[c].at = "idle"
  PROVE  QueueIn(s, l)
  BY DEF QueueIn

\* A step of one tab is shown for its own queue only.
LEMMA OneTabsQueue ==
  ASSUME TypeOK, QueueServed, NEW t \in Tab,
         \A u \in Tab \ {t} : renewal'[u] = renewal[u] /\ call'[u] = call[u],
         QueueIn(renewal'[t], call'[t])
  PROVE  \A u \in Tab : QueueIn(renewal'[u], call'[u])
<1>1. \A u \in Tab : QueueIn(renewal[u], call[u])
  BY QueueOfTabs
<1> QED
  BY <1>1, Zenon

LEMMA RenewalKeepsQueue ==
  ASSUME TypeOK, QueueServed, NEW t \in Tab, Renew(t) \/ RenewalLost(t) \/ Reload(t)
  PROVE  \A u \in Tab : QueueIn(renewal'[u], call'[u])
<1>1. QueueIn(renewal[t], call[t])
  BY QueueOfTabs
<1>2. \A u \in Tab \ {t} : renewal'[u] = renewal[u] /\ call'[u] = call[u]
  BY RenewalStep
<1>3. CASE /\ call' = call /\ renewal[t].at # "none" /\ renewal'[t].at # "none"
           /\ renewal'[t].by = renewal[t].by
  BY <1>1, <1>2, <1>3, QueueStays, OneTabsQueue
<1>4. CASE /\ renewal'[t] = NoRenewal /\ \A c \in Call : call'[t][c].at # "waiting"
  <2>1. QueueIn(renewal'[t], call'[t])
    BY <1>4 DEF QueueIn, NoRenewal
  <2> QED
    BY <1>2, <2>1, OneTabsQueue
<1>5. CASE /\ \A c \in Call : call'[t][c] = NoCall
           /\ renewal'[t] = NoRenewal \/ renewal'[t] = Renewal("guard")
  <2>1. /\ NoRenewal.at = "none" /\ NoCall.at = "idle"
        /\ Renewal("guard").at = "get" /\ Renewal("guard").by = "guard"
    BY DEF NoRenewal, Renewal, NoCall
  <2>2. QueueIn(renewal'[t], call'[t])
    BY <1>5, <2>1 DEF QueueIn
  <2> QED
    BY <1>2, <2>2, OneTabsQueue
<1> QED
  BY <1>3, <1>4, <1>5, RenewalStep DEF NoCall

LEMMA CallKeepsQueue ==
  ASSUME TypeOK, QueueServed, NEW t \in Tab, NEW c \in Call,
         Send(t, c) \/ Login(t, c) \/ Answer(t, c) \/ CallLost(t, c)
  PROVE  \A u \in Tab : QueueIn(renewal'[u], call'[u])
<1>1. renewal \in [Tab -> RenewalState] /\ call \in [Tab -> [Call -> CallState]]
  BY DEF TypeOK, RenewalState, CallState
<1>2. QueueIn(renewal[t], call[t]) /\ NoCall.at = "idle"
  BY QueueOfTabs DEF NoCall
<1>3. /\ \A d \in Call : d # c => call'[t][d] = call[t][d]
      /\ \A u \in Tab \ {t} : call'[u] = call[u] /\ renewal'[u] = renewal[u]
  <2>1. renewal' = renewal \/ renewal' = [renewal EXCEPT ![t] = Renewal("call")]
    BY CallStep
  <2>2. \A u \in Tab \ {t} : call'[u] = call[u]
    BY <1>1
       DEF Send, Login, Answer, AcceptLogin, RefuseLogin, Auth, LoggedIn, Intercept,
           StartRenewal, CallLost
  <2>3. \A d \in Call : d # c => call'[t][d] = call[t][d]
    BY CallStep
  <2> QED
    BY <1>1, <2>1, <2>2, <2>3
<1>4. ASSUME renewal' = renewal, call[t][c].at # "waiting", call'[t][c].at # "waiting",
             call[t][c].at = "idle" => ~Checking(t)
      PROVE  QueueIn(renewal'[t], call'[t])
  BY <1>2, <1>3, <1>4 DEF QueueIn, Checking, isRefreshing
<1>5. CASE ~Intercept(t, c)
  <2>1. /\ renewal' = renewal /\ call[t][c].at # "waiting"
        /\ call[t][c].at = "idle" => ~Checking(t)
    BY <1>5
       DEF Send, Login, Answer, AcceptLogin, RefuseLogin, Auth, LoggedIn, CallLost
  <2>2. call'[t][c].at # "waiting"
    BY <1>2, <1>5, CallStep
  <2> QED
    BY <1>3, <1>4, <2>1, <2>2, OneTabsQueue
<1>6. CASE Intercept(t, c)
  <2>1. /\ call[t][c].at = "401" /\ \A d \in Call \ {c} : call'[t][d] = call[t][d]
    BY <1>3, <1>6 DEF Intercept
  <2>2. \/ renewal' = renewal /\ call'[t][c].at = "idle"
        \/ /\ renewal' = renewal /\ isRefreshing(t)
           /\ call'[t][c].at = "waiting" /\ ~call'[t][c].retry
        \/ /\ ~isRefreshing(t) /\ renewal'[t] = Renewal("call")
           /\ call'[t][c].at = "waiting" /\ call'[t][c].retry
    BY <1>1, <1>2, <1>6, <2>1, CallStep DEF Answer
  <2>3. ASSUME renewal' = renewal,
               \/ call'[t][c].at = "idle"
               \/ isRefreshing(t) /\ call'[t][c].at = "waiting" /\ ~call'[t][c].retry
        PROVE  QueueIn(renewal'[t], call'[t])
    <3>1. ~(renewal[t].at # "none" /\ renewal[t].by = "guard")
      BY <1>2, <2>1 DEF QueueIn
    <3>2. renewal[t].by \in {"call", "guard"}
      BY <1>1 DEF RenewalState
    <3>3. \A d \in Call : (call'[t][d].at = "waiting" /\ call'[t][d].retry)
                          <=> (call[t][d].at = "waiting" /\ call[t][d].retry)
      BY <2>1, <2>3
    <3>4. \A d \in Call : call'[t][d].at = "waiting" =>
                          call[t][d].at = "waiting" \/ renewal[t].at # "none"
      BY <2>1, <2>3 DEF isRefreshing
    <3>5. /\ renewal[t].at # "none" =>
               \E e \in Call : \A d \in Call : (call'[t][d].at = "waiting" /\ call'[t][d].retry) <=> d = e
          /\ \A d \in Call : call'[t][d].at = "waiting" => renewal[t].at # "none" /\ renewal[t].by = "call"
      BY <1>2, <3>1, <3>2, <3>3, <3>4 DEF QueueIn
    <3> QED
      BY <2>3, <3>1, <3>5 DEF QueueIn
  <2>4. ASSUME ~isRefreshing(t), renewal'[t] = Renewal("call"),
               call'[t][c].at = "waiting", call'[t][c].retry
        PROVE  QueueIn(renewal'[t], call'[t])
    <3>1. renewal'[t].at = "get" /\ renewal'[t].by = "call"
      BY <2>4 DEF Renewal, NoRenewal
    <3>2. \A d \in Call : call[t][d].at # "waiting"
      BY <1>2, <2>4 DEF QueueIn, isRefreshing
    <3>3. \A d \in Call : (call'[t][d].at = "waiting" /\ call'[t][d].retry) <=> d = c
      BY <2>1, <2>4, <3>2
    <3>4. \E e \in Call : \A d \in Call : (call'[t][d].at = "waiting" /\ call'[t][d].retry) <=> d = e
      BY <3>3, Zenon
    <3>5. ~(renewal'[t].by = "guard")
      BY <3>1
    <3> QED
      BY <3>1, <3>4, <3>5, Zenon DEF QueueIn
  <2>5. QueueIn(renewal'[t], call'[t])
    BY <2>2, <2>3, <2>4
  <2> QED
    BY <1>3, <2>5, OneTabsQueue
<1> QED
  BY <1>5, <1>6

\* Every waiting call has a renewal to wait for, that one of them started: no
\* call is left in failedQueue, and no tab renews twice at once (client.ts, the
\* response interceptor).
THEOREM QueueStaysServed == Spec => []QueueServed
<1>1. Init => QueueServed
  BY DEF Init, QueueServed, isRefreshing, Checking, NoRenewal, NoCall
<1>2. TypeOK /\ TypeOK' /\ QueueServed /\ [Next]_vars => QueueServed'
  <2> SUFFICES ASSUME TypeOK, TypeOK', QueueServed, [Next]_vars
               PROVE  QueueServed'
    OBVIOUS
  <2>1. \A u \in Tab : QueueIn(renewal'[u], call'[u])
    <3>1. ASSUME UNCHANGED <<renewal, call>>
          PROVE  \A u \in Tab : QueueIn(renewal'[u], call'[u])
      BY <3>1, QueueOfTabs
    <3>2. CASE SignOut \/ Server \/ UNCHANGED vars
      BY <3>1, <3>2
         DEF SignOut, Server, Logout, StoredExpires, AccessExpires, LoginElsewhere, CheckElsewhere,
             RotateElsewhere, vars
    <3> QED
      BY <3>2, Steps, RenewalKeepsQueue, CallKeepsQueue
  <2>2. TypeOK' => (QueueServed' <=> \A u \in Tab : QueueIn(renewal'[u], call'[u]))
    <3>1. \A t \in Tab : renewal'[t].by \in {"call", "guard"}
      BY DEF TypeOK
    <3>2. ASSUME NEW t \in Tab
          PROVE  (\E c \in Call : {d \in {e \in Call : call'[t][e].at = "waiting"} : call'[t][d].retry} = {c})
                 <=> \E c \in Call : \A d \in Call : (call'[t][d].at = "waiting" /\ call'[t][d].retry) <=> d = c
      BY Zenon
    <3> QED
      BY <3>1, <3>2 DEF QueueServed, QueueIn, isRefreshing, Checking
  <2> QED
    BY <2>1, <2>2
<1> QED
  BY <1>1, <1>2, TypeCorrect, PTL DEF Spec
=============================================================================
