--------------------------- MODULE AccountLifecycle ---------------------------
(***************************************************************************)
(* What the official-account table promises, whoever writes it and in      *)
(* whatever order: an account row is bound once, to one tenant and one     *)
(* WeChat app; no two live rows hold the same app in the same way; a live  *)
(* row's credentials are replaced as a whole, by a token issued to its own *)
(* app; and a deleted row never changes again.                             *)
(*                                                                         *)
(* AuthorizerTokens is the detailed specification that implements this.    *)
(***************************************************************************)
CONSTANTS Account,    \* primary keys of wechat_accounts
          App,        \* WeChat app ids
          Tenant,     \* owners of accounts
          Token,      \* tokens issued by WeChat, records with a field "app"
          NoToken,    \* the NULL token
          Manual,     \* auth_type of an account bound with its own secret
          Platform,   \* auth_type of an account that authorized the platform
          Absent      \* the row of a key that has not been inserted yet

VARIABLE account

IsLive(id) == account[id] # Absent /\ account[id].phase = "live"

\* A live row holding token t: the app is the one t was issued to, and only
\* a platform row has a refresh token, that of the same issue.
Holding(kind, tenant, t) ==
  [phase |-> "live", kind |-> kind, tenant |-> tenant, app |-> t.app,
   access |-> t, refresh |-> IF kind = Platform THEN t ELSE NoToken]

\* No live row other than id holds app a in the way kind.
Free(id, kind, a) ==
  \A other \in Account \ {id} :
    IsLive(other) /\ account[other].kind = kind => account[other].app # a

Bind(id, kind, tenant, t) ==
  /\ account[id] = Absent
  /\ Free(id, kind, t.app)
  /\ account' = [account EXCEPT ![id] = Holding(kind, tenant, t)]

\* New credentials; only a manual account may move to another app with them.
Renew(id, t) ==
  /\ IsLive(id)
  /\ account[id].kind = Platform => t.app = account[id].app
  /\ Free(id, account[id].kind, t.app)
  /\ account' = [account EXCEPT ![id] = Holding(@.kind, @.tenant, t)]

Unbind(id) ==
  /\ IsLive(id)
  /\ account' = [account EXCEPT ![id].phase = "deleted"]

Init == account = [id \in Account |-> Absent]

Next ==
  \E id \in Account :
    \/ \E kind \in {Manual, Platform}, tenant \in Tenant, t \in Token :
         Bind(id, kind, tenant, t)
    \/ \E t \in Token : Renew(id, t)
    \/ Unbind(id)

Spec == Init /\ [][Next]_account
=============================================================================
