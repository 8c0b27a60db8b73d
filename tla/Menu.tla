-------------------------------- MODULE Menu --------------------------------
(***************************************************************************)
(* The custom menu of one account (internal/handler/api/menu.go, table     *)
(* wechat_menus).                                                          *)
(*                                                                         *)
(* SaveDraft, Publish and DeleteDraft read the account's current menu,     *)
(* decide on the copy and write it back in a second call; nothing in the   *)
(* table keeps an account from having several menus.  Every query names    *)
(* the account, so one account stands for all.                             *)
(***************************************************************************)
EXTENDS Naturals, FiniteSets

CONSTANTS
  Menu, None,  \* ids of wechat_menus, and no id
  Request,     \* requests in flight at once
  MaxRequests  \* bound on the requests

ASSUME MenuAssumption == None \notin Menu /\ IsFiniteSet(Menu) /\ IsFiniteSet(Request)
ASSUME BoundAssumption == MaxRequests \in Nat

VARIABLES
  menus,    \* rows of wechat_menus
  req,      \* the handlers in flight
  arrived,  \* requests so far; a menu_json is the number of the request that sent it
  now       \* the writes so far: updated_at, no two writes being at the same time

vars == <<menus, req, arrived, now>>

Draft == 0      \* MenuStatusDraft
Published == 1  \* MenuStatusPublished

\* published_at is the number of the request that published, 0 for NULL.
WechatMenu == [phase: {"absent", "live", "deleted"}, menu_json: Nat,
               status: {Draft, Published}, published_at: Nat, updated_at: Nat]

NoMenu == [phase |-> "absent", menu_json |-> 0, status |-> Draft, published_at |-> 0,
           updated_at |-> 0]

\* The write a handler is about to make: of a menu it read and has changed, of
\* a new one, or the deletion of the one it read.
Handler == [at: {"idle", "create", "update", "delete"}, id: Menu \cup {None}, menu: WechatMenu]
Idle == [at |-> "idle", id |-> None, menu |-> NoMenu]

Live(m) == menus[m].phase = "live"

\* Mutant of Matches: the drafts only.
MatchesDrafts(m) == Live(m) /\ menus[m].status = Draft

\* WHERE account_id = $1 AND deleted_at IS NULL
Matches(m) == Live(m)

\* ORDER BY status DESC, updated_at DESC
Precedes(m, n) ==
  \/ menus[m].status > menus[n].status
  \/ menus[m].status = menus[n].status /\ menus[m].updated_at >= menus[n].updated_at

\* The menu of the account: the first one, when there is any.
GetByAccountID == {m \in Menu : Matches(m) /\ \A n \in Menu : Matches(n) => Precedes(m, n)}
NotFound == \A m \in Menu : ~Matches(m)

-----------------------------------------------------------------------------
(* The handlers, up to their query *)

Arrive(r, at, id, menu) ==
  /\ req[r] = Idle /\ arrived < MaxRequests
  /\ arrived' = arrived + 1
  /\ req' = [req EXCEPT ![r] = [at |-> at, id |-> id, menu |-> menu]]
  /\ UNCHANGED <<menus, now>>

\* A menu that was published keeps its status and its published_at.
SaveDraft(r) ==
  \/ \E m \in GetByAccountID :
       Arrive(r, "update", m, [menus[m] EXCEPT !.menu_json = arrived + 1])
  \/ /\ NotFound
     /\ Arrive(r, "create", None, [NoMenu EXCEPT !.phase = "live", !.menu_json = arrived + 1])

\* Mutant of Publish: published_at is not set.
PublishWithoutTime(r) ==
  \E m \in GetByAccountID : Arrive(r, "update", m, [menus[m] EXCEPT !.status = Published])

PublishedAt(menu, time) == [menu EXCEPT !.status = Published, !.published_at = time]

Publish(r) ==
  \E m \in GetByAccountID : Arrive(r, "update", m, PublishedAt(menus[m], arrived + 1))

\* Mutant of DeleteDraft: the status is not checked.
DeleteMenu(r) == \E m \in GetByAccountID : Arrive(r, "delete", m, menus[m])

DeleteDraft(r) ==
  \E m \in GetByAccountID : menus[m].status = Draft /\ Arrive(r, "delete", m, menus[m])

-----------------------------------------------------------------------------
(* The handlers, their write *)

Write(r, m, row) ==
  /\ menus' = [menus EXCEPT ![m] = row]
  /\ req' = [req EXCEPT ![r] = Idle]
  /\ now' = now + 1
  /\ UNCHANGED arrived

Create(r) ==
  /\ req[r].at = "create"
  /\ \E m \in Menu :
       menus[m].phase = "absent" /\ Write(r, m, [req[r].menu EXCEPT !.updated_at = now + 1])

\* UPDATE ... WHERE id = $4 AND deleted_at IS NULL, with the columns as read.
Update(r) ==
  LET read == req[r].menu IN
  /\ req[r].at = "update" /\ Live(req[r].id)
  /\ Write(r, req[r].id,
           [menus[req[r].id] EXCEPT !.menu_json = read.menu_json, !.status = read.status,
                                    !.published_at = read.published_at,
                                    !.updated_at = now + 1])

\* A trigger of the table sets updated_at.
DeletedAt(menu, time) == [menu EXCEPT !.phase = "deleted", !.updated_at = time]

SoftDelete(r) ==
  /\ req[r].at = "delete" /\ Live(req[r].id)
  /\ Write(r, req[r].id, DeletedAt(menus[req[r].id], now + 1))

\* The write finds no row, or the call fails: the client is told and that is all.
WriteFails(r) ==
  /\ req[r] # Idle
  /\ req' = [req EXCEPT ![r] = Idle]
  /\ UNCHANGED <<menus, arrived, now>>

-----------------------------------------------------------------------------
Init ==
  /\ menus = [m \in Menu |-> NoMenu]
  /\ req = [r \in Request |-> Idle]
  /\ arrived = 0
  /\ now = 0

Next ==
  \E r \in Request :
    \/ SaveDraft(r) \/ Publish(r) \/ DeleteDraft(r)
    \/ Create(r) \/ Update(r) \/ SoftDelete(r) \/ WriteFails(r)

Spec == Init /\ [][Next]_vars

-----------------------------------------------------------------------------
(* Properties *)

TypeOK ==
  /\ menus \in [Menu -> WechatMenu]
  /\ req \in [Request -> Handler]
  /\ arrived \in Nat
  /\ now \in Nat

LiveMenus == {m \in Menu : Live(m)}
Creating == {r \in Request : req[r].at = "create"}

\* Nothing but the query keeps an account to one menu: requests that run at
\* once may create one each, and no more ever come, however many requests
\* follow.
MenusBounded == Cardinality(LiveMenus) + Cardinality(Creating) <= Cardinality(Request)

\* A published menu says when it was published and a draft does not, in the
\* table and in what the handlers are about to write.
Consistent(menu) == menu.status = Published <=> menu.published_at # 0

\* What a handler knows of the menu it read: unless the row was written since,
\* which its updated_at tells, a draft is a draft still.
CopySound(c) ==
  /\ Consistent(c.menu)
  /\ c.at = "create" => c.menu.phase = "live"
  /\ c.at \in {"update", "delete"} =>
       /\ c.id \in Menu
       /\ menus[c.id].phase # "absent"
       /\ c.menu.updated_at <= menus[c.id].updated_at
       /\ c.menu.status = Draft /\ c.menu.updated_at = menus[c.id].updated_at =>
            menus[c.id].status = Draft
  /\ c.at = "delete" => c.menu.status = Draft

MInv ==
  /\ TypeOK
  /\ \A m \in Menu : Consistent(menus[m]) /\ menus[m].updated_at <= now
  /\ \A r \in Request : CopySound(req[r])
  /\ MenusBounded

\* A deleted menu stays as it is, though handlers that read it before write
\* it back.
DeletedStays == [][\A m \in Menu : menus[m].phase = "deleted" => menus'[m] = menus[m]]_vars

\* A publication is undone, by a deletion or by a draft written over it, only
\* by a request that had read the menu before it was published; a deletion is
\* undone by none.
PublicationKept ==
  /\ DeletedStays
  /\ [][\A m \in Menu :
          /\ Live(m) /\ menus[m].status = Published
          /\ menus'[m].phase = "deleted" \/ menus'[m].status = Draft
          => \E r \in Request : /\ req[r].id = m /\ req'[r] = Idle
                                /\ req[r].menu.updated_at < menus[m].updated_at]_vars
=============================================================================
