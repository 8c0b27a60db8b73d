----------------------------- MODULE MenuProofs -----------------------------
(***************************************************************************)
(* Proofs about Menu, for any number of menus and requests.                *)
(*                                                                         *)
(* A handler's copy is as old as its updated_at says, and each write makes *)
(* the row's updated_at larger than any before: so a copy that is not      *)
(* older than the row has the row's status (CopySound).  MenusBounded      *)
(* holds because a handler goes on to create a menu only while no menu is  *)
(* live.                                                                   *)
(***************************************************************************)
EXTENDS Menu, FiniteSetTheorems, TLAPS

RowsSound == \A m \in Menu : Consistent(menus[m]) /\ menus[m].updated_at <= now

CopiesSound == \A r \in Request : CopySound(req[r])

LEMMA InitMInv == Init => MInv
<1> SUFFICES ASSUME Init PROVE MInv
  OBVIOUS
<1>1. TypeOK
  BY DEF Init, TypeOK, NoMenu, WechatMenu, Handler, Idle, Draft, Published
<1>2. RowsSound /\ CopiesSound
  BY DEF Init, RowsSound, CopiesSound, Consistent, CopySound, NoMenu, Idle, Draft, Published
<1>3. MenusBounded
  <2>1. LiveMenus = {} /\ Creating = {}
    BY DEF Init, LiveMenus, Live, Creating, NoMenu, Idle
  <2> QED
    BY <2>1, MenuAssumption, FS_EmptySet, FS_CardinalityType DEF MenusBounded
<1> QED
  BY <1>1, <1>2, <1>3 DEF MInv, RowsSound, CopiesSound

-----------------------------------------------------------------------------
(* A request arrives with a copy of the current menu or with a new one *)

LEMMA ArriveMInv ==
  ASSUME MInv, NEW r \in Request, NEW at, NEW id, NEW menu, Arrive(r, at, id, menu),
         [at |-> at, id |-> id, menu |-> menu] \in Handler,
         CopySound([at |-> at, id |-> id, menu |-> menu]),
         at = "create" => LiveMenus = {}
  PROVE  MInv'
<1> DEFINE c == [at |-> at, id |-> id, menu |-> menu]
<1>1. UNCHANGED <<menus, now>> /\ req[r] = Idle
  BY DEF Arrive
<1>2. req' = [req EXCEPT ![r] = c] /\ req \in [Request -> Handler]
  BY DEF Arrive, MInv, TypeOK
<1>3. TypeOK'
  BY <1>1, <1>2 DEF Arrive, MInv, TypeOK
<1>4. RowsSound'
  BY <1>1 DEF MInv, RowsSound, Consistent
<1>5. \A q \in Request : CopySound(req'[q])
  BY <1>2 DEF MInv
<1>6. CopiesSound'
  BY <1>1, <1>5 DEF CopiesSound, CopySound
<1>7. MenusBounded'
  <2>1. LiveMenus' = LiveMenus
    BY <1>1 DEF LiveMenus, Live
  <2>2. CASE at = "create"
    <3>1. Creating' \subseteq Request
      BY DEF Creating
    <3>2. Cardinality(Creating') <= Cardinality(Request) /\ Cardinality(Creating') \in Nat
      BY <3>1, MenuAssumption, FS_Subset, FS_CardinalityType
    <3>3. Cardinality(LiveMenus') = 0
      BY <2>1, <2>2, FS_EmptySet
    <3> QED
      BY <3>2, <3>3, MenuAssumption, FS_CardinalityType DEF MenusBounded
  <2>3. CASE at # "create"
    <3>1. Creating' = Creating
      BY <1>1, <1>2, <2>3 DEF Creating, Idle
    <3> QED
      BY <2>1, <3>1 DEF MInv, MenusBounded
  <2> QED
    BY <2>2, <2>3
<1> QED
  BY <1>3, <1>4, <1>6, <1>7 DEF MInv, RowsSound, CopiesSound

\* The menus the handlers write.
LEMMA SavedMenu ==
  ASSUME NEW menu \in WechatMenu, NEW json \in Nat,
         NEW saved, saved = [menu EXCEPT !.menu_json = json]
  PROVE  /\ saved \in WechatMenu
         /\ saved.phase = menu.phase /\ saved.status = menu.status
         /\ saved.published_at = menu.published_at /\ saved.updated_at = menu.updated_at
  BY DEF WechatMenu

LEMMA PublishedMenu ==
  ASSUME NEW menu \in WechatMenu, NEW time \in Nat
  PROVE  /\ PublishedAt(menu, time) \in WechatMenu
         /\ PublishedAt(menu, time).phase = menu.phase
         /\ PublishedAt(menu, time).status = Published
         /\ PublishedAt(menu, time).published_at = time
         /\ PublishedAt(menu, time).updated_at = menu.updated_at
<1> DEFINE s == [menu EXCEPT !.status = Published]
<1>1. s \in WechatMenu /\ s.phase = menu.phase /\ s.status = Published
      /\ s.updated_at = menu.updated_at
  BY DEF WechatMenu, Published
<1>2. PublishedAt(menu, time) = [s EXCEPT !.published_at = time]
  BY DEF PublishedAt
<1> HIDE DEF s
<1> QED
  BY <1>1, <1>2 DEF WechatMenu

LEMMA NewMenu ==
  ASSUME NEW json \in Nat,
         NEW new, new = [NoMenu EXCEPT !.phase = "live", !.menu_json = json]
  PROVE  new \in WechatMenu /\ new.phase = "live" /\ Consistent(new)
<1> DEFINE s == [NoMenu EXCEPT !.phase = "live"]
<1>1. s \in WechatMenu /\ s.phase = "live" /\ s.status = Draft /\ s.published_at = 0
  BY DEF WechatMenu, NoMenu, Draft, Published
<1>2. new = [s EXCEPT !.menu_json = json]
  OBVIOUS
<1> HIDE DEF s
<1>3. new \in WechatMenu /\ new.phase = "live"
  BY <1>1, <1>2 DEF WechatMenu
<1>4. new.status = Draft /\ new.published_at = 0
  BY <1>1, <1>2 DEF WechatMenu
<1> QED
  BY <1>3, <1>4 DEF Consistent, Draft, Published

LEMMA SaveDraftMInv ==
  ASSUME MInv, NEW r \in Request, SaveDraft(r)
  PROVE  MInv'
<1>1. arrived + 1 \in Nat /\ menus \in [Menu -> WechatMenu]
  BY DEF MInv, TypeOK
<1>2. ASSUME NEW m \in GetByAccountID,
             Arrive(r, "update", m, [menus[m] EXCEPT !.menu_json = arrived + 1])
      PROVE  MInv'
  <2> DEFINE menu == [menus[m] EXCEPT !.menu_json = arrived + 1]
             c == [at |-> "update", id |-> m, menu |-> menu]
  <2>1. m \in Menu /\ Live(m) /\ menus[m] \in WechatMenu /\ Consistent(menus[m])
    BY <1>1 DEF GetByAccountID, Matches, MInv
  <2>2. /\ menu \in WechatMenu
        /\ menu.status = menus[m].status /\ menu.published_at = menus[m].published_at
        /\ menu.updated_at = menus[m].updated_at
    BY <1>1, <2>1, SavedMenu
  <2> HIDE DEF menu
  <2>3. c \in Handler
    BY <2>1, <2>2 DEF Handler
  <2>4. CopySound(c)
    BY <2>1, <2>2 DEF CopySound, Consistent, Live, WechatMenu
  <2> QED
    BY <1>2, <2>3, <2>4, ArriveMInv DEF menu
<1>3. ASSUME NotFound,
             Arrive(r, "create", None, [NoMenu EXCEPT !.phase = "live", !.menu_json = arrived + 1])
      PROVE  MInv'
  <2> DEFINE menu == [NoMenu EXCEPT !.phase = "live", !.menu_json = arrived + 1]
             c == [at |-> "create", id |-> None, menu |-> menu]
  <2>1. menu \in WechatMenu /\ menu.phase = "live" /\ Consistent(menu)
    BY <1>1, NewMenu
  <2> HIDE DEF menu
  <2>2. c \in Handler
    BY <2>1 DEF Handler
  <2>3. CopySound(c)
    BY <2>1 DEF CopySound
  <2>4. LiveMenus = {}
    BY <1>3 DEF NotFound, Matches, LiveMenus
  <2> QED
    BY <1>3, <2>2, <2>3, <2>4, ArriveMInv DEF menu
<1> QED
  BY <1>2, <1>3 DEF SaveDraft

LEMMA PublishMInv ==
  ASSUME MInv, NEW r \in Request, Publish(r)
  PROVE  MInv'
<1>1. PICK m \in GetByAccountID : Arrive(r, "update", m, PublishedAt(menus[m], arrived + 1))
  BY DEF Publish
<1> DEFINE menu == PublishedAt(menus[m], arrived + 1)
           c == [at |-> "update", id |-> m, menu |-> menu]
<1>2. arrived + 1 \in Nat \ {0} /\ m \in Menu /\ Live(m) /\ menus[m] \in WechatMenu
  BY DEF GetByAccountID, Matches, MInv, TypeOK
<1>3. /\ menu \in WechatMenu
      /\ menu.status = Published /\ menu.published_at = arrived + 1
      /\ menu.updated_at = menus[m].updated_at
  BY <1>2, PublishedMenu
<1> HIDE DEF menu
<1>4. c \in Handler
  BY <1>2, <1>3 DEF Handler
<1>5. Consistent(menu)
  BY <1>2, <1>3 DEF Consistent
<1>6. CopySound(c)
  BY <1>2, <1>3, <1>5 DEF CopySound, Live, WechatMenu, Draft, Published
<1> QED
  BY <1>1, <1>4, <1>6, ArriveMInv DEF menu

LEMMA DeleteDraftMInv ==
  ASSUME MInv, NEW r \in Request, DeleteDraft(r)
  PROVE  MInv'
<1>1. PICK m \in GetByAccountID :
        menus[m].status = Draft /\ Arrive(r, "delete", m, menus[m])
  BY DEF DeleteDraft
<1> DEFINE c == [at |-> "delete", id |-> m, menu |-> menus[m]]
<1>2. m \in Menu /\ Live(m) /\ menus[m] \in WechatMenu /\ Consistent(menus[m])
  BY DEF GetByAccountID, Matches, MInv, TypeOK
<1>3. c \in Handler
  BY <1>2 DEF Handler
<1>4. CopySound(c)
  BY <1>1, <1>2 DEF CopySound, Live, WechatMenu
<1> QED
  BY <1>1, <1>3, <1>4, ArriveMInv

-----------------------------------------------------------------------------
(* A handler writes *)

\* A handler that is done leaves the others as they are.
LEMMA CopiesStaySound ==
  ASSUME MInv, NEW r \in Request, req' = [req EXCEPT ![r] = Idle],
         \A m \in Menu : /\ menus'[m].phase = "absent" => menus[m].phase = "absent"
                         /\ menus[m].phase # "absent" =>
                              /\ menus'[m].updated_at >= menus[m].updated_at
                              /\ menus'[m].updated_at = menus[m].updated_at =>
                                   menus'[m].status = menus[m].status,
         menus' \in [Menu -> WechatMenu]
  PROVE  CopiesSound' /\ req' \in [Request -> Handler]
<1>1. req \in [Request -> Handler] /\ menus \in [Menu -> WechatMenu] /\ Idle \in Handler
  BY DEF MInv, TypeOK, Idle, Handler, NoMenu, WechatMenu, Draft, Published
<1>2. req' \in [Request -> Handler]
  BY <1>1
<1>3. ASSUME NEW q \in Request PROVE CopySound(req[q])'
  <2>1. CASE q = r
    <3>1. req'[q] = Idle
      BY <1>1, <2>1
    <3> QED
      BY <3>1 DEF CopySound, Consistent, Idle, NoMenu, Draft, Published
  <2>2. CASE q # r
    <3>1. req'[q] = req[q] /\ req[q] \in Handler
      BY <1>1, <2>2
    <3>2. CopySound(req[q])
      BY DEF MInv
    <3>3. ASSUME req[q].at \in {"update", "delete"}
          PROVE  /\ req[q].id \in Menu
                 /\ menus'[req[q].id].phase # "absent"
                 /\ req[q].menu.updated_at <= menus'[req[q].id].updated_at
                 /\ req[q].menu.status = Draft
                    /\ req[q].menu.updated_at = menus'[req[q].id].updated_at =>
                         menus'[req[q].id].status = Draft
      <4> DEFINE m == req[q].id
      <4>1. /\ m \in Menu
            /\ menus[m].phase # "absent"
            /\ req[q].menu.updated_at <= menus[m].updated_at
            /\ req[q].menu.status = Draft /\ req[q].menu.updated_at = menus[m].updated_at =>
                 menus[m].status = Draft
        BY <3>2, <3>3 DEF CopySound
      <4>2. req[q].menu.updated_at \in Nat /\ menus[m].updated_at \in Nat
            /\ menus'[m].updated_at \in Nat
        BY <1>1, <3>1, <4>1 DEF Handler, WechatMenu
      <4>3. /\ menus'[m].phase # "absent"
            /\ menus'[m].updated_at >= menus[m].updated_at
            /\ menus'[m].updated_at = menus[m].updated_at => menus'[m].status = menus[m].status
        BY <4>1
      <4> QED
        BY <4>1, <4>2, <4>3
    <3> QED
      BY <3>1, <3>2, <3>3 DEF CopySound, Consistent
  <2> QED
    BY <2>1, <2>2
<1> QED
  BY <1>2, <1>3 DEF CopiesSound

\* The handler's row is written; it was live before or is new, and live
\* menus and creations together do not grow.
LEMMA WriteMInv ==
  ASSUME MInv, NEW r \in Request, NEW m \in Menu, NEW row \in WechatMenu, Write(r, m, row),
         Consistent(row), row.phase # "absent",
         row.updated_at <= now + 1, row.updated_at >= menus[m].updated_at,
         row.updated_at = menus[m].updated_at => row.status = menus[m].status,
         \/ row.phase = "live" => Live(m)
         \/ req[r].at = "create"
  PROVE  MInv'
<1>1. menus \in [Menu -> WechatMenu] /\ req \in [Request -> Handler] /\ now \in Nat
  BY DEF MInv, TypeOK
<1>2. /\ menus' = [menus EXCEPT ![m] = row]
      /\ req' = [req EXCEPT ![r] = Idle]
      /\ now' = now + 1 /\ arrived' = arrived
  BY DEF Write
<1>3. menus' \in [Menu -> WechatMenu] /\ now' \in Nat
  BY <1>1, <1>2
<1>4. menus'[m] = row /\ \A n \in Menu : n # m => menus'[n] = menus[n]
  BY <1>1, <1>2
<1>5. \A n \in Menu : menus[n].updated_at \in Nat /\ menus'[n].updated_at \in Nat
  BY <1>1, <1>3 DEF WechatMenu
<1>6. RowsSound'
  <2> SUFFICES ASSUME NEW n \in Menu
               PROVE  Consistent(menus'[n]) /\ menus'[n].updated_at <= now'
    BY DEF RowsSound, Consistent
  <2>1. CASE n = m
    BY <1>2, <1>4, <2>1
  <2>2. CASE n # m
    <3>1. Consistent(menus[n]) /\ menus[n].updated_at <= now
      BY DEF MInv
    <3> QED
      BY <1>1, <1>2, <1>4, <1>5, <2>2, <3>1
  <2> QED
    BY <2>1, <2>2
<1>7. CopiesSound' /\ req' \in [Request -> Handler]
  <2>1. \A n \in Menu :
          /\ menus'[n].phase = "absent" => menus[n].phase = "absent"
          /\ menus[n].phase # "absent" =>
               /\ menus'[n].updated_at >= menus[n].updated_at
               /\ menus'[n].updated_at = menus[n].updated_at =>
                    menus'[n].status = menus[n].status
    BY <1>4, <1>5
  <2> QED
    BY <1>2, <1>3, <2>1, CopiesStaySound
<1>8. MenusBounded'
  <2>1. IsFiniteSet(LiveMenus) /\ IsFiniteSet(Creating)
    <3>1. LiveMenus \subseteq Menu /\ Creating \subseteq Request
      BY DEF LiveMenus, Creating
    <3> QED
      BY <3>1, MenuAssumption, FS_Subset
  <2>2. Creating' = Creating \ {r}
    BY <1>1, <1>2 DEF Creating, Idle
  <2>3. CASE row.phase = "live" => Live(m)
    <3>1. LiveMenus' \subseteq LiveMenus
      BY <1>4, <2>3 DEF LiveMenus, Live
    <3>2. Cardinality(LiveMenus') <= Cardinality(LiveMenus)
          /\ Cardinality(LiveMenus') \in Nat /\ Cardinality(LiveMenus) \in Nat
      BY <2>1, <3>1, FS_Subset, FS_CardinalityType
    <3>3. Cardinality(Creating') <= Cardinality(Creating)
          /\ Cardinality(Creating') \in Nat /\ Cardinality(Creating) \in Nat
      BY <2>1, <2>2, FS_Subset, FS_CardinalityType
    <3>4. Cardinality(Request) \in Nat
      BY MenuAssumption, FS_CardinalityType
    <3> QED
      BY <3>2, <3>3, <3>4 DEF MInv, MenusBounded
  <2>4. CASE req[r].at = "create"
    <3>1. LiveMenus' \subseteq LiveMenus \cup {m}
      BY <1>4 DEF LiveMenus, Live
    <3>2. /\ IsFiniteSet(LiveMenus \cup {m})
          /\ Cardinality(LiveMenus \cup {m}) =
               IF m \in LiveMenus THEN Cardinality(LiveMenus) ELSE Cardinality(LiveMenus) + 1
      BY <2>1, FS_AddElement
    <3>3. Cardinality(LiveMenus') <= Cardinality(LiveMenus) + 1
          /\ Cardinality(LiveMenus') \in Nat /\ Cardinality(LiveMenus) \in Nat
      <4>1. Cardinality(LiveMenus) \in Nat
        BY <2>1, FS_CardinalityType
      <4>2. /\ IsFiniteSet(LiveMenus')
            /\ Cardinality(LiveMenus') <= Cardinality(LiveMenus \cup {m})
        BY <3>1, <3>2, FS_Subset
      <4>3. Cardinality(LiveMenus') \in Nat
        BY <4>2, FS_CardinalityType
      <4> QED
        BY <3>2, <4>1, <4>2, <4>3
    <3>4. r \in Creating
      BY <2>4 DEF Creating
    <3>5. Cardinality(Creating') = Cardinality(Creating) - 1
          /\ Cardinality(Creating') \in Nat /\ Cardinality(Creating) \in Nat
      BY <2>1, <2>2, <3>4, FS_RemoveElement, FS_CardinalityType
    <3>6. Cardinality(Request) \in Nat
      BY MenuAssumption, FS_CardinalityType
    <3> QED
      BY <3>3, <3>5, <3>6 DEF MInv, MenusBounded
  <2> QED
    BY <2>3, <2>4
<1> QED
  BY <1>2, <1>3, <1>6, <1>7, <1>8 DEF MInv, TypeOK, RowsSound, CopiesSound

LEMMA CreateMInv ==
  ASSUME MInv, NEW r \in Request, Create(r)
  PROVE  MInv'
<1>1. PICK m \in Menu : /\ menus[m].phase = "absent"
                        /\ Write(r, m, [req[r].menu EXCEPT !.updated_at = now + 1])
  BY DEF Create
<1> DEFINE read == req[r].menu
           row == [read EXCEPT !.updated_at = now + 1]
<1>2. read \in WechatMenu /\ now \in Nat /\ menus[m] \in WechatMenu
  BY DEF MInv, TypeOK, Handler
<1>3. Consistent(read) /\ read.phase = "live"
  BY DEF MInv, CopySound, Create
<1>4. /\ row \in WechatMenu /\ row.phase = read.phase /\ row.status = read.status
      /\ row.published_at = read.published_at /\ row.updated_at = now + 1
  BY <1>2 DEF WechatMenu
<1>5. menus[m].updated_at <= now /\ menus[m].updated_at \in Nat
  BY <1>2 DEF MInv, WechatMenu
<1> HIDE DEF row, read
<1>6. Consistent(row) /\ row.phase # "absent"
  BY <1>3, <1>4 DEF Consistent
<1>7. row.updated_at <= now + 1 /\ row.updated_at > menus[m].updated_at
  BY <1>2, <1>4, <1>5
<1>8. req[r].at = "create" /\ Write(r, m, row)
  BY <1>1 DEF Create, row, read
<1> QED
  BY <1>2, <1>4, <1>5, <1>6, <1>7, <1>8, WriteMInv

LEMMA UpdateMInv ==
  ASSUME MInv, NEW r \in Request, Update(r)
  PROVE  MInv'
<1> DEFINE m == req[r].id
           read == req[r].menu
           a == [menus[m] EXCEPT !.menu_json = read.menu_json]
           b == [a EXCEPT !.status = read.status]
           c == [b EXCEPT !.published_at = read.published_at]
           row == [c EXCEPT !.updated_at = now + 1]
<1>1. read \in WechatMenu /\ now \in Nat
  BY DEF MInv, TypeOK, Handler
<1>2. Consistent(read) /\ m \in Menu
  BY DEF MInv, CopySound, Update
<1>3. menus[m] \in WechatMenu /\ menus[m].phase = "live"
  BY <1>2 DEF MInv, TypeOK, Update, Live
<1>4. Write(r, m, row)
  BY DEF Update
<1>5. /\ row \in WechatMenu /\ row.phase = "live" /\ row.status = read.status
      /\ row.published_at = read.published_at /\ row.updated_at = now + 1
  <2>1. a \in WechatMenu /\ a.phase = "live"
    BY <1>1, <1>3 DEF WechatMenu
  <2> HIDE DEF a
  <2>2. b \in WechatMenu /\ b.phase = "live" /\ b.status = read.status
    BY <1>1, <2>1 DEF WechatMenu
  <2> HIDE DEF b
  <2>3. /\ c \in WechatMenu /\ c.phase = "live" /\ c.status = read.status
        /\ c.published_at = read.published_at
    BY <1>1, <2>2 DEF WechatMenu
  <2> HIDE DEF c
  <2> QED
    BY <1>1, <2>3 DEF WechatMenu
<1>6. menus[m].updated_at <= now /\ menus[m].updated_at \in Nat
  BY <1>2, <1>3 DEF MInv, WechatMenu
<1> HIDE DEF row, read
<1>7. Consistent(row) /\ row.phase # "absent"
  BY <1>2, <1>5 DEF Consistent
<1>8. row.updated_at <= now + 1 /\ row.updated_at > menus[m].updated_at
  BY <1>1, <1>5, <1>6
<1>9. Live(m)
  BY <1>3 DEF Live
<1> HIDE DEF m
<1> QED
  BY <1>1, <1>2, <1>4, <1>5, <1>6, <1>7, <1>8, <1>9, WriteMInv

\* The row of a menu that is deleted.
LEMMA DeletedMenu ==
  ASSUME NEW menu \in WechatMenu, NEW time \in Nat
  PROVE  /\ DeletedAt(menu, time) \in WechatMenu
         /\ DeletedAt(menu, time).phase = "deleted"
         /\ DeletedAt(menu, time).status = menu.status
         /\ DeletedAt(menu, time).published_at = menu.published_at
         /\ DeletedAt(menu, time).updated_at = time
<1> DEFINE s == [menu EXCEPT !.phase = "deleted"]
<1>1. /\ s \in WechatMenu /\ s.phase = "deleted" /\ s.status = menu.status
      /\ s.published_at = menu.published_at
  BY DEF WechatMenu
<1>2. DeletedAt(menu, time) = [s EXCEPT !.updated_at = time]
  BY DEF DeletedAt
<1> HIDE DEF s
<1> QED
  BY <1>1, <1>2 DEF WechatMenu

LEMMA SoftDeleteMInv ==
  ASSUME MInv, NEW r \in Request, SoftDelete(r)
  PROVE  MInv'
<1> DEFINE m == req[r].id
           row == DeletedAt(menus[m], now + 1)
<1>1. m \in Menu /\ now \in Nat
  BY DEF MInv, TypeOK, CopySound, SoftDelete
<1>2. menus[m] \in WechatMenu /\ Consistent(menus[m]) /\ menus[m].updated_at <= now
  BY <1>1 DEF MInv, TypeOK
<1>3. /\ row \in WechatMenu /\ row.phase = "deleted" /\ row.status = menus[m].status
      /\ row.published_at = menus[m].published_at /\ row.updated_at = now + 1
  BY <1>1, <1>2, DeletedMenu
<1>4. Write(r, m, row)
  BY DEF SoftDelete
<1> HIDE DEF row
<1>5. Consistent(row) /\ row.phase # "absent" /\ row.phase # "live"
  BY <1>2, <1>3 DEF Consistent
<1>6. row.updated_at <= now + 1 /\ row.updated_at > menus[m].updated_at
      /\ menus[m].updated_at \in Nat
  BY <1>1, <1>2, <1>3 DEF WechatMenu
<1> HIDE DEF m
<1> QED
  BY <1>1, <1>3, <1>4, <1>5, <1>6, WriteMInv

LEMMA WriteFailsMInv ==
  ASSUME MInv, NEW r \in Request, WriteFails(r)
  PROVE  MInv'
<1>1. /\ req' = [req EXCEPT ![r] = Idle] /\ UNCHANGED <<menus, arrived, now>>
      /\ req \in [Request -> Handler] /\ menus \in [Menu -> WechatMenu]
  BY DEF WriteFails, MInv, TypeOK
<1>2. CopiesSound' /\ req' \in [Request -> Handler]
  <2>1. \A m \in Menu : menus[m].updated_at \in Nat
    BY <1>1 DEF WechatMenu
  <2>2. /\ \A m \in Menu : menus'[m].phase = "absent" => menus[m].phase = "absent"
        /\ \A m \in Menu : menus[m].phase # "absent" =>
             /\ menus'[m].updated_at >= menus[m].updated_at
             /\ menus'[m].updated_at = menus[m].updated_at =>
                  menus'[m].status = menus[m].status
    BY <1>1, <2>1
  <2> QED
    BY <1>1, <2>2, CopiesStaySound
<1>3. MenusBounded'
  <2>1. LiveMenus' = LiveMenus
    BY <1>1 DEF LiveMenus, Live
  <2>2. Creating' = Creating \ {r}
    BY <1>1 DEF Creating, Idle
  <2>3. IsFiniteSet(LiveMenus) /\ IsFiniteSet(Creating)
    <3>1. LiveMenus \subseteq Menu /\ Creating \subseteq Request
      BY DEF LiveMenus, Creating
    <3> QED
      BY <3>1, MenuAssumption, FS_Subset
  <2>4. Cardinality(Creating') <= Cardinality(Creating)
        /\ Cardinality(Creating') \in Nat /\ Cardinality(Creating) \in Nat
    BY <2>2, <2>3, FS_Subset, FS_CardinalityType
  <2>5. Cardinality(LiveMenus) \in Nat /\ Cardinality(Request) \in Nat
    BY <2>3, MenuAssumption, FS_CardinalityType
  <2> QED
    BY <2>1, <2>4, <2>5 DEF MInv, MenusBounded
<1> QED
  BY <1>1, <1>2, <1>3 DEF MInv, TypeOK, CopiesSound, Consistent

LEMMA StutterMInv == MInv /\ UNCHANGED vars => MInv'
  BY DEF MInv, TypeOK, CopySound, Consistent, MenusBounded, LiveMenus, Live, Creating, vars

-----------------------------------------------------------------------------

\* The inductive invariant, and with it MenusBounded: an account has at most
\* as many live menus as requests ran at once.
THEOREM InvariantHolds == Spec => []MInv
<1>1. MInv /\ [Next]_vars => MInv'
  BY SaveDraftMInv, PublishMInv, DeleteDraftMInv, CreateMInv, UpdateMInv, SoftDeleteMInv,
     WriteFailsMInv, StutterMInv DEF Next
<1> QED
  BY <1>1, InitMInv, PTL DEF Spec

\* menu.go, SaveDraft, "check whether there is a draft already": however many
\* requests follow, menus are never more than requests that ran at once.
THEOREM FewMenus == Spec => []MenusBounded
<1>1. MInv => MenusBounded
  BY DEF MInv
<1> QED
  BY <1>1, InvariantHolds, PTL

\* Which row a step changes, and who changes it.
LEMMA WhoWrites ==
  ASSUME MInv, Next, NEW m \in Menu, menus'[m] # menus[m], menus[m].phase # "absent"
  PROVE  /\ Live(m)
         /\ \E r \in Request :
              /\ req[r].id = m /\ req'[r] = Idle
              /\ \/ /\ req[r].at = "update"
                    /\ menus'[m].phase = "live" /\ menus'[m].status = req[r].menu.status
                 \/ req[r].at = "delete"
<1>1. menus \in [Menu -> WechatMenu] /\ req \in [Request -> Handler]
  BY DEF MInv, TypeOK
<1>2. PICK r \in Request : Create(r) \/ Update(r) \/ SoftDelete(r)
  BY DEF Next, SaveDraft, Publish, DeleteDraft, Arrive, WriteFails
<1>3. ~Create(r)
  BY <1>1 DEF Create, Write
<1>4. req[r].id \in Menu /\ Live(req[r].id) /\ req'[r] = Idle
  BY <1>1, <1>2, <1>3 DEF MInv, CopySound, Update, SoftDelete, Write
<1>5. req[r].id = m
  BY <1>1, <1>2, <1>3, <1>4 DEF Update, SoftDelete, Write
<1>6. CASE Update(r)
  <2> DEFINE read == req[r].menu
             a == [menus[m] EXCEPT !.menu_json = read.menu_json]
             b == [a EXCEPT !.status = read.status]
             c == [b EXCEPT !.published_at = read.published_at]
             row == [c EXCEPT !.updated_at = now + 1]
  <2>1. menus' = [menus EXCEPT ![m] = row]
    BY <1>5, <1>6 DEF Update, Write
  <2>2. menus'[m] = row
    BY <1>1, <2>1
  <2>3. row.phase = "live" /\ row.status = read.status
    <3>1. menus[m] \in WechatMenu /\ menus[m].phase = "live" /\ read \in WechatMenu
      BY <1>1, <1>4, <1>5 DEF Live, Handler
    <3>2. a \in WechatMenu /\ a.phase = "live"
      BY <3>1 DEF WechatMenu
    <3> HIDE DEF a
    <3>3. b \in WechatMenu /\ b.phase = "live" /\ b.status = read.status
      BY <3>1, <3>2 DEF WechatMenu
    <3> HIDE DEF b
    <3>4. c \in WechatMenu /\ c.phase = "live" /\ c.status = read.status
      BY <3>1, <3>3 DEF WechatMenu
    <3> HIDE DEF c
    <3> QED
      BY <3>4 DEF WechatMenu
  <2> HIDE DEF row
  <2> QED
    BY <1>4, <1>5, <1>6, <2>2, <2>3 DEF Update
<1>7. CASE SoftDelete(r)
  BY <1>4, <1>5, <1>7 DEF SoftDelete
<1> QED
  BY <1>2, <1>3, <1>6, <1>7

\* A deleted menu stays as it is, whichever handlers hold a copy of it.
THEOREM DeletedForGood == Spec => DeletedStays
<1>1. MInv /\ [Next]_vars =>
        [\A m \in Menu : menus[m].phase = "deleted" => menus'[m] = menus[m]]_vars
  BY WhoWrites DEF Live
<1> QED
  BY <1>1, InvariantHolds, PTL DEF Spec, DeletedStays

\* Only a request that read a menu before its publication takes it back, and
\* none brings a deleted one back.
THEOREM PublicationsKept == Spec => PublicationKept
<1> DEFINE Undone(m) == /\ Live(m) /\ menus[m].status = Published
                        /\ menus'[m].phase = "deleted" \/ menus'[m].status = Draft
           ByStale(m) == \E r \in Request : /\ req[r].id = m /\ req'[r] = Idle
                                            /\ req[r].menu.updated_at < menus[m].updated_at
<1>1. MInv /\ [Next]_vars => [\A m \in Menu : Undone(m) => ByStale(m)]_vars
  <2> SUFFICES ASSUME MInv, Next, NEW m \in Menu, Undone(m)
               PROVE  ByStale(m)
    OBVIOUS
  <2>1. menus'[m] # menus[m] /\ menus[m].phase # "absent"
    BY DEF Live, Draft, Published
  <2>2. PICK r \in Request :
          /\ req[r].id = m /\ req'[r] = Idle
          /\ \/ /\ req[r].at = "update"
                /\ menus'[m].phase = "live" /\ menus'[m].status = req[r].menu.status
             \/ req[r].at = "delete"
    BY <2>1, WhoWrites
  <2>3. CopySound(req[r]) /\ req[r].menu.updated_at \in Nat /\ menus[m].updated_at \in Nat
    BY DEF MInv, TypeOK, Handler, WechatMenu
  <2>4. req[r].menu.status = Draft
    BY <2>2, <2>3 DEF CopySound
  <2>5. /\ req[r].menu.updated_at <= menus[m].updated_at
        /\ req[r].menu.updated_at = menus[m].updated_at => menus[m].status = Draft
    BY <2>2, <2>3, <2>4 DEF CopySound
  <2> QED
    BY <2>2, <2>3, <2>5 DEF Draft, Published
<1> QED
  BY <1>1, InvariantHolds, DeletedForGood, PTL DEF Spec, PublicationKept, Undone, ByStale
=============================================================================
