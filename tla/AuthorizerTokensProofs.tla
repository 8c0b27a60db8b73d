------------------------ MODULE AuthorizerTokensProofs ------------------------
(***************************************************************************)
(* Proofs about AuthorizerTokens, for any number of accounts, apps,        *)
(* tenants, concurrent requests and tokens.                                *)
(*                                                                         *)
(* The argument: a statement of the repository never changes what a row is *)
(* (Stable), so what a handler knew of a row when it read it is still true *)
(* of the row it writes; hence every write keeps the table sound.          *)
(***************************************************************************)
EXTENDS AuthorizerTokens, TLAPS

TableSound ==
  /\ table \in [Account -> Row \cup {Absent}]
  /\ RowsSound
  /\ OneRowPerApp

CacheSound == cache \in [Account -> MaybeToken] /\ CachedForItsApp

CountersSound ==
  preAuth \subseteq Tenant /\ issued \in 0 .. MaxIssue /\ expired \in 0 .. issued

\* Rows stay, with their kind and tenant, and a platform row with its app.
Stable ==
  \A id \in Account :
    table[id] # Absent =>
      /\ table'[id] # Absent
      /\ table'[id].kind = table[id].kind
      /\ table'[id].tenant = table[id].tenant
      /\ table[id].kind = Platform => table'[id].app = table[id].app

-----------------------------------------------------------------------------
(* Values *)

LEMMA Nulls == NoToken \notin Token /\ Absent \notin Row
BY DEF NoToken, Token, Absent, Row

LEMMA IInvParts ==
  IInv <=> /\ TableSound /\ CacheSound /\ CountersSound
           /\ req \in [Request -> Invocation] /\ RequestsSound
BY DEF IInv, TypeOK, TableSound, CacheSound, CountersSound

LEMMA NewTokenType ==
  ASSUME NEW a \in App, CountersSound, Issue(a)
  PROVE  /\ NewToken(a) \in Token
         /\ NewToken(a).app = a
         /\ issued' \in 0 .. MaxIssue
         /\ expired \in 0 .. issued'
BY BoundAssumption DEF Issue, NewToken, Token, CountersSound

-----------------------------------------------------------------------------
(* The statements of the repository *)

LEMMA UnchangedTable ==
  ASSUME TableSound, UNCHANGED table
  PROVE  TableSound' /\ Stable
BY DEF TableSound, Stable, RowsSound, OneRowPerApp, Live

\* One row is rewritten: sound if the new row is, and clashes with no other.
LEMMA RewriteRow ==
  ASSUME TableSound, NEW id \in Account, NEW row \in Row,
         table' = [table EXCEPT ![id] = row],
         Credentialed(row),
         table[id] # Absent =>
           /\ row.kind = table[id].kind
           /\ row.tenant = table[id].tenant
           /\ row.kind = Platform => row.app = table[id].app,
         row.phase = "live" =>
           \A j \in Account \ {id} :
             Live(j) /\ table[j].kind = row.kind => table[j].app # row.app
  PROVE  TableSound' /\ Stable
<1>1. table' \in [Account -> Row \cup {Absent}]
  BY DEF TableSound
<1>2. RowsSound'
  BY DEF TableSound, RowsSound
<1>3. OneRowPerApp'
  BY DEF TableSound, OneRowPerApp, Live
<1>4. Stable
  BY Nulls DEF TableSound, Stable
<1>. QED  BY <1>1, <1>2, <1>3, <1>4 DEF TableSound

\* What is already so of a live row stays so when its app does.
LEMMA NoClash ==
  ASSUME TableSound, NEW id \in Account, Live(id)
  PROVE  \A j \in Account \ {id} :
           Live(j) /\ table[j].kind = table[id].kind => table[j].app # table[id].app
BY DEF TableSound, OneRowPerApp

LEMMA UpdateTokenSound ==
  ASSUME TableSound, NEW id \in Account, NEW t \in Token,
         PlatformRow(id, t.app), UpdateToken(id, t)
  PROVE  TableSound' /\ Stable
<1>1. CASE ~Live(id)
  BY <1>1, UnchangedTable DEF UpdateToken
<1>2. CASE Live(id)
  <2> DEFINE row == [table[id] EXCEPT !.access = t, !.refresh = t, !.status = Normal]
  <2>1. table[id] \in Row
    BY DEF TableSound, PlatformRow
  <2>2. row \in Row /\ Credentialed(row)
    <3>1. t \in MaybeToken /\ Normal \in NotConnected .. Revoked
      BY DEF MaybeToken, NotConnected, Normal, Revoked
    <3>2. row \in Row
      BY <2>1, <3>1 DEF Row
    <3>3. row.access = t /\ row.refresh = t /\ row.app = t.app /\ row.kind = Platform
      BY <2>1 DEF Row, PlatformRow
    <3>. QED  BY <3>2, <3>3 DEF Credentialed, Platform, Manual
  <2>3. table' = [table EXCEPT ![id] = row]
    BY <1>2, <2>1 DEF UpdateToken, TableSound, Row
  <2>4. row.kind = table[id].kind /\ row.tenant = table[id].tenant /\ row.app = table[id].app
    BY <2>1 DEF Row
  <2>. HIDE DEF row
  <2>. QED  BY <1>2, <2>2, <2>3, <2>4, NoClash, RewriteRow
<1>. QED  BY <1>1, <1>2

LEMMA UpdateAuthStatusSound ==
  ASSUME TableSound, NEW id \in Account, NEW s \in NotConnected .. Revoked,
         PlatformRow(id, table[id].app), UpdateAuthStatus(id, s)
  PROVE  TableSound' /\ Stable
<1>1. CASE ~Live(id)
  BY <1>1, UnchangedTable DEF UpdateAuthStatus
<1>2. CASE Live(id)
  <2> DEFINE row == [table[id] EXCEPT !.status = s]
  <2>1. table[id] \in Row /\ Credentialed(table[id])
    BY DEF TableSound, RowsSound, PlatformRow
  <2>2. row \in Row /\ Credentialed(row)
    BY <2>1 DEF Row, Credentialed, PlatformRow, Platform, Manual
  <2>3. table' = [table EXCEPT ![id] = row]
    BY <1>2, <2>1 DEF UpdateAuthStatus, TableSound, Row
  <2>4. row.kind = table[id].kind /\ row.tenant = table[id].tenant /\ row.app = table[id].app
    BY <2>1 DEF Row
  <2>. HIDE DEF row
  <2>. QED  BY <1>2, <2>2, <2>3, <2>4, NoClash, RewriteRow
<1>. QED  BY <1>1, <1>2

\* Writing back a copy is sound if the copy is, and the index lets it.
LEMMA UpdateRowSound ==
  ASSUME TableSound, NEW id \in Account, NEW copy \in Row,
         Live(id), table[id] # Absent, Credentialed(copy),
         copy.kind = table[id].kind,
         copy.kind = Platform => copy.app = table[id].app,
         Unique(id, copy),
         UpdateRow(id, copy)
  PROVE  TableSound' /\ Stable
<1> DEFINE row == [copy EXCEPT !.phase = table[id].phase, !.tenant = table[id].tenant]
<1>1. table[id] \in Row
  BY DEF TableSound
<1>2. row \in Row /\ Credentialed(row)
  BY <1>1 DEF Row, Credentialed
<1>3. row.kind = copy.kind /\ row.tenant = table[id].tenant /\ row.app = copy.app
  BY <1>1 DEF Row
<1>4. \A j \in Account \ {id} :
        Live(j) /\ table[j].kind = copy.kind => table[j].app # copy.app
  <2>1. CASE copy.kind = Platform
    BY <2>1, NoClash
  <2>2. CASE copy.kind = Manual
    <3>1. \A j \in Account : Live(j) /\ table[j].kind = Manual => table[j].status = Normal
      BY Nulls DEF TableSound, RowsSound, Credentialed, Live, Absent
    <3>. QED  BY <2>2, <3>1 DEF Unique, ManualHolders, NotConnected, Normal
  <2>. QED  BY <2>1, <2>2 DEF Row
<1>5. table' = [table EXCEPT ![id] = row]
  BY DEF UpdateRow
<1>. HIDE DEF row
<1>. QED  BY <1>2, <1>3, <1>4, <1>5, RewriteRow

\* A new row is sound if no live row of its kind holds its app.
LEMMA InsertSound ==
  ASSUME TableSound, NEW row \in Row, Credentialed(row), NEW holders,
         holders = IF row.kind = Platform THEN Authorizers(row.app)
                                          ELSE ManualHolders(row.app),
         Insert(row, holders)
  PROVE  TableSound' /\ Stable
<1>1. PICK id \in Account : table[id] = Absent /\ table' = [table EXCEPT ![id] = row]
  BY DEF Insert
<1>2. \A j \in Account \ {id} :
        Live(j) /\ table[j].kind = row.kind => table[j].app # row.app
  <2>1. \A j \in Account : Live(j) /\ table[j].kind = Manual => table[j].status = Normal
    BY Nulls DEF TableSound, RowsSound, Credentialed, Live, Absent
  <2>2. row.kind \in {Manual, Platform}
    BY DEF Row
  <2>. QED
    BY <2>1, <2>2 DEF Insert, Authorizers, ManualHolders, NotConnected, Normal,
                      Manual, Platform
<1>. QED  BY <1>1, <1>2, RewriteRow

LEMMA NewRowSound ==
  ASSUME NEW kind \in {Manual, Platform}, NEW t \in Tenant, NEW token \in Token
  PROVE  LET row == NewRow(kind, t, token, IF kind = Platform THEN token ELSE NoToken)
         IN  row \in Row /\ Credentialed(row) /\ row.kind = kind /\ row.app = token.app
BY DEF NewRow, Row, Credentialed, Token, MaybeToken, NotConnected, Normal, Revoked

LEMMA SoftDeleteSound ==
  ASSUME TableSound, NEW id \in Account, Live(id),
         table' = [table EXCEPT ![id].phase = "deleted"]
  PROVE  TableSound' /\ Stable
<1> DEFINE row == [table[id] EXCEPT !.phase = "deleted"]
<1>1. table[id] \in Row /\ Credentialed(table[id])
  BY Nulls DEF TableSound, RowsSound, Live, Absent
<1>2. row \in Row /\ Credentialed(row) /\ row.phase # "live"
  BY <1>1 DEF Row, Credentialed
<1>3. row.kind = table[id].kind /\ row.tenant = table[id].tenant /\ row.app = table[id].app
  BY <1>1 DEF Row
<1>4. table' = [table EXCEPT ![id] = row]
  BY DEF TableSound
<1>. HIDE DEF row
<1>. QED  BY <1>2, <1>3, <1>4, RewriteRow

-----------------------------------------------------------------------------
(* What the handlers know *)

\* What a handler knows survives every statement another one runs.
LEMMA KnowledgeStable ==
  ASSUME TableSound, Stable, NEW q \in Invocation, RequestSound(q)
  PROVE  RequestSound(q)'
<1>1. \A row \in Row, id \in Account : CopyOf(row, id) => CopyOf(row, id)'
  BY DEF Stable, CopyOf, Credentialed
<1>2. \A a : \A id \in Account : PlatformRow(id, a) => PlatformRow(id, a)'
  BY DEF Stable, PlatformRow
<1>. QED
  BY <1>1, <1>2 DEF RequestSound, Stable, Invocation, CopyOf, PlatformRow

\* One handler moves on: the others keep what they know.
LEMMA MoveSound ==
  ASSUME IInv, TableSound', Stable, CacheSound', CountersSound',
         NEW r \in Request, NEW q \in Invocation,
         req' = [req EXCEPT ![r] = q],
         RequestSound(q)
  PROVE  IInv'
<1>1. req' \in [Request -> Invocation]
  BY IInvParts
<1>2. ASSUME NEW other \in Request
      PROVE  RequestSound(req[other])'
  <2>1. CASE other = r
    <3>1. req'[other] = q
      BY <2>1, IInvParts
    <3>2. RequestSound(q)'
      BY IInvParts, KnowledgeStable
    <3>. QED  BY <3>1, <3>2 DEF RequestSound, CopyOf, PlatformRow
  <2>2. CASE other # r
    <3> DEFINE p == req[other]
    <3>1. req'[other] = p /\ p \in Invocation /\ RequestSound(p)
      BY <2>2, IInvParts DEF RequestsSound
    <3>2. TableSound
      BY IInvParts
    <3>3. ASSUME NEW same, same = p PROVE RequestSound(same)'
      BY <3>1, <3>2, <3>3, KnowledgeStable DEF RequestSound, CopyOf, PlatformRow
    <3>. QED  BY <3>1, <3>3 DEF RequestSound, CopyOf, PlatformRow
  <2>. QED  BY <2>1, <2>2
<1>3. RequestsSound'
  BY <1>2 DEF RequestsSound
<1>. QED  BY <1>1, <1>3, IInvParts DEF IInv, TypeOK, TableSound, CacheSound, CountersSound

LEMMA IdleSound == Idle \in Invocation /\ RequestSound(Idle)
BY DEF Idle, Invocation, Steps, MaybeToken, RequestSound

LEMMA FinishSound ==
  ASSUME IInv, TableSound', Stable, CacheSound', CountersSound',
         NEW r \in Request, Finish(r)
  PROVE  IInv'
BY IdleSound, MoveSound DEF Finish

\* The cache while only the table changes, and while one key is written.
LEMMA CacheKept ==
  ASSUME TableSound, CacheSound, Stable, UNCHANGED cache
  PROVE  CacheSound'
BY DEF CacheSound, CachedForItsApp, Stable

LEMMA CacheWritten ==
  ASSUME TableSound, CacheSound, UNCHANGED table,
         NEW id \in Account, NEW t \in MaybeToken,
         t # NoToken => /\ table[id] # Absent
                        /\ table[id].kind = Platform => t.app = table[id].app,
         cache' = [cache EXCEPT ![id] = t]
  PROVE  CacheSound'
BY DEF CacheSound, CachedForItsApp

LEMMA CountersKept ==
  ASSUME CountersSound, UNCHANGED <<preAuth, issued, expired>>
  PROVE  CountersSound'
BY DEF CountersSound

LEMMA Issued ==
  ASSUME CountersSound, NEW a \in App, Issue(a), UNCHANGED <<preAuth, expired>>
  PROVE  CountersSound' /\ NewToken(a) \in Token /\ NewToken(a).app = a
BY NewTokenType DEF CountersSound

\* A step that reads only: the table, the cache and the counters stay.
LEMMA ReadOnly ==
  ASSUME IInv, UNCHANGED <<table, cache>>, CountersSound'
  PROVE  TableSound' /\ Stable /\ CacheSound'
BY IInvParts, UnchangedTable, CacheKept

\* A step that writes the table only.
LEMMA TableWritten ==
  ASSUME IInv, TableSound', Stable, UNCHANGED <<cache, preAuth, issued, expired>>
  PROVE  CacheSound' /\ CountersSound'
BY IInvParts, CacheKept, CountersKept

\* A handler knows its step and, once it has looked one up, its account.
LEMMA Knows ==
  ASSUME IInv, NEW r \in Request
  PROVE  /\ req[r] \in Invocation
         /\ RequestSound(req[r])
         /\ TableSound /\ CacheSound /\ CountersSound
BY IInvParts DEF RequestsSound

\* A row read from the table is a copy of itself.
LEMMA ReadCopy ==
  ASSUME TableSound, NEW id \in Account, Live(id)
  PROVE  CopyOf(table[id], id) /\ table[id] \in Row
BY Nulls DEF TableSound, RowsSound, CopyOf, Live, Absent

-----------------------------------------------------------------------------
(* The actions *)

LEMMA HandleAuthorizedSound ==
  ASSUME IInv, NEW r \in Request, NEW a \in App, NEW t \in Tenant,
         HandleAuthorized(r, a, t)
  PROVE  IInv'
<1> DEFINE q == [Idle EXCEPT !.at = "auth.find", !.tenant = t, !.token = NewToken(a)]
<1>1. CountersSound' /\ NewToken(a) \in Token
  BY IInvParts, Issued DEF HandleAuthorized
<1>2. TableSound' /\ Stable /\ CacheSound'
  BY <1>1, ReadOnly DEF HandleAuthorized
<1>3. q \in Invocation
  BY <1>1 DEF Invocation, Idle, Steps, MaybeToken
<1>4. RequestSound(q)
  BY <1>1 DEF RequestSound, Idle
<1>5. req' = [req EXCEPT ![r] = q]
  BY DEF HandleAuthorized, Begin
<1>. HIDE DEF q
<1>. QED  BY <1>1, <1>2, <1>3, <1>4, <1>5, MoveSound

LEMMA FindAuthorizedSound ==
  ASSUME IInv, NEW r \in Request, FindAuthorized(r)
  PROVE  IInv'
<1>1. req[r] \in Invocation /\ RequestSound(req[r]) /\ TableSound /\ CountersSound
  BY Knows
<1>2. req[r].at = "auth.find" /\ req[r].token \in Token /\ req[r].tenant \in Tenant
      /\ req[r].id = None
  BY <1>1 DEF FindAuthorized, At, RequestSound
<1>3. CountersSound' /\ TableSound' /\ Stable /\ CacheSound'
  BY <1>1, CountersKept, ReadOnly DEF FindAuthorized
<1>4. CASE \E id \in Authorizers(req[r].token.app) :
             req' = [req EXCEPT ![r].at = "auth.save", ![r].id = id, ![r].row = table[id]]
  <2>1. PICK id \in Authorizers(req[r].token.app) :
             req' = [req EXCEPT ![r].at = "auth.save", ![r].id = id, ![r].row = table[id]]
    BY <1>4
  <2> DEFINE q == [req[r] EXCEPT !.at = "auth.save", !.id = id, !.row = table[id]]
  <2>2. id \in Account /\ Live(id) /\ table[id].kind = Platform
        /\ table[id].app = req[r].token.app
    BY DEF Authorizers
  <2>3. CopyOf(table[id], id) /\ table[id] \in Row
    BY <1>1, <2>2, ReadCopy
  <2>4. q \in Invocation
    BY <1>1, <2>2, <2>3 DEF Invocation, Steps
  <2>5. q.at = "auth.save" /\ q.id = id /\ q.row = table[id] /\ q.token = req[r].token
        /\ q.tenant = req[r].tenant
    BY <1>1 DEF Invocation
  <2>6. RequestSound(q)
    BY <1>2, <2>2, <2>3, <2>5 DEF RequestSound
  <2>7. req' = [req EXCEPT ![r] = q]
    BY <2>1, IInvParts
  <2>. HIDE DEF q
  <2>. QED  BY <1>3, <2>4, <2>6, <2>7, MoveSound
<1>5. CASE Goto(r, "auth.save")
  <2> DEFINE q == [req[r] EXCEPT !.at = "auth.save"]
  <2>1. q \in Invocation
    BY <1>1 DEF Invocation, Steps
  <2>2. q.at = "auth.save" /\ q.id = None /\ q.token = req[r].token
        /\ q.tenant = req[r].tenant
    BY <1>1, <1>2 DEF Invocation
  <2>3. RequestSound(q)
    BY <1>2, <2>2 DEF RequestSound
  <2>4. req' = [req EXCEPT ![r] = q]
    BY <1>5, IInvParts DEF Goto
  <2>. HIDE DEF q
  <2>. QED  BY <1>3, <2>1, <2>3, <2>4, MoveSound
<1>. QED  BY <1>4, <1>5 DEF FindAuthorized

\* Writing a token to the row it was issued for, or failing to.
LEMMA ReauthorizeSound ==
  ASSUME IInv, NEW r \in Request, Reauthorize(r)
  PROVE  IInv'
<1> DEFINE id == req[r].id
           copy == [req[r].row EXCEPT !.access = req[r].token,
                                      !.refresh = req[r].token, !.status = Normal]
<1>1. req[r] \in Invocation /\ RequestSound(req[r]) /\ TableSound /\ CountersSound
  BY Knows
<1>2. /\ id \in Account /\ req[r].at = "auth.save" /\ CopyOf(req[r].row, id)
      /\ req[r].row.kind = Platform
      /\ req[r].token \in Token /\ req[r].token.app = req[r].row.app
      /\ req[r].tenant \in Tenant
  BY <1>1 DEF Reauthorize, At, RequestSound
<1>3. copy \in Row
  <2>1. req[r].row \in Row
    BY <1>2 DEF CopyOf
  <2>2. req[r].token \in MaybeToken /\ Normal \in NotConnected .. Revoked
    BY <1>2 DEF MaybeToken, NotConnected, Normal, Revoked
  <2>. QED  BY <2>1, <2>2 DEF Row
<1>4. copy.kind = Platform /\ copy.app = req[r].row.app /\ copy.access = req[r].token
      /\ copy.refresh = req[r].token
  BY <1>2 DEF CopyOf, Row
<1>5. Credentialed(copy)
  BY <1>2, <1>4 DEF Credentialed, Platform, Manual
<1>6. CASE Live(id) /\ UpdateRow(id, copy) /\ Goto(r, "auth.cache")
  <2>1. Unique(id, copy)
    BY <1>4 DEF Unique, Platform, Manual
  <2>2. copy.kind = table[id].kind /\ copy.app = table[id].app /\ table[id] # Absent
    BY <1>2, <1>4 DEF CopyOf
  <2>. HIDE DEF copy
  <2>3. TableSound' /\ Stable
    BY <1>1, <1>2, <1>3, <1>5, <1>6, <2>1, <2>2, UpdateRowSound
  <2>4. CacheSound' /\ CountersSound'
    BY <2>3, TableWritten DEF Reauthorize
  <2> DEFINE q == [req[r] EXCEPT !.at = "auth.cache"]
  <2>5. q \in Invocation
    BY <1>1 DEF Invocation, Steps
  <2>6. q.at = "auth.cache" /\ q.id = id /\ q.token = req[r].token
    BY <1>1 DEF Invocation
  <2>7. RequestSound(q)
    BY <1>2, <1>4, <2>2, <2>6 DEF RequestSound, PlatformRow
  <2>8. req' = [req EXCEPT ![r] = q]
    BY <1>6, IInvParts DEF Goto
  <2>. HIDE DEF q
  <2>. QED  BY <2>3, <2>4, <2>5, <2>7, <2>8, MoveSound
<1>7. CASE Finish(r) /\ UNCHANGED table
  BY <1>1, <1>7, UnchangedTable, TableWritten, FinishSound DEF Reauthorize
<1>. QED  BY <1>6, <1>7 DEF Reauthorize

LEMMA CreateAuthorizedSound ==
  ASSUME IInv, NEW r \in Request, CreateAuthorized(r)
  PROVE  IInv'
<1>1. req[r].token \in Token /\ req[r].tenant \in Tenant /\ TableSound
  BY Knows DEF CreateAuthorized, At, RequestSound
<1> DEFINE row == NewRow(Platform, req[r].tenant, req[r].token, req[r].token)
           holders == Authorizers(req[r].token.app)
<1>2. row \in Row /\ Credentialed(row) /\ row.kind = Platform /\ row.app = req[r].token.app
  BY <1>1, NewRowSound
<1>3. TableSound' /\ Stable
  <2>1. CASE Insert(row, holders)
    <3>. HIDE DEF row
    <3>. QED  BY <1>1, <1>2, <2>1, InsertSound
  <2>2. CASE InsertFails(holders)
    BY <1>1, <2>2, UnchangedTable DEF InsertFails
  <2>. QED  BY <2>1, <2>2 DEF CreateAuthorized
<1>4. CacheSound' /\ CountersSound'
  BY <1>3, TableWritten DEF CreateAuthorized
<1>. QED  BY <1>3, <1>4, FinishSound DEF CreateAuthorized

\* Caching a token under the key of the account it was issued for.
LEMMA SetCacheSound ==
  ASSUME IInv, NEW r \in Request,
         NEW step \in {"auth.cache", "get.backfill", "get.cache"}, SetCache(r, step)
  PROVE  IInv'
<1>1. /\ req[r].id \in Account /\ req[r].token \in MaybeToken /\ TableSound
      /\ CacheSound /\ CountersSound
      /\ table[req[r].id] # Absent
      /\ table[req[r].id].kind = Platform => req[r].token.app = table[req[r].id].app
  BY Knows DEF SetCache, At, RequestSound, PlatformRow, MaybeToken
<1>2. TableSound' /\ Stable /\ CountersSound'
  BY <1>1, UnchangedTable, CountersKept DEF SetCache
<1>3. CacheSound'
  BY <1>1, <1>2, CacheWritten, CacheKept DEF SetCache
<1>. QED  BY <1>2, <1>3, FinishSound DEF SetCache

LEMMA DelCacheSound ==
  ASSUME IInv, NEW r \in Request,
         NEW step \in {"unauth.del", "delete.del"}, DelCache(r, step)
  PROVE  IInv'
<1>1. req[r].id \in Account /\ TableSound /\ CacheSound /\ CountersSound
  BY Knows DEF DelCache, At, RequestSound
<1>2. TableSound' /\ Stable /\ CountersSound'
  BY <1>1, UnchangedTable, CountersKept DEF DelCache
<1>3. CacheSound'
  BY <1>1, <1>2, CacheWritten, CacheKept DEF DelCache, MaybeToken
<1>. QED  BY <1>2, <1>3, FinishSound DEF DelCache

LEMMA HandleUpdateAuthorizedSound ==
  ASSUME IInv, NEW r \in Request, NEW a \in App, HandleUpdateAuthorized(r, a)
  PROVE  IInv'
<1>1. CountersSound' /\ NewToken(a) \in Token /\ NewToken(a).app = a /\ TableSound
  BY IInvParts, Issued DEF HandleUpdateAuthorized
<1>2. TableSound' /\ Stable /\ CacheSound'
  BY <1>1, ReadOnly DEF HandleUpdateAuthorized
<1>3. PICK id \in Authorizers(a) :
        Begin(r, [Idle EXCEPT !.at = "upd.token", !.id = id,
                              !.row = table[id], !.token = NewToken(a)])
  BY DEF HandleUpdateAuthorized
<1> DEFINE q == [Idle EXCEPT !.at = "upd.token", !.id = id,
                             !.row = table[id], !.token = NewToken(a)]
<1>4. id \in Account /\ Live(id) /\ table[id].kind = Platform /\ table[id].app = a
  BY DEF Authorizers
<1>5. CopyOf(table[id], id) /\ table[id] \in Row
  BY <1>1, <1>4, ReadCopy
<1>6. q \in Invocation
  BY <1>1, <1>4, <1>5 DEF Invocation, Idle, Steps, MaybeToken
<1>7. RequestSound(q)
  BY <1>1, <1>4, <1>5 DEF RequestSound, Idle
<1>8. req' = [req EXCEPT ![r] = q]
  BY <1>3 DEF Begin
<1>. HIDE DEF q
<1>. QED  BY <1>1, <1>2, <1>6, <1>7, <1>8, MoveSound

LEMMA StoreUpdatedSound ==
  ASSUME IInv, NEW r \in Request, StoreUpdated(r)
  PROVE  IInv'
<1>1. req[r] \in Invocation /\ RequestSound(req[r]) /\ TableSound
  BY Knows
<1>2. /\ req[r].at = "upd.token" /\ req[r].id \in Account
      /\ CopyOf(req[r].row, req[r].id) /\ req[r].row.kind = Platform
      /\ req[r].token \in Token /\ req[r].token.app = req[r].row.app
  BY <1>1 DEF StoreUpdated, At, RequestSound
<1>3. CASE UpdateToken(req[r].id, req[r].token) /\ Goto(r, "upd.func")
  <2>1. PlatformRow(req[r].id, req[r].token.app)
    BY <1>2 DEF CopyOf, PlatformRow
  <2>2. TableSound' /\ Stable
    BY <1>1, <1>2, <1>3, <2>1, UpdateTokenSound
  <2>3. CacheSound' /\ CountersSound'
    BY <2>2, TableWritten DEF StoreUpdated
  <2> DEFINE q == [req[r] EXCEPT !.at = "upd.func"]
  <2>4. q \in Invocation
    BY <1>1 DEF Invocation, Steps
  <2>5. q.at = "upd.func" /\ q.id = req[r].id /\ q.token = req[r].token
        /\ q.row = req[r].row
    BY <1>1 DEF Invocation
  <2>6. RequestSound(q)
    BY <1>2, <2>5 DEF RequestSound
  <2>7. req' = [req EXCEPT ![r] = q]
    BY <1>3, IInvParts DEF Goto
  <2>. HIDE DEF q
  <2>. QED  BY <2>2, <2>3, <2>4, <2>6, <2>7, MoveSound
<1>4. CASE Finish(r) /\ UNCHANGED table
  BY <1>1, <1>4, UnchangedTable, TableWritten, FinishSound DEF StoreUpdated
<1>. QED  BY <1>3, <1>4 DEF StoreUpdated

\* The func_info write puts back a whole copy: old tokens, but its own.
LEMMA StoreFuncInfoSound ==
  ASSUME IInv, NEW r \in Request, StoreFuncInfo(r)
  PROVE  IInv'
<1>1. /\ TableSound /\ req[r].id \in Account
      /\ CopyOf(req[r].row, req[r].id) /\ req[r].row.kind = Platform
  BY Knows DEF StoreFuncInfo, At, RequestSound
<1>2. TableSound' /\ Stable
  <2>1. CASE Live(req[r].id) /\ UpdateRow(req[r].id, req[r].row)
    <3>1. Unique(req[r].id, req[r].row)
      BY <1>1 DEF Unique, Platform, Manual
    <3>. QED  BY <1>1, <2>1, <3>1, UpdateRowSound DEF CopyOf
  <2>2. CASE UNCHANGED table
    BY <1>1, <2>2, UnchangedTable
  <2>. QED  BY <2>1, <2>2 DEF StoreFuncInfo
<1>3. CacheSound' /\ CountersSound'
  BY <1>2, TableWritten DEF StoreFuncInfo
<1>. QED  BY <1>2, <1>3, FinishSound DEF StoreFuncInfo

LEMMA HandleUnauthorizedSound ==
  ASSUME IInv, NEW r \in Request, NEW a \in App, HandleUnauthorized(r, a)
  PROVE  IInv'
<1>1. CountersSound' /\ TableSound' /\ Stable /\ CacheSound' /\ TableSound
  BY IInvParts, CountersKept, ReadOnly DEF HandleUnauthorized
<1>2. PICK id \in Authorizers(a) :
        Begin(r, [Idle EXCEPT !.at = "unauth.status", !.id = id])
  BY DEF HandleUnauthorized
<1> DEFINE q == [Idle EXCEPT !.at = "unauth.status", !.id = id]
<1>3. id \in Account /\ Live(id) /\ table[id].kind = Platform
  BY DEF Authorizers
<1>4. q \in Invocation
  BY <1>3 DEF Invocation, Idle, Steps, MaybeToken
<1>5. RequestSound(q)
  BY <1>3 DEF RequestSound, Idle, PlatformRow, Live, Absent
<1>6. req' = [req EXCEPT ![r] = q]
  BY <1>2 DEF Begin
<1>. HIDE DEF q
<1>. QED  BY <1>1, <1>4, <1>5, <1>6, MoveSound

\* A status written by a handler that still knows its platform row.
LEMMA MarkRevokedSound ==
  ASSUME IInv, NEW r \in Request, MarkRevoked(r)
  PROVE  IInv'
<1>1. req[r] \in Invocation /\ RequestSound(req[r]) /\ TableSound
  BY Knows
<1>2. /\ req[r].at = "unauth.status" /\ req[r].id \in Account
      /\ PlatformRow(req[r].id, table[req[r].id].app)
  BY <1>1 DEF MarkRevoked, At, RequestSound
<1>3. TableSound' /\ Stable
  BY <1>1, <1>2, UpdateAuthStatusSound, UnchangedTable
     DEF MarkRevoked, NotConnected, Revoked
<1>4. CacheSound' /\ CountersSound'
  BY <1>3, TableWritten DEF MarkRevoked
<1> DEFINE q == [req[r] EXCEPT !.at = "unauth.del"]
<1>5. q \in Invocation
  BY <1>1 DEF Invocation, Steps
<1>6. q.at = "unauth.del" /\ q.id = req[r].id
  BY <1>1 DEF Invocation
<1>7. RequestSound(q)
  BY <1>2, <1>6 DEF RequestSound
<1>8. req' = [req EXCEPT ![r] = q]
  BY IInvParts DEF MarkRevoked, Goto
<1>. HIDE DEF q
<1>. QED  BY <1>3, <1>4, <1>5, <1>7, <1>8, MoveSound

LEMMA MarkExpiredSound ==
  ASSUME IInv, NEW r \in Request, MarkExpired(r)
  PROVE  IInv'
<1>1. /\ TableSound /\ req[r].id \in Account
      /\ PlatformRow(req[r].id, table[req[r].id].app)
  BY Knows DEF MarkExpired, At, RequestSound
<1>2. TableSound' /\ Stable
  BY <1>1, UpdateAuthStatusSound, UnchangedTable
     DEF MarkExpired, NotConnected, TokenExpired, Revoked
<1>3. CacheSound' /\ CountersSound'
  BY <1>2, TableWritten DEF MarkExpired
<1>. QED  BY <1>2, <1>3, FinishSound DEF MarkExpired

LEMMA GetAuthorizerAccessTokenSound ==
  ASSUME IInv, NEW r \in Request, NEW id \in Account, GetAuthorizerAccessToken(r, id)
  PROVE  IInv'
<1>1. CountersSound' /\ TableSound' /\ Stable /\ CacheSound'
  BY IInvParts, CountersKept, ReadOnly DEF GetAuthorizerAccessToken
<1> DEFINE q == [Idle EXCEPT !.at = "get.read", !.id = id]
<1>2. q \in Invocation
  BY DEF Invocation, Idle, Steps, MaybeToken
<1>3. RequestSound(q)
  BY DEF RequestSound, Idle
<1>4. req' = [req EXCEPT ![r] = q]
  BY DEF GetAuthorizerAccessToken, Begin
<1>. HIDE DEF q
<1>. QED  BY <1>1, <1>2, <1>3, <1>4, MoveSound

LEMMA ReadAccountSound ==
  ASSUME IInv, NEW r \in Request, ReadAccount(r)
  PROVE  IInv'
<1> DEFINE id == req[r].id
           row == table[id]
<1>1. req[r] \in Invocation /\ RequestSound(req[r]) /\ TableSound
  BY Knows
<1>2. req[r].at = "get.read" /\ id \in Account
  BY <1>1 DEF ReadAccount, At, RequestSound
<1>3. CountersSound' /\ TableSound' /\ Stable /\ CacheSound'
  BY IInvParts, CountersKept, ReadOnly DEF ReadAccount
<1>4. CASE Finish(r)
  BY <1>3, <1>4, FinishSound
<1>5. ASSUME Live(id)
      PROVE  /\ row \in Row /\ Credentialed(row) /\ row # Absent
             /\ row.access \in Token
  BY <1>1, <1>2, <1>5, Nulls, ReadCopy DEF CopyOf, Credentialed
<1>6. CASE Live(id) /\ req' = [req EXCEPT ![r].at = "get.backfill", ![r].token = row.access]
  <2> DEFINE q == [req[r] EXCEPT !.at = "get.backfill", !.token = row.access]
  <2>1. q \in Invocation
    BY <1>1, <1>5, <1>6 DEF Invocation, Steps, MaybeToken
  <2>2. q.at = "get.backfill" /\ q.id = id /\ q.token = row.access
    BY <1>1 DEF Invocation
  <2>3. RequestSound(q)
    BY <1>2, <1>5, <1>6, <2>2 DEF RequestSound, Credentialed
  <2>4. req' = [req EXCEPT ![r] = q]
    BY <1>6, IInvParts
  <2>. HIDE DEF q
  <2>. QED  BY <1>3, <2>1, <2>3, <2>4, MoveSound
<1>7. CASE /\ Live(id)
           /\ row.refresh # NoToken
           /\ req' = [req EXCEPT ![r].at = "get.refresh", ![r].row = row]
  <2> DEFINE q == [req[r] EXCEPT !.at = "get.refresh", !.row = row]
  <2>1. q \in Invocation
    BY <1>1, <1>5, <1>7 DEF Invocation, Steps
  <2>2. q.at = "get.refresh" /\ q.id = id /\ q.row = row
    BY <1>1 DEF Invocation
  <2>3. RequestSound(q)
    BY <1>2, <1>5, <1>7, <2>2 DEF RequestSound, PlatformRow, Credentialed
  <2>4. req' = [req EXCEPT ![r] = q]
    BY <1>7, IInvParts
  <2>. HIDE DEF q
  <2>. QED  BY <1>3, <2>1, <2>3, <2>4, MoveSound
<1>. QED  BY <1>4, <1>6, <1>7 DEF ReadAccount

\* A refresh stores a token of the app it read.
LEMMA RefreshAuthorizerTokenSound ==
  ASSUME IInv, NEW r \in Request, RefreshAuthorizerToken(r)
  PROVE  IInv'
<1> DEFINE id == req[r].id
           a == req[r].row.app
           t == NewToken(a)
<1>1. req[r] \in Invocation /\ RequestSound(req[r]) /\ TableSound /\ CountersSound
  BY Knows
<1>2. /\ req[r].at = "get.refresh" /\ id \in Account
      /\ req[r].row \in Row /\ PlatformRow(id, a)
  BY <1>1 DEF RefreshAuthorizerToken, At, RequestSound
<1>3. CASE Finish(r) /\ UNCHANGED <<table, issued>>
  <2>1. CountersSound' /\ TableSound' /\ Stable /\ CacheSound'
    BY <1>1, <1>3, CountersKept, ReadOnly DEF RefreshAuthorizerToken
  <2>. QED  BY <1>3, <2>1, FinishSound
<1>4. CASE Issue(a)
  <2>1. a \in App
    BY <1>2 DEF Row
  <2>2. CountersSound' /\ t \in Token /\ t.app = a
    BY <1>1, <1>4, <2>1, Issued DEF RefreshAuthorizerToken
  <2>. HIDE DEF a, t
  <2>3. CASE /\ UpdateToken(id, t)
             /\ req' = [req EXCEPT ![r].at = "get.cache", ![r].token = t,
                                   ![r].row = Absent]
    <3>1. TableSound' /\ Stable
      BY <1>1, <1>2, <2>2, <2>3, UpdateTokenSound
    <3>2. CacheSound'
      BY <1>1, <3>1, IInvParts, CacheKept DEF RefreshAuthorizerToken
    <3> DEFINE q == [req[r] EXCEPT !.at = "get.cache", !.token = t, !.row = Absent]
    <3>3. q \in Invocation
      BY <1>1, <2>2 DEF Invocation, Steps, MaybeToken
    <3>4. q.at = "get.cache" /\ q.id = id /\ q.token = t
      BY <1>1 DEF Invocation
    <3>5. RequestSound(q)
      BY <1>2, <2>2, <3>4 DEF RequestSound
    <3>6. req' = [req EXCEPT ![r] = q]
      BY <2>3, IInvParts
    <3>. HIDE DEF q
    <3>. QED  BY <2>2, <3>1, <3>2, <3>3, <3>5, <3>6, MoveSound
  <2>4. CASE Goto(r, "get.fail") /\ UNCHANGED table
    <3>1. TableSound' /\ Stable /\ CacheSound'
      BY <2>2, <2>4, ReadOnly DEF RefreshAuthorizerToken
    <3> DEFINE q == [req[r] EXCEPT !.at = "get.fail"]
    <3>2. q \in Invocation
      BY <1>1 DEF Invocation, Steps
    <3>3. q.at = "get.fail" /\ q.id = id
      BY <1>1 DEF Invocation
    <3>4. RequestSound(q)
      BY <1>2, <3>3 DEF RequestSound, PlatformRow
    <3>5. req' = [req EXCEPT ![r] = q]
      BY <2>4, IInvParts DEF Goto
    <3>. HIDE DEF q
    <3>. QED  BY <2>2, <3>1, <3>2, <3>4, <3>5, MoveSound
  <2>. QED  BY <1>3, <2>3, <2>4 DEF RefreshAuthorizerToken, a, t
<1>. QED  BY <1>3, <1>4 DEF RefreshAuthorizerToken

LEMMA CreateManualSound ==
  ASSUME IInv, NEW r \in Request, NEW t \in Tenant, NEW a \in App, CreateManual(r, t, a)
  PROVE  IInv'
<1> DEFINE q == [Idle EXCEPT !.at = "create.insert", !.tenant = t, !.token = NewToken(a)]
<1>1. CountersSound' /\ NewToken(a) \in Token
  BY IInvParts, Issued DEF CreateManual
<1>2. TableSound' /\ Stable /\ CacheSound'
  BY <1>1, ReadOnly DEF CreateManual
<1>3. q \in Invocation
  BY <1>1 DEF Invocation, Idle, Steps, MaybeToken
<1>4. RequestSound(q)
  BY <1>1 DEF RequestSound, Idle
<1>5. req' = [req EXCEPT ![r] = q]
  BY DEF CreateManual, Begin
<1>. HIDE DEF q
<1>. QED  BY <1>1, <1>2, <1>3, <1>4, <1>5, MoveSound

LEMMA InsertManualSound ==
  ASSUME IInv, NEW r \in Request, InsertManual(r)
  PROVE  IInv'
<1>1. req[r].token \in Token /\ req[r].tenant \in Tenant /\ TableSound
  BY Knows DEF InsertManual, At, RequestSound
<1> DEFINE row == NewRow(Manual, req[r].tenant, req[r].token, NoToken)
           holders == ManualHolders(req[r].token.app)
<1>2. row \in Row /\ Credentialed(row) /\ row.kind = Manual /\ row.app = req[r].token.app
  BY <1>1, NewRowSound DEF Manual, Platform
<1>3. TableSound' /\ Stable
  <2>1. CASE Insert(row, holders)
    <3>. HIDE DEF row
    <3>. QED  BY <1>1, <1>2, <2>1, InsertSound DEF Manual, Platform
  <2>2. CASE InsertFails(holders)
    BY <1>1, <2>2, UnchangedTable DEF InsertFails
  <2>. QED  BY <2>1, <2>2 DEF InsertManual
<1>4. CacheSound' /\ CountersSound'
  BY <1>3, TableWritten DEF InsertManual
<1>. QED  BY <1>3, <1>4, FinishSound DEF InsertManual

LEMMA EditAccountSound ==
  ASSUME IInv, NEW r \in Request, NEW id \in Account, NEW t \in Tenant,
         EditAccount(r, id, t)
  PROVE  IInv'
<1>1. CountersSound' /\ TableSound' /\ Stable /\ CacheSound' /\ TableSound
  BY IInvParts, CountersKept, ReadOnly DEF EditAccount
<1>2. PICK next \in {"edit.save", "edit.verify"} :
        /\ next = "edit.verify" => table[id].kind = Manual
        /\ Begin(r, [Idle EXCEPT !.at = next, !.tenant = t, !.id = id, !.row = table[id]])
  BY DEF EditAccount
<1> DEFINE q == [Idle EXCEPT !.at = next, !.tenant = t, !.id = id, !.row = table[id]]
<1>3. CopyOf(table[id], id) /\ table[id] \in Row /\ table[id].tenant = t
  BY <1>1, ReadCopy DEF EditAccount
<1>4. q \in Invocation
  BY <1>3 DEF Invocation, Idle, Steps, MaybeToken
<1>5. RequestSound(q)
  BY <1>2, <1>3 DEF RequestSound, Idle
<1>6. req' = [req EXCEPT ![r] = q]
  BY <1>2 DEF Begin
<1>. HIDE DEF q
<1>. QED  BY <1>1, <1>4, <1>5, <1>6, MoveSound

LEMMA VerifyCredentialsSound ==
  ASSUME IInv, NEW r \in Request, VerifyCredentials(r)
  PROVE  IInv'
<1>1. req[r] \in Invocation /\ RequestSound(req[r]) /\ TableSound /\ CountersSound
  BY Knows
<1>2. /\ req[r].at = "edit.verify" /\ req[r].id \in Account
      /\ req[r].row.kind = Manual
      /\ CopyOf(req[r].row, req[r].id) /\ req[r].row.tenant = req[r].tenant
  BY <1>1 DEF VerifyCredentials, At, RequestSound
<1>3. CASE Finish(r) /\ UNCHANGED issued
  <2>1. CountersSound' /\ TableSound' /\ Stable /\ CacheSound'
    BY <1>1, <1>3, CountersKept, ReadOnly DEF VerifyCredentials
  <2>. QED  BY <1>3, <2>1, FinishSound
<1>4. ASSUME NEW a \in App, Issue(a),
             req' = [req EXCEPT ![r].at = "edit.save", ![r].row.app = a,
                                ![r].row.access = NewToken(a)]
      PROVE  IInv'
  <2> DEFINE row == [req[r].row EXCEPT !.app = a, !.access = NewToken(a)]
             q == [req[r] EXCEPT !.at = "edit.save", !.row = row]
  <2>1. CountersSound' /\ NewToken(a) \in Token /\ NewToken(a).app = a
    BY <1>1, <1>4, Issued DEF VerifyCredentials
  <2>2. TableSound' /\ Stable /\ CacheSound'
    BY <2>1, ReadOnly DEF VerifyCredentials
  <2>3. req[r].row \in Row /\ NewToken(a) \in MaybeToken
    BY <1>2, <2>1 DEF CopyOf, MaybeToken
  <2>4. row \in Row
    BY <2>3 DEF Row
  <2>5. /\ row.kind = Manual /\ row.access = NewToken(a) /\ row.app = a
        /\ row.refresh = req[r].row.refresh /\ row.status = req[r].row.status
        /\ row.tenant = req[r].row.tenant /\ row.phase = req[r].row.phase
    BY <1>2, <2>3 DEF Row
  <2>6. CopyOf(row, req[r].id)
    BY <1>2, <2>1, <2>4, <2>5 DEF CopyOf, Credentialed, Manual, Platform
  <2>7. req' = [req EXCEPT ![r] = q]
    BY <1>1, <1>4, <2>3, IInvParts
  <2>. HIDE DEF row
  <2>8. q \in Invocation
    BY <1>1, <2>4 DEF Invocation, Steps
  <2>9. q.at = "edit.save" /\ q.id = req[r].id /\ q.row = row /\ q.tenant = req[r].tenant
    BY <1>1 DEF Invocation
  <2>10. RequestSound(q)
    BY <1>2, <2>5, <2>6, <2>9 DEF RequestSound
  <2>. HIDE DEF q
  <2>. QED  BY <2>1, <2>2, <2>7, <2>8, <2>10, MoveSound
<1>. QED  BY <1>3, <1>4 DEF VerifyCredentials

LEMMA SaveEditSound ==
  ASSUME IInv, NEW r \in Request, SaveEdit(r)
  PROVE  IInv'
<1>1. TableSound /\ req[r].id \in Account /\ CopyOf(req[r].row, req[r].id)
  BY Knows DEF SaveEdit, At, RequestSound
<1>2. TableSound' /\ Stable
  <2>1. CASE /\ Live(req[r].id)
             /\ Unique(req[r].id, req[r].row)
             /\ UpdateRow(req[r].id, req[r].row)
    BY <1>1, <2>1, UpdateRowSound DEF CopyOf
  <2>2. CASE UNCHANGED table
    BY <1>1, <2>2, UnchangedTable
  <2>. QED  BY <2>1, <2>2 DEF SaveEdit
<1>3. CacheSound' /\ CountersSound'
  BY <1>2, TableWritten DEF SaveEdit
<1>. QED  BY <1>2, <1>3, FinishSound DEF SaveEdit

LEMMA DeleteAccountSound ==
  ASSUME IInv, NEW r \in Request, NEW id \in Account, NEW t \in Tenant,
         DeleteAccount(r, id, t)
  PROVE  IInv'
<1>1. CountersSound' /\ TableSound' /\ Stable /\ CacheSound'
  BY IInvParts, CountersKept, ReadOnly DEF DeleteAccount
<1> DEFINE q == [Idle EXCEPT !.at = "delete.row", !.tenant = t, !.id = id]
<1>2. q \in Invocation
  BY DEF Invocation, Idle, Steps, MaybeToken
<1>3. RequestSound(q)
  BY DEF DeleteAccount, RequestSound, Idle, Live, Absent
<1>4. req' = [req EXCEPT ![r] = q]
  BY DEF DeleteAccount, Begin
<1>. HIDE DEF q
<1>. QED  BY <1>1, <1>2, <1>3, <1>4, MoveSound

LEMMA SoftDeleteActionSound ==
  ASSUME IInv, NEW r \in Request, SoftDelete(r)
  PROVE  IInv'
<1>1. req[r] \in Invocation /\ RequestSound(req[r]) /\ TableSound
  BY Knows
<1>2. /\ req[r].at = "delete.row" /\ req[r].id \in Account
      /\ table[req[r].id] # Absent /\ table[req[r].id].tenant = req[r].tenant
  BY <1>1 DEF SoftDelete, At, RequestSound
<1>3. CASE /\ Live(req[r].id)
           /\ table' = [table EXCEPT ![req[r].id].phase = "deleted"]
           /\ Goto(r, "delete.del")
  <2>1. TableSound' /\ Stable
    BY <1>1, <1>2, <1>3, SoftDeleteSound
  <2>2. CacheSound' /\ CountersSound'
    BY <2>1, TableWritten DEF SoftDelete
  <2> DEFINE q == [req[r] EXCEPT !.at = "delete.del"]
  <2>3. q \in Invocation
    BY <1>1 DEF Invocation, Steps
  <2>4. q.at = "delete.del" /\ q.id = req[r].id /\ q.tenant = req[r].tenant
    BY <1>1 DEF Invocation
  <2>5. RequestSound(q)
    BY <1>2, <2>4 DEF RequestSound
  <2>6. req' = [req EXCEPT ![r] = q]
    BY <1>3, IInvParts DEF Goto
  <2>. HIDE DEF q
  <2>. QED  BY <2>1, <2>2, <2>3, <2>5, <2>6, MoveSound
<1>4. CASE Finish(r) /\ UNCHANGED table
  BY <1>1, <1>4, UnchangedTable, TableWritten, FinishSound DEF SoftDelete
<1>. QED  BY <1>3, <1>4 DEF SoftDelete

-----------------------------------------------------------------------------
(* The environment, and the invariant *)

\* Nothing a handler knows is about the counters, or about the cache.
LEMMA EnvironmentSound ==
  ASSUME IInv, UNCHANGED <<table, req>>, CacheSound', CountersSound'
  PROVE  IInv'
<1>1. TableSound' /\ req' \in [Request -> Invocation]
  BY IInvParts, UnchangedTable
<1>2. RequestsSound'
  BY IInvParts DEF RequestsSound, RequestSound, CopyOf, PlatformRow
<1>. QED  BY <1>1, <1>2 DEF IInv, TypeOK, TableSound, CacheSound, CountersSound

LEMMA CrashSound ==
  ASSUME IInv, Crash
  PROVE  IInv'
<1>1. TableSound' /\ CacheSound' /\ CountersSound'
  BY IInvParts, CountersKept, ReadOnly DEF Crash
<1>2. req' \in [Request -> Invocation]
  BY IdleSound DEF Crash
<1>3. RequestsSound'
  BY DEF Crash, RequestsSound, RequestSound, Idle
<1>. QED  BY <1>1, <1>2, <1>3 DEF IInv, TypeOK, TableSound, CacheSound, CountersSound

\* Requests arrive and move only through the handlers above.
LEMMA ArriveSound ==
  ASSUME IInv, NEW r \in Request, Arrive(r)
  PROVE  IInv'
BY HandleAuthorizedSound, CreateManualSound, HandleUpdateAuthorizedSound,
   HandleUnauthorizedSound, GetAuthorizerAccessTokenSound, EditAccountSound,
   DeleteAccountSound
   DEF Arrive

LEMMA StepSound ==
  ASSUME IInv, NEW r \in Request, Step(r)
  PROVE  IInv'
<1>1. CASE CacheAuthorized(r) \/ Backfill(r) \/ CacheRefreshed(r)
  BY <1>1, SetCacheSound DEF CacheAuthorized, Backfill, CacheRefreshed
<1>2. CASE DropRevoked(r) \/ DropDeleted(r)
  BY <1>2, DelCacheSound DEF DropRevoked, DropDeleted
<1>3. CASE \/ FindAuthorized(r) \/ Reauthorize(r) \/ CreateAuthorized(r)
           \/ StoreUpdated(r) \/ StoreFuncInfo(r) \/ MarkRevoked(r)
  BY <1>3, FindAuthorizedSound, ReauthorizeSound, CreateAuthorizedSound,
     StoreUpdatedSound, StoreFuncInfoSound, MarkRevokedSound
<1>4. CASE \/ ReadAccount(r) \/ RefreshAuthorizerToken(r) \/ MarkExpired(r)
           \/ InsertManual(r) \/ VerifyCredentials(r) \/ SaveEdit(r) \/ SoftDelete(r)
  BY <1>4, ReadAccountSound, RefreshAuthorizerTokenSound, MarkExpiredSound,
     InsertManualSound, VerifyCredentialsSound, SaveEditSound, SoftDeleteActionSound
<1>. QED  BY <1>1, <1>2, <1>3, <1>4 DEF Step

\* Before any request the table is empty, and nothing is known of it.
LEMMA InitSound == Init => IInv
<1>. SUFFICES ASSUME Init PROVE IInv
  OBVIOUS
<1>1. TypeOK
  BY IdleSound, BoundAssumption DEF Init, TypeOK, MaybeToken
<1>2. RowsSound /\ OneRowPerApp /\ CachedForItsApp
  BY DEF Init, RowsSound, OneRowPerApp, CachedForItsApp, Live, Absent
<1>3. RequestsSound
  BY IdleSound DEF Init, RequestsSound
<1>. QED  BY <1>1, <1>2, <1>3 DEF IInv

LEMMA NextSound == IInv /\ [Next]_vars => IInv'
<1>. SUFFICES ASSUME IInv, [Next]_vars PROVE IInv'
  OBVIOUS
<1>1. ASSUME NEW t \in Tenant, GeneratePreAuthURL(t) \/ PreAuthExpires(t)
      PROVE  IInv'
  <2>1. CacheSound' /\ CountersSound'
    BY <1>1, IInvParts, UnchangedTable, CacheKept
       DEF GeneratePreAuthURL, PreAuthExpires, CountersSound
  <2>. QED  BY <1>1, <2>1, EnvironmentSound DEF GeneratePreAuthURL, PreAuthExpires
<1>2. ASSUME NEW id \in Account, CacheExpires(id)
      PROVE  IInv'
  <2>1. CacheSound' /\ CountersSound'
    BY <1>2, IInvParts, CacheWritten, CountersKept DEF CacheExpires, MaybeToken
  <2>. QED  BY <1>2, <2>1, EnvironmentSound DEF CacheExpires
<1>3. ASSUME TokenExpires
      PROVE  IInv'
  <2>1. CacheSound' /\ CountersSound'
    BY <1>3, IInvParts, UnchangedTable, CacheKept DEF TokenExpires, CountersSound
  <2>. QED  BY <1>3, <2>1, EnvironmentSound DEF TokenExpires
<1>4. ASSUME NEW r \in Request, Arrive(r) \/ Step(r)
      PROVE  IInv'
  BY <1>4, ArriveSound, StepSound
<1>5. ASSUME UNCHANGED vars
      PROVE  IInv'
  <2>1. CacheSound' /\ CountersSound'
    BY <1>5, IInvParts, UnchangedTable, CacheKept, CountersKept DEF vars
  <2>. QED  BY <1>5, <2>1, EnvironmentSound DEF vars
<1>. QED  BY <1>1, <1>2, <1>3, <1>4, <1>5, CrashSound DEF Next, Environment

\* What concurrent handlers rely on holds in every state, for any number of
\* accounts, apps, tenants and requests in flight: the table holds matching
\* credentials only, one live row per app and kind, and every copy a handler
\* of wechat.go or account.go holds is a copy of a row that still exists.
THEOREM InvariantHolds == Spec => []IInv
<1>. QED  BY InitSound, NextSound, PTL DEF Spec

\* Every variable keeps its type.
THEOREM TypeCorrect == Spec => []TypeOK
<1>1. IInv => TypeOK
  BY DEF IInv
<1>. QED  BY <1>1, InvariantHolds, PTL

\* authorizer_token:<id> never serves a platform account the token of
\* another app, whatever callbacks, refreshes, edits and crashes interleave.
THEOREM CacheNeverMixesAccounts == Spec => []CachedForItsApp
<1>1. IInv => CachedForItsApp
  BY DEF IInv
<1>. QED  BY <1>1, InvariantHolds, PTL

-----------------------------------------------------------------------------
(* What one step does to the table *)

\* Row id is inserted, rewritten as what it is, or deleted by its tenant.
RowWritten(id) ==
  /\ \A other \in Account \ {id} : table'[other] = table[other]
  /\ \/ table[id] = Absent /\ table'[id].phase = "live"
     \/ /\ Live(id)
        /\ table'[id].phase = "live"
        /\ table'[id].kind = table[id].kind
        /\ table'[id].tenant = table[id].tenant
        /\ table[id].kind = Platform => table'[id].app = table[id].app
     \/ /\ Live(id)
        /\ table'[id] = [table[id] EXCEPT !.phase = "deleted"]
        /\ \E r \in Request : /\ req[r].at = "delete.row"
                              /\ req[r].id = id
                              /\ req[r].tenant = table[id].tenant

Statement == UNCHANGED table \/ \E id \in Account : RowWritten(id)

LEMMA UpdateRowWrites ==
  ASSUME TableSound, NEW id \in Account, NEW copy \in Row, Live(id),
         copy.kind = table[id].kind,
         copy.kind = Platform => copy.app = table[id].app,
         UpdateRow(id, copy)
  PROVE  Statement
<1>1. table'[id] = [copy EXCEPT !.phase = table[id].phase, !.tenant = table[id].tenant]
  BY DEF UpdateRow, TableSound
<1>2. \A other \in Account \ {id} : table'[other] = table[other]
  BY DEF UpdateRow, TableSound
<1>3. table'[id].phase = "live" /\ table'[id].kind = copy.kind
      /\ table'[id].tenant = table[id].tenant /\ table'[id].app = copy.app
  BY <1>1 DEF Row, Live
<1>. QED  BY <1>2, <1>3 DEF Statement, RowWritten

LEMMA UpdateTokenWrites ==
  ASSUME TableSound, NEW id \in Account, NEW t, UpdateToken(id, t)
  PROVE  Statement
<1>1. CASE ~Live(id)
  BY <1>1 DEF UpdateToken, Statement
<1>2. CASE Live(id)
  <2>1. table[id] \in Row
    BY <1>2 DEF TableSound, Live, Absent
  <2>2. table'[id] = [table[id] EXCEPT !.access = t, !.refresh = t, !.status = Normal]
        /\ \A other \in Account \ {id} : table'[other] = table[other]
    BY <1>2, <2>1 DEF UpdateToken, TableSound, Row
  <2>. QED  BY <1>2, <2>1, <2>2 DEF Statement, RowWritten, Live, Row
<1>. QED  BY <1>1, <1>2

LEMMA UpdateAuthStatusWrites ==
  ASSUME TableSound, NEW id \in Account, NEW s, UpdateAuthStatus(id, s)
  PROVE  Statement
<1>1. CASE ~Live(id)
  BY <1>1 DEF UpdateAuthStatus, Statement
<1>2. CASE Live(id)
  <2>1. table[id] \in Row
    BY <1>2 DEF TableSound, Live, Absent
  <2>2. table'[id] = [table[id] EXCEPT !.status = s]
        /\ \A other \in Account \ {id} : table'[other] = table[other]
    BY <1>2, <2>1 DEF UpdateAuthStatus, TableSound, Row
  <2>. QED  BY <1>2, <2>1, <2>2 DEF Statement, RowWritten, Live, Row
<1>. QED  BY <1>1, <1>2

LEMMA InsertWrites ==
  ASSUME TableSound, NEW row, row.phase = "live", NEW holders, Insert(row, holders)
  PROVE  Statement
BY DEF Insert, Statement, RowWritten, TableSound

\* Every step runs at most one statement, on the row its handler knows.
LEMMA StepWrites == IInv /\ [Next]_vars => Statement
<1>. SUFFICES ASSUME IInv, [Next]_vars PROVE Statement
  OBVIOUS
<1>1. CASE UNCHANGED table
  BY <1>1 DEF Statement
<1>2. TableSound
  BY IInvParts
<1>3. ASSUME NEW r \in Request, Reauthorize(r) PROVE Statement
  <2> DEFINE copy == [req[r].row EXCEPT !.access = req[r].token,
                                        !.refresh = req[r].token, !.status = Normal]
  <2>1. CASE UNCHANGED table
    BY <2>1 DEF Statement
  <2>2. CASE Live(req[r].id) /\ UpdateRow(req[r].id, copy)
    <3>1. /\ req[r].id \in Account /\ CopyOf(req[r].row, req[r].id)
          /\ req[r].token \in MaybeToken
      BY <1>3, Knows DEF Reauthorize, At, RequestSound, MaybeToken
    <3>2. req[r].row \in Row /\ Normal \in NotConnected .. Revoked
      BY <3>1 DEF CopyOf, NotConnected, Normal, Revoked
    <3>3. copy \in Row /\ copy.kind = req[r].row.kind /\ copy.app = req[r].row.app
      BY <3>1, <3>2 DEF Row
    <3>4. copy.kind = table[req[r].id].kind
          /\ (copy.kind = Platform => copy.app = table[req[r].id].app)
      BY <3>1, <3>3 DEF CopyOf
    <3>. HIDE DEF copy
    <3>. QED  BY <1>2, <2>2, <3>1, <3>3, <3>4, UpdateRowWrites
  <2>. QED  BY <1>3, <2>1, <2>2 DEF Reauthorize
<1>4. ASSUME NEW r \in Request, StoreFuncInfo(r) \/ SaveEdit(r) PROVE Statement
  <2>1. req[r].id \in Account /\ CopyOf(req[r].row, req[r].id)
    BY <1>4, Knows DEF StoreFuncInfo, SaveEdit, At, RequestSound
  <2>2. CASE Live(req[r].id) /\ UpdateRow(req[r].id, req[r].row)
    BY <1>2, <2>1, <2>2, UpdateRowWrites DEF CopyOf
  <2>. QED  BY <1>4, <2>2 DEF StoreFuncInfo, SaveEdit, Statement
<1>5. ASSUME NEW r \in Request,
             StoreUpdated(r) \/ RefreshAuthorizerToken(r) \/ MarkRevoked(r) \/ MarkExpired(r)
      PROVE  Statement
  <2>1. req[r].id \in Account
    BY <1>5, Knows DEF StoreUpdated, RefreshAuthorizerToken, MarkRevoked, MarkExpired,
                       At, RequestSound
  <2>2. \/ UNCHANGED table
        \/ \E t : UpdateToken(req[r].id, t)
        \/ \E s : UpdateAuthStatus(req[r].id, s)
    BY <1>5 DEF StoreUpdated, RefreshAuthorizerToken, MarkRevoked, MarkExpired
  <2>. QED  BY <1>2, <2>1, <2>2, UpdateTokenWrites, UpdateAuthStatusWrites DEF Statement
<1>6. ASSUME NEW r \in Request, CreateAuthorized(r) \/ InsertManual(r) PROVE Statement
  <2>1. UNCHANGED table \/ \E row, holders : row.phase = "live" /\ Insert(row, holders)
    BY <1>6 DEF CreateAuthorized, InsertManual, InsertFails, NewRow
  <2>. QED  BY <1>2, <2>1, InsertWrites DEF Statement
<1>7. ASSUME NEW r \in Request, SoftDelete(r) PROVE Statement
  <2>1. /\ req[r].at = "delete.row" /\ req[r].id \in Account
        /\ req[r].tenant = table[req[r].id].tenant
    BY <1>7, Knows DEF SoftDelete, At, RequestSound
  <2>. QED  BY <1>2, <1>7, <2>1 DEF SoftDelete, Statement, RowWritten, TableSound
<1>8. ASSUME NEW r \in Request, Arrive(r) PROVE UNCHANGED table
  BY <1>8 DEF Arrive, HandleAuthorized, CreateManual, HandleUpdateAuthorized,
     HandleUnauthorized, GetAuthorizerAccessToken, EditAccount, DeleteAccount
<1>9. ASSUME NEW r \in Request, Step(r) PROVE Statement
  BY <1>3, <1>4, <1>5, <1>6, <1>7, <1>9
     DEF Step, FindAuthorized, CacheAuthorized, DropRevoked, ReadAccount, Backfill,
         CacheRefreshed, VerifyCredentials, DropDeleted, SetCache, DelCache, Statement
<1>10. ASSUME Environment \/ UNCHANGED vars PROVE UNCHANGED table
  BY <1>10 DEF Environment, vars, GeneratePreAuthURL, PreAuthExpires, CacheExpires,
     TokenExpires, Crash
<1>. QED  BY <1>1, <1>8, <1>9, <1>10 DEF Next

\* account.go, Delete: the tenant check made on the row that was read still
\* holds when the DELETE runs, whatever other handlers wrote in between.
THEOREM OwnerDeletes == Spec => OnlyOwnerDeletes
<1>1. IInv /\ [Next]_vars =>
        [\A id \in Account :
           Live(id) /\ table'[id].phase = "deleted" =>
             \E r \in Request : /\ req[r].at = "delete.row"
                                /\ req[r].id = id
                                /\ req[r].tenant = table[id].tenant]_vars
  BY StepWrites DEF Statement, RowWritten, Live
<1>. QED  BY <1>1, InvariantHolds, PTL DEF Spec, OnlyOwnerDeletes

-----------------------------------------------------------------------------
(* AuthorizerTokens implements AccountLifecycle *)

\* A sound live row is one that holds a token, as AccountLifecycle has it.
LEMMA SoundRowHolds ==
  ASSUME NEW row \in Row, Credentialed(row), row.phase = "live"
  PROVE  /\ row.access \in Token
         /\ AccountOf(row) = Lifecycle!Holding(row.kind, row.tenant, row.access)
BY DEF Credentialed, AccountOf, Lifecycle!Holding

LEMMA Views ==
  ASSUME TableSound
  PROVE  /\ \A id \in Account : accountView[id] = AccountOf(table[id])
         /\ \A id \in Account : Lifecycle!IsLive(id) <=> Live(id)
         /\ \A id \in Account : table[id] = Absent => accountView[id] = AccountOf(Absent)
BY DEF accountView, Lifecycle!IsLive, Live, AccountOf, Absent

\* What is unique in the table after a step was free before it.
LEMMA WasFree ==
  ASSUME TableSound, TableSound', NEW id \in Account, table'[id].phase = "live",
         \A other \in Account \ {id} : table'[other] = table[other]
  PROVE  Lifecycle!Free(id, table'[id].kind, table'[id].app)
<1>1. ASSUME NEW other \in Account \ {id}, Live(other), table[other].kind = table'[id].kind
      PROVE  table[other].app # table'[id].app
  BY <1>1 DEF TableSound, OneRowPerApp, Live
<1>2. ASSUME NEW other \in Account \ {id}, Lifecycle!IsLive(other),
             accountView[other].kind = table'[id].kind
      PROVE  accountView[other].app # table'[id].app
  <2>1. accountView[other] = AccountOf(table[other]) /\ Live(other)
    BY <1>2, Views
  <2>2. accountView[other].kind = table[other].kind
        /\ accountView[other].app = table[other].app
    BY <2>1 DEF AccountOf
  <2>. QED  BY <1>1, <1>2, <2>1, <2>2
<1>. QED  BY <1>2 DEF Lifecycle!Free

LEMMA ViewRewritten ==
  ASSUME TableSound, TableSound', NEW id \in Account,
         \A other \in Account \ {id} : table'[other] = table[other]
  PROVE  accountView' = [accountView EXCEPT ![id] = AccountOf(table'[id])]
BY DEF accountView

LEMMA StepRefines == IInv /\ IInv' /\ Statement => [Lifecycle!Next]_accountView
<1>. SUFFICES ASSUME IInv, IInv', Statement PROVE [Lifecycle!Next]_accountView
  OBVIOUS
<1>1. TableSound /\ TableSound'
  BY DEF IInv, TypeOK, TableSound
<1>2. CASE UNCHANGED table
  BY <1>2 DEF accountView
<1>3. ASSUME NEW id \in Account, RowWritten(id) PROVE Lifecycle!Next
  <2> DEFINE new == table'[id]
  <2>1. \A other \in Account \ {id} : table'[other] = table[other]
    BY <1>3 DEF RowWritten
  <2>2. accountView' = [accountView EXCEPT ![id] = AccountOf(new)]
    BY <1>1, <2>1, ViewRewritten
  <2>3. accountView[id] = AccountOf(table[id]) /\ (Lifecycle!IsLive(id) <=> Live(id))
    BY <1>1, Views
  <2>4. ASSUME new.phase = "live"
        PROVE  /\ new.access \in Token /\ new.access.app = new.app
               /\ new.kind \in {Manual, Platform} /\ new.tenant \in Tenant
               /\ AccountOf(new) = Lifecycle!Holding(new.kind, new.tenant, new.access)
               /\ Lifecycle!Free(id, new.kind, new.access.app)
    <3>1. new \in Row /\ Credentialed(new)
      BY <1>1, <2>4 DEF TableSound, RowsSound, Absent
    <3>2. new.access.app = new.app
      BY <3>1 DEF Credentialed
    <3>3. Lifecycle!Free(id, new.kind, new.app)
      BY <1>1, <2>1, <2>4, WasFree
    <3>4. new.kind \in {Manual, Platform} /\ new.tenant \in Tenant
      BY <3>1 DEF Row
    <3>. HIDE DEF new
    <3>. QED  BY <2>4, <3>1, <3>2, <3>3, <3>4, SoundRowHolds
  <2>. HIDE DEF new
  <2>5. CASE table[id] = Absent /\ new.phase = "live"
    <3>1. Lifecycle!Bind(id, new.kind, new.tenant, new.access)
      BY <1>1, <2>2, <2>4, <2>5, Views DEF Lifecycle!Bind
    <3>. QED  BY <2>4, <2>5, <3>1 DEF Lifecycle!Next
  <2>6. CASE /\ Live(id) /\ new.phase = "live"
             /\ new.kind = table[id].kind /\ new.tenant = table[id].tenant
             /\ table[id].kind = Platform => new.app = table[id].app
    <3>1. accountView[id].kind = new.kind /\ accountView[id].tenant = new.tenant
          /\ (accountView[id].kind = Platform => new.access.app = accountView[id].app)
      BY <2>3, <2>4, <2>6 DEF AccountOf
    <3>2. Lifecycle!Renew(id, new.access)
      BY <2>2, <2>3, <2>4, <2>6, <3>1 DEF Lifecycle!Renew
    <3>. QED  BY <2>4, <2>6, <3>2 DEF Lifecycle!Next
  <2>7. CASE Live(id) /\ new = [table[id] EXCEPT !.phase = "deleted"]
    <3>1. table[id] \in Row
      BY <1>1, <2>7 DEF TableSound, Live, Absent
    <3>2. AccountOf(new) = [AccountOf(table[id]) EXCEPT !.phase = "deleted"]
      BY <2>7, <3>1 DEF AccountOf, Row
    <3>3. accountView' = [accountView EXCEPT ![id].phase = "deleted"]
      BY <2>2, <2>3, <3>2
    <3>4. Lifecycle!Unbind(id)
      BY <2>3, <2>7, <3>3 DEF Lifecycle!Unbind
    <3>. QED  BY <3>4 DEF Lifecycle!Next
  <2>. QED  BY <1>3, <2>5, <2>6, <2>7 DEF RowWritten, new
<1>. QED  BY <1>2, <1>3 DEF Statement

\* Whatever stale copies the handlers of wechat.go and account.go write back,
\* and wherever they stop, wechat_accounts behaves as AccountLifecycle says.
THEOREM AccountsFollowLifecycle == Spec => ImplementsLifecycle
<1>1. Init => Lifecycle!Init
  BY DEF Init, Lifecycle!Init, accountView
<1>2. IInv /\ IInv' /\ [Next]_vars => [Lifecycle!Next]_accountView
  BY StepWrites, StepRefines
<1>. QED  BY <1>1, <1>2, InvariantHolds, PTL DEF Spec, ImplementsLifecycle, Lifecycle!Spec
=============================================================================
