--------------------------- MODULE TenantsProofs ---------------------------
(***************************************************************************)
(* Proofs about Tenants, for any ids, names, requests and bounds.          *)
(*                                                                         *)
(* TInv is inductive.  A password is the number of the request that sent   *)
(* it, so it is new when it is written; a copy is as old as its updated_at *)
(* says, and each write makes the row's larger than any before; and a      *)
(* status or a role comes from the row or from what was asked for.         *)
(***************************************************************************)
EXTENDS Tenants, TLAPS

\* What a handler may rely on, for a table T and a history H.
DecidedIn(H, i, row) ==
  <<i, "registered">> \in H =>
    /\ row.status # "pending" => <<i, row.status>> \in H
    /\ row.role # "user" => <<i, row.role>> \in H

ExtendsIn(T, H, i, row) ==
  /\ row.phone = T[i].phone
  /\ row.status # T[i].status => <<i, row.status>> \in H
  /\ row.role # T[i].role => <<i, row.role>> \in H

SoundIn(T, H, h) ==
  /\ h.at \in {"last_login", "update", "password"} => h.id \in Id /\ T[h.id].username # None
  /\ h.at = "create" => /\ h.row.username \notin {Admin, None}
                        /\ h.row.status = "pending" /\ h.row.role = "user"
  /\ h.at = "update" =>
       /\ DecidedIn(H, h.id, h.row)
       /\ h.row.updated_at <= T[h.id].updated_at
       /\ h.row.updated_at = T[h.id].updated_at => ExtendsIn(T, H, h.id, h.row)

Rows == \A i \in Id : RowSound(i)
Copies == \A r \in Request : SoundIn(tenants, history, req[r])
Passwords == \A r \in Request : Sends(r) => PasswordNew(r)
Data == Rows /\ Copies /\ Passwords /\ OnlyAdministratorsDecide /\ PasswordsRetired
Limiter == LimiterSound /\ LoginsLimited

LEMMA TInvParts == TInv <=> TypeOK /\ ServerSound /\ Limiter /\ Data
<1>1. \A r \in Request : CopySound(req[r]) <=> SoundIn(tenants, history, req[r])
  BY DEF CopySound, SoundIn, Extends, ExtendsIn, Decided, DecidedIn, Exists
<1> QED
  BY <1>1 DEF TInv, Limiter, Data, Rows, Copies, Passwords

LEMMA TInvPartsNext == TInv' <=> TypeOK' /\ ServerSound' /\ Limiter' /\ Data'
  BY TInvParts, PTL

LEMMA InitTInv == Init => TInv
<1> SUFFICES ASSUME Init PROVE TInv
  OBVIOUS
<1>1. TypeOK
  BY NameAssumption DEF Init, TypeOK, NoTenant, Tenant, Status, Role, Handler, Idle, Steps, NoCounter
<1>2. ServerSound /\ Limiter
  BY BoundAssumption DEF Init, ServerSound, Limiter, LimiterSound, LoginsLimited, NoCounter
<1>3. Rows
  BY NameAssumption DEF Init, Rows, RowSound, Exists, NoTenant
<1>4. Copies /\ Passwords
  BY DEF Init, Copies, SoundIn, Passwords, Sends, Idle
<1>5. OnlyAdministratorsDecide /\ PasswordsRetired
  BY DEF Init, OnlyAdministratorsDecide, PasswordsRetired, Exists, NoTenant
<1> QED
  BY <1>1, <1>2, <1>3, <1>4, <1>5, TInvParts DEF Data

-----------------------------------------------------------------------------
(* The limiter *)

\* Who is about to set the TTL stays, and the counter with it.
LEMMA LimiterKept ==
  ASSUME TypeOK, Limiter, UNCHANGED <<login_rate, tries>>,
         \A q \in Request : req[q].at = "expire" => req'[q].at = "expire"
  PROVE  Limiter'
  BY DEF TypeOK, Limiter, LimiterSound, LoginsLimited

\* A step of one request that is not about to set it.
LEMMA LimiterOther ==
  ASSUME TypeOK, Limiter, UNCHANGED <<login_rate, tries>>,
         NEW r \in Request, req[r].at # "expire", NEW h, req' = [req EXCEPT ![r] = h]
  PROVE  Limiter'
<1>1. \A q \in Request : req[q].at = "expire" => req'[q].at = "expire"
  BY DEF TypeOK
<1> QED
  BY <1>1, LimiterKept

-----------------------------------------------------------------------------
(* Steps that leave the table alone *)

\* No request begins to send a password or an update.
LEMMA QuietData ==
  ASSUME TypeOK, Data, UNCHANGED <<tenants, retired, now, history>>,
         arrived' = arrived \/ arrived' = arrived + 1,
         \A q \in Request : \/ req'[q] = req[q]
                            \/ /\ req'[q].at \in {"idle", "expire", "find", "last_login"}
                               /\ req'[q].at = "last_login" =>
                                    req'[q].id \in Id /\ tenants[req'[q].id].username # None
  PROVE  Data'
<1>1. Rows'
  <2> SUFFICES ASSUME NEW i \in Id PROVE RowSound(i)'
    BY DEF Rows
  <2>1. RowSound(i) /\ arrived \in Nat /\ arrived' \in Nat /\ arrived <= arrived'
    BY DEF TypeOK, Data, Rows
  <2>2. tenants[i].password \in Nat
    BY DEF TypeOK, Tenant
  <2>3. 0 .. arrived \subseteq 0 .. arrived'
    BY <2>1
  <2> QED
    BY <2>1, <2>2, <2>3 DEF RowSound, Exists
<1>2. Copies'
  <2> SUFFICES ASSUME NEW q \in Request PROVE SoundIn(tenants', history', req'[q])
    BY DEF Copies
  <2>1. CASE req'[q] = req[q]
    BY <2>1 DEF Data, Copies
  <2>2. CASE req'[q] # req[q]
    BY <2>2 DEF SoundIn
  <2> QED
    BY <2>1, <2>2
<1>3. Passwords'
  <2>1. \A q \in Request : Sends(q)' => req'[q] = req[q]
    BY DEF Sends
  <2>2. \A q \in Request : Sends(q)' => Sends(q)
    BY <2>1 DEF Sends
  <2> QED
    BY <2>1, <2>2 DEF TypeOK, Data, Passwords, PasswordNew
<1>4. OnlyAdministratorsDecide' /\ PasswordsRetired'
  BY DEF Data, OnlyAdministratorsDecide, PasswordsRetired, Decided, Exists
<1> QED
  BY <1>1, <1>2, <1>3, <1>4 DEF Data

\* A request arrives: its copy is sound, and a password it sends is new.
LEMMA ArriveData ==
  ASSUME TypeOK, Data, NEW r \in Request, UNCHANGED <<tenants, retired, now>>,
         arrived' = arrived + 1,
         NEW h \in Handler, req' = [req EXCEPT ![r] = h],
         SoundIn(tenants, history', h),
         h.at \in {"create", "password"} => h.row.password = arrived + 1,
         history \subseteq history',
         \A i \in Id : <<i, "registered">> \in history' => <<i, "registered">> \in history
  PROVE  Data'
<1>1. Rows'
  <2> SUFFICES ASSUME NEW i \in Id PROVE RowSound(i)'
    BY DEF Rows
  <2>1. RowSound(i) /\ arrived \in Nat /\ tenants[i].password \in Nat
    BY DEF TypeOK, Tenant, Data, Rows
  <2>2. 0 .. arrived \subseteq 0 .. arrived'
    BY <2>1
  <2> QED
    BY <2>1, <2>2 DEF RowSound, Exists
<1>2. Copies'
  <2> SUFFICES ASSUME NEW q \in Request PROVE SoundIn(tenants', history', req'[q])
    BY DEF Copies
  <2>1. CASE q = r
    BY <2>1 DEF TypeOK
  <2>2. CASE q # r
    <3>1. SoundIn(tenants, history, req[q]) /\ req'[q] = req[q]
      BY <2>2 DEF TypeOK, Data, Copies
    <3> QED
      BY <3>1 DEF SoundIn, DecidedIn, ExtendsIn
  <2> QED
    BY <2>1, <2>2
<1>3. Passwords'
  <2> SUFFICES ASSUME NEW q \in Request, Sends(q)' PROVE PasswordNew(q)'
    BY DEF Passwords
  <2>1. arrived \in Nat /\ \A i \in Id : /\ tenants[i].password <= arrived
                                        /\ tenants[i].password \in Nat
                                        /\ retired[i] \subseteq 0 .. arrived
    BY DEF TypeOK, Tenant, Data, Rows, RowSound
  <2>2. \A p \in Request \ {r} : Sends(p)' => req'[p] = req[p] /\ PasswordNew(p)
    BY DEF TypeOK, Sends, Data, Passwords
  <2>3. Sends(r)' => req'[r].row.password = arrived + 1
    BY DEF TypeOK, Sends
  <2>4. CASE q = r
    <3>1. \A p \in Request \ {r} : Sends(p)' => req'[p].row.password \in 1 .. arrived
      BY <2>2 DEF PasswordNew
    <3>2. req'[q].row.password = arrived + 1
      BY <2>3, <2>4
    <3> QED
      BY <2>1, <2>4, <3>1, <3>2 DEF PasswordNew
  <2>5. CASE q # r
    <3>1. req'[q] = req[q] /\ PasswordNew(q) /\ Sends(q)
      BY <2>2, <2>5 DEF Sends
    <3>2. \A p \in Request \ {q} : Sends(p)' => req'[p].row.password # req'[q].row.password
      <4>1. req'[q].row.password \in 1 .. arrived
        BY <3>1 DEF PasswordNew
      <4>2. \A p \in Request \ {q, r} : Sends(p)' => req'[p] = req[p] /\ Sends(p)
        BY <2>2 DEF Sends
      <4> QED
        BY <2>1, <2>3, <3>1, <4>1, <4>2 DEF PasswordNew
    <3> QED
      BY <2>1, <3>1, <3>2 DEF PasswordNew
  <2> QED
    BY <2>4, <2>5
<1>4. OnlyAdministratorsDecide'
  BY DEF Data, OnlyAdministratorsDecide, Decided, Exists
<1>5. PasswordsRetired'
  BY DEF Data, PasswordsRetired
<1> QED
  BY <1>1, <1>2, <1>3, <1>4, <1>5 DEF Data

-----------------------------------------------------------------------------
(* Writes *)

\* What Write does to the table.
LEMMA WriteRow ==
  ASSUME TypeOK, NEW i \in Id, NEW row \in Tenant, Write(i, row)
  PROVE  /\ now' = now + 1 /\ tenants' \in [Id -> Tenant]
         /\ tenants'[i] = [row EXCEPT !.updated_at = now + 1]
         /\ tenants'[i].updated_at = now + 1
         /\ tenants'[i].username = row.username /\ tenants'[i].password = row.password
         /\ tenants'[i].status = row.status /\ tenants'[i].role = row.role
         /\ tenants'[i].phone = row.phone
         /\ \A j \in Id \ {i} : tenants'[j] = tenants[j]
<1>1. [row EXCEPT !.updated_at = now + 1] \in Tenant
  <2>1. now + 1 \in Nat
    BY DEF TypeOK
  <2> QED
    BY <2>1 DEF Tenant
<1>2. tenants' = [tenants EXCEPT ![i] = [row EXCEPT !.updated_at = now + 1]] /\ now' = now + 1
  BY DEF Write
<1> DEFINE new == [row EXCEPT !.updated_at = now + 1]
<1>3. /\ new.updated_at = now + 1 /\ new.username = row.username
      /\ new.password = row.password /\ new.status = row.status
      /\ new.role = row.role /\ new.phone = row.phone
  BY DEF Tenant
<1>4. tenants' = [tenants EXCEPT ![i] = new] /\ new \in Tenant
  BY <1>1, <1>2
<1>5. new = [row EXCEPT !.updated_at = now + 1]
  OBVIOUS
<1> HIDE DEF new
<1>6. tenants'[i] = new /\ tenants' \in [Id -> Tenant] /\ \A j \in Id \ {i} : tenants'[j] = tenants[j]
  BY <1>4 DEF TypeOK
<1> QED
  BY <1>2, <1>3, <1>5, <1>6

\* The passwords on their way are still new, whatever the write does to retired.
LEMMA WritePasswords ==
  ASSUME TypeOK, Data, NEW i \in Id, NEW row \in Tenant, Write(i, row),
         arrived' = arrived \/ arrived' = arrived + 1,
         retired' \in [Id -> SUBSET Nat],
         \A j \in Id : retired'[j] \subseteq retired[j] \cup {tenants[j].password},
         \A q \in Request : req'[q] = req[q] \/ req'[q].at = "idle",
         \A q \in Request : Sends(q)' => req[q].row.password # row.password
  PROVE  Passwords'
<1>0. /\ now' = now + 1 /\ tenants' \in [Id -> Tenant]
      /\ tenants'[i].updated_at = now + 1
      /\ tenants'[i].username = row.username /\ tenants'[i].password = row.password
      /\ tenants'[i].status = row.status /\ tenants'[i].role = row.role
      /\ \A j \in Id \ {i} : tenants'[j] = tenants[j]
  BY WriteRow
<1> SUFFICES ASSUME NEW q \in Request, Sends(q)' PROVE PasswordNew(q)'
  BY DEF Passwords
<1>1. \A p \in Request : Sends(p)' => req'[p] = req[p] /\ Sends(p)
  BY DEF Sends
<1>2. PasswordNew(q) /\ req'[q] = req[q]
  BY <1>1 DEF Data, Passwords
<1>3. req'[q].row.password \in 1 .. arrived'
  BY <1>2 DEF TypeOK, PasswordNew
<1>4. ASSUME NEW j \in Id
      PROVE  req'[q].row.password \notin retired'[j] /\ req'[q].row.password # tenants'[j].password
  <2>1. tenants'[j].password \in {tenants[j].password, row.password}
    BY <1>0
  <2> QED
    BY <1>2, <2>1 DEF PasswordNew
<1>5. \A p \in Request \ {q} : Sends(p)' => req'[p].row.password # req'[q].row.password
  BY <1>1, <1>2 DEF PasswordNew
<1> QED
  BY <1>3, <1>4, <1>5 DEF PasswordNew

\* The copies of other rows are as they were, and those of this row are older.
LEMMA WriteCopies ==
  ASSUME TypeOK, Data, NEW i \in Id, NEW row \in Tenant, Write(i, row), row.username # None,
         history \subseteq history',
         \A j \in Id : Exists(j) /\ <<j, "registered">> \in history' =>
                        <<j, "registered">> \in history,
         \A q \in Request : req'[q] = req[q] \/ req'[q].at = "idle"
  PROVE  Copies'
<1>0. /\ now' = now + 1 /\ tenants' \in [Id -> Tenant]
      /\ tenants'[i].updated_at = now + 1
      /\ tenants'[i].username = row.username /\ tenants'[i].password = row.password
      /\ tenants'[i].status = row.status /\ tenants'[i].role = row.role
      /\ \A j \in Id \ {i} : tenants'[j] = tenants[j]
  BY WriteRow
<1> SUFFICES ASSUME NEW q \in Request PROVE SoundIn(tenants', history', req'[q])
  BY DEF Copies
<1>1. CASE req'[q].at = "idle"
  BY <1>1 DEF SoundIn
<1>2. CASE req'[q] = req[q]
  <2> DEFINE h == req[q]
  <2>1. SoundIn(tenants, history, h)
    BY DEF Data, Copies
  <2>2. h \in Handler /\ h.row.updated_at \in Nat /\ now \in Nat
    BY DEF TypeOK, Handler, Tenant
  <2>3. \A j \in Id : RowSound(j) /\ tenants[j].updated_at \in Nat
    BY DEF TypeOK, Tenant, Data, Rows
  <2> HIDE DEF h
  <2>4. h.at \in {"last_login", "update", "password"} =>
          h.id \in Id /\ tenants'[h.id].username # None
    BY <2>1, <1>0 DEF SoundIn
  <2>5. CASE h.at = "update" /\ h.id = i
    <3>1. h.row.updated_at < tenants'[i].updated_at
      <4>1. h.row.updated_at <= tenants[i].updated_at
        BY <2>1, <2>5 DEF SoundIn
      <4>2. tenants[i].updated_at <= now
        BY <2>3 DEF RowSound
      <4> QED
        BY <1>0, <2>2, <2>3, <4>1, <4>2
    <3>2. DecidedIn(history', i, h.row)
      BY <2>1, <2>5 DEF SoundIn, DecidedIn, Exists
    <3> QED
      BY <1>2, <2>2, <2>3, <2>4, <2>5, <3>1, <3>2, <1>0 DEF SoundIn, h
  <2>6. CASE h.at = "update" /\ h.id # i
    <3>1. h.id \in Id /\ tenants'[h.id] = tenants[h.id]
      BY <2>1, <2>6, <1>0 DEF SoundIn
    <3>2. DecidedIn(history', h.id, h.row)
      BY <2>1, <2>6 DEF SoundIn, DecidedIn, Exists
    <3> QED
      BY <1>2, <2>1, <2>4, <2>6, <3>1, <3>2 DEF SoundIn, ExtendsIn, h
  <2>7. CASE h.at # "update"
    BY <1>2, <2>1, <2>4, <2>7 DEF SoundIn, h
  <2> QED
    BY <2>5, <2>6, <2>7
<1> QED
  BY <1>1, <1>2

\* A row of the table is written.
LEMMA WriteData ==
  ASSUME TypeOK, Data, NEW i \in Id, Exists(i), NEW row \in Tenant, Write(i, row),
         row.username = tenants[i].username, Decided(i, row),
         arrived' = arrived \/ arrived' = arrived + 1, UNCHANGED history,
         \A q \in Request : req'[q] = req[q] \/ req'[q].at = "idle",
         retired' \in [Id -> SUBSET Nat],
         \A j \in Id : retired'[j] \subseteq retired[j] \cup {tenants[j].password},
         \A j \in Id \ {i} : retired'[j] = retired[j],
         row.password <= arrived, row.password \notin retired'[i],
         \A q \in Request : Sends(q)' => req[q].row.password # row.password
  PROVE  Data'
<1>0. /\ now' = now + 1 /\ tenants' \in [Id -> Tenant]
      /\ tenants'[i].updated_at = now + 1
      /\ tenants'[i].username = row.username /\ tenants'[i].password = row.password
      /\ tenants'[i].status = row.status /\ tenants'[i].role = row.role
      /\ \A j \in Id \ {i} : tenants'[j] = tenants[j]
  BY WriteRow, Zenon
<1>1. Passwords'
  BY WritePasswords
<1>2. Copies'
  BY WriteCopies DEF Exists
<1>3. Rows'
  <2> SUFFICES ASSUME NEW j \in Id PROVE RowSound(j)'
    BY DEF Rows
  <2>1. /\ RowSound(j) /\ arrived \in Nat /\ now \in Nat
        /\ tenants[j].updated_at \in Nat /\ tenants[j].password \in Nat
        /\ row.password \in Nat
    BY DEF TypeOK, Tenant, Data, Rows
  <2>2. 0 .. arrived \subseteq 0 .. arrived' /\ tenants[j].password \in 0 .. arrived
    BY <2>1 DEF RowSound
  <2>3. retired'[j] \subseteq 0 .. arrived'
    BY <2>1, <2>2 DEF RowSound
  <2>4. CASE j = i
    BY <2>1, <2>3, <2>4, <1>0 DEF RowSound, Exists
  <2>5. CASE j # i
    BY <2>1, <2>3, <2>5, <1>0 DEF RowSound, Exists
  <2> QED
    BY <2>4, <2>5
<1>4. OnlyAdministratorsDecide'
  BY <1>0 DEF Data, OnlyAdministratorsDecide, Decided, Exists
<1>5. PasswordsRetired'
  BY <1>0 DEF Data, PasswordsRetired
<1> QED
  BY <1>1, <1>2, <1>3, <1>4, <1>5 DEF Data

\* A row is added: of a user who registers, or of the administrator.
LEMMA NewRowData ==
  ASSUME TypeOK, Data, NEW i \in Id, ~Exists(i), NEW row \in Tenant, Write(i, row),
         row.username # None, row.password <= arrived, UNCHANGED <<arrived, retired>>,
         \/ UNCHANGED history
         \/ /\ history' = history \cup {<<i, "registered">>}
            /\ row.username # Admin /\ row.status = "pending" /\ row.role = "user",
         \A q \in Request : req'[q] = req[q] \/ req'[q].at = "idle",
         \A q \in Request : Sends(q)' => req[q].row.password # row.password
  PROVE  Data'
<1>0. /\ now' = now + 1 /\ tenants' \in [Id -> Tenant]
      /\ tenants'[i].updated_at = now + 1
      /\ tenants'[i].username = row.username /\ tenants'[i].password = row.password
      /\ tenants'[i].status = row.status /\ tenants'[i].role = row.role
      /\ \A j \in Id \ {i} : tenants'[j] = tenants[j]
  BY WriteRow
<1>1. Passwords'
  BY WritePasswords DEF TypeOK
<1>2. Copies'
  BY WriteCopies DEF Exists
<1>3. Rows'
  <2> SUFFICES ASSUME NEW j \in Id PROVE RowSound(j)'
    BY DEF Rows
  <2>1. /\ RowSound(j) /\ arrived \in Nat /\ now \in Nat
        /\ tenants[j].updated_at \in Nat /\ row.password \in Nat
    BY DEF TypeOK, Tenant, Data, Rows
  <2>2. CASE j = i
    BY <2>1, <2>2, <1>0 DEF RowSound, Exists
  <2>3. CASE j # i
    BY <2>1, <2>3, <1>0 DEF RowSound, Exists
  <2> QED
    BY <2>2, <2>3
<1>4. OnlyAdministratorsDecide'
  BY <1>0 DEF Data, Rows, RowSound, OnlyAdministratorsDecide, Decided, Exists
<1>5. PasswordsRetired'
  BY <1>0 DEF Data, Rows, RowSound, PasswordsRetired, Exists
<1> QED
  BY <1>1, <1>2, <1>3, <1>4, <1>5 DEF Data

-----------------------------------------------------------------------------
(* The actions *)

\* Types of the handlers.
LEMMA HandlerTypes ==
  /\ Idle \in Handler /\ NoTenant \in Tenant
  /\ \A at \in Steps, i \in Id \cup {None}, row \in Tenant :
       [at |-> at, id |-> i, row |-> row] \in Handler
  BY NameAssumption DEF Handler, Idle, NoTenant, Tenant, Status, Role, Steps

\* A request is served while the server is up; no row loses its name.
LEMMA ServerKept ==
  ASSUME TypeOK, ServerSound, server' = server,
         NEW r \in Request, req[r] # Idle \/ server = "up", \A q \in Request \ {r} : req'[q] = req[q],
         \A j \in Id : tenants[j].username = Admin => tenants'[j].username = Admin
  PROVE  ServerSound'
  BY DEF TypeOK, ServerSound, NameTaken

LEMMA LoginTInv ==
  ASSUME TInv, NEW r \in Request, Login(r)
  PROVE  TInv'
<1> DEFINE count == login_rate.count + 1
           at == AfterCount(count)
           h == [Idle EXCEPT !.at = at]
<1>1. TypeOK /\ ServerSound /\ Limiter /\ Data
  BY TInvParts
<1>2. /\ count \in Nat /\ at \in {"expire", "find", "idle"}
      /\ req' = [req EXCEPT ![r] = h] /\ arrived' = arrived + 1
      /\ login_rate' = [login_rate EXCEPT !.count = count]
      /\ tries' = IF at = "idle" THEN tries ELSE tries + 1
      /\ req[r] = Idle /\ server = "up"
      /\ UNCHANGED <<tenants, server, now, starts, faults, history, retired>>
  BY <1>1 DEF Login, TypeOK, AfterCount
<1>3. h \in Handler /\ h.at = at
  BY <1>2, HandlerTypes DEF Handler, Idle, Steps
<1>4. /\ login_rate'.count = count /\ login_rate'.ttl = login_rate.ttl
      /\ login_rate' \in [count: Nat, ttl: {"none", "set", "lost"}]
  BY <1>1, <1>2 DEF TypeOK
<1>5. TypeOK'
  BY <1>1, <1>2, <1>3, <1>4 DEF TypeOK
<1>6. ServerSound'
  BY <1>1, <1>2 DEF ServerSound, NameTaken
<1>7. Limiter'
  <2>1. /\ count = 1 => at = "expire"
        /\ count # 1 /\ count > MaxTries => at = "idle"
        /\ count # 1 /\ ~(count > MaxTries) => at = "find"
    BY DEF AfterCount
  <2>2. login_rate.count \in Nat /\ tries \in Nat /\ tries <= login_rate.count /\ tries <= MaxTries
    BY <1>1 DEF TypeOK, Limiter, LimiterSound, LoginsLimited
  <2> HIDE DEF count, at, h
  <2>3. count = login_rate.count + 1
    BY DEF count
  <2>4. tries' <= count /\ tries' <= MaxTries
    BY <1>2, <2>1, <2>2, <2>3, BoundAssumption
  <2>5. ASSUME login_rate'.ttl = "none"
        PROVE  \E q \in Request : req'[q].at = "expire"
    <3>1. CASE count = 1
      BY <1>1, <1>2, <1>3, <2>1, <3>1 DEF TypeOK
    <3>2. CASE count # 1
      <4>1. PICK q \in Request : req[q].at = "expire"
        BY <1>1, <1>2, <1>4, <2>2, <2>3, <2>5, <3>2 DEF Limiter, LoginsLimited
      <4>2. q # r
        BY <1>2, <4>1 DEF Idle
      <4> QED
        BY <1>1, <1>2, <4>1, <4>2 DEF TypeOK
    <3> QED
      BY <3>1, <3>2
  <2> QED
    BY <1>4, <2>4, <2>5 DEF Limiter, LimiterSound, LoginsLimited
<1>8. Data'
  <2> HIDE DEF at, count, h
  <2>1. \A q \in Request : req'[q] = req[q] \/ req'[q].at \in {"idle", "expire", "find"}
    BY <1>1, <1>2, <1>3 DEF TypeOK
  <2> QED
    BY <1>1, <1>2, <2>1, QuietData
<1> QED
  BY <1>5, <1>6, <1>7, <1>8, TInvPartsNext

LEMMA SetLimitTInv ==
  ASSUME TInv, NEW r \in Request, SetLimit(r)
  PROVE  TInv'
<1>1. TypeOK /\ ServerSound /\ Limiter /\ Data
  BY TInvParts
<1>2. /\ req[r].at = "expire" /\ req' = [req EXCEPT ![r].at = "find"]
      /\ UNCHANGED <<tenants, server, arrived, now, starts, history, retired, tries>>
  BY DEF SetLimit
<1>3. \/ /\ login_rate' = [login_rate EXCEPT !.ttl = "set"] /\ faults' = faults
      \/ /\ login_rate' = [login_rate EXCEPT !.ttl = "lost"] /\ faults' = faults + 1
  BY DEF SetLimit, Fails
<1>4. req' \in [Request -> Handler] /\ \A q \in Request : q = r \/ req'[q] = req[q]
  BY <1>1, <1>2 DEF TypeOK, Handler, Steps
<1>5. req'[r].at = "find"
  BY <1>1, <1>2 DEF TypeOK, Handler
<1>6. TypeOK'
  <2>1. faults' \in Nat
    BY <1>1, <1>3 DEF TypeOK
  <2>2. login_rate \in [count: Nat, ttl: {"none", "set", "lost"}]
    BY <1>1 DEF TypeOK
  <2>3. \A t \in {"set", "lost"} :
          [login_rate EXCEPT !.ttl = t] \in [count: Nat, ttl: {"none", "set", "lost"}]
    BY <2>2
  <2>4. login_rate' \in [count: Nat, ttl: {"none", "set", "lost"}]
    BY <1>3, <2>2, <2>3
  <2> QED
    BY <1>1, <1>2, <1>4, <2>1, <2>4 DEF TypeOK
<1>7. ServerSound'
  BY <1>1, <1>2, <1>4 DEF ServerSound, NameTaken, Idle
<1>8. Limiter'
  BY <1>1, <1>2, <1>3 DEF TypeOK, Limiter, LimiterSound, LoginsLimited
<1>9. Data'
  BY <1>1, <1>2, <1>4, <1>5, QuietData
<1> QED
  BY <1>6, <1>7, <1>8, <1>9, TInvPartsNext

\* A call that ends in the table being as it was.
LEMMA QuietCall ==
  ASSUME TypeOK, ServerSound, Limiter, Data, NEW r \in Request, NEW h \in Handler,
         req' = [req EXCEPT ![r] = h], req[r].at \notin {"idle", "expire"},
         h.at \in {"idle", "last_login"},
         h.at = "last_login" => h.id \in Id /\ tenants[h.id].username # None,
         faults' = faults \/ faults' = faults + 1,
         UNCHANGED <<tenants, server, login_rate, arrived, now, starts, history, retired, tries>>
  PROVE  TInv'
<1>1. TypeOK'
  BY DEF TypeOK
<1>2. ServerSound'
  BY ServerKept DEF TypeOK, Idle
<1>3. Limiter'
  BY LimiterOther
<1>4. \A q \in Request : req'[q] = req[q] \/ req'[q] = h
  BY DEF TypeOK
<1>5. Data'
  BY <1>4, QuietData
<1> QED
  BY <1>1, <1>2, <1>3, <1>5, TInvPartsNext

LEMMA CheckLoginTInv ==
  ASSUME TInv, NEW r \in Request, CheckLogin(r)
  PROVE  TInv'
<1>1. TypeOK /\ ServerSound /\ Limiter /\ Data
  BY TInvParts
<1>2. req \in [Request -> Handler] /\ req[r].at = "find"
  BY <1>1 DEF TypeOK, CheckLogin
<1>3. ASSUME NEW i \in Id, Exists(i),
             req' = [req EXCEPT ![r] = [@ EXCEPT !.at = "last_login", !.id = i]]
      PROVE  TInv'
  <2> DEFINE h == [req[r] EXCEPT !.at = "last_login", !.id = i]
  <2>1. req' = [req EXCEPT ![r] = h]
    BY <1>2, <1>3
  <2>2. h \in Handler /\ h.at = "last_login" /\ h.id = i
    BY <1>2 DEF Handler, Steps
  <2> HIDE DEF h
  <2> QED
    BY <1>1, <1>2, <1>3, <2>1, <2>2, QuietCall DEF CheckLogin, Exists
<1>4. CASE Done(r)
  <2>1. req' = [req EXCEPT ![r] = Idle] /\ Idle.at = "idle"
    BY <1>4 DEF Done, Idle
  <2> QED
    BY <1>1, <1>2, <2>1, HandlerTypes, QuietCall DEF CheckLogin
<1> QED
  BY <1>3, <1>4 DEF CheckLogin

LEMMA CallFailsTInv ==
  ASSUME TInv, NEW r \in Request, CallFails(r)
  PROVE  TInv'
<1>1. TypeOK /\ ServerSound /\ Limiter /\ Data
  BY TInvParts
<1>2. req' = [req EXCEPT ![r] = Idle] /\ Idle.at = "idle"
  BY DEF CallFails, Done, Idle
<1> QED
  BY <1>1, <1>2, HandlerTypes, QuietCall DEF CallFails, Fails

\* A call that writes a row that is there.
LEMMA WriteCall ==
  ASSUME TypeOK, ServerSound, Limiter, Data, NEW i \in Id, Exists(i), NEW row \in Tenant,
         Write(i, row), row.username = tenants[i].username, Decided(i, row),
         NEW r \in Request, req[r].at \notin {"idle", "expire"}, Done(r),
         UNCHANGED <<server, login_rate, arrived, starts, faults, history, tries>>,
         retired' \in [Id -> SUBSET Nat],
         \A j \in Id : retired'[j] \subseteq retired[j] \cup {tenants[j].password},
         \A j \in Id \ {i} : retired'[j] = retired[j],
         row.password <= arrived, row.password \notin retired'[i],
         \A q \in Request \ {r} : Sends(q) => req[q].row.password # row.password
  PROVE  TInv'
<1>1. req' = [req EXCEPT ![r] = Idle] /\ \A q \in Request \ {r} : req'[q] = req[q]
  BY DEF Done, TypeOK
<1>2. req'[r] = Idle /\ Idle.at = "idle"
  BY <1>1 DEF TypeOK, Idle
<1>3. /\ tenants' \in [Id -> Tenant] /\ now' = now + 1
      /\ tenants'[i].username = row.username /\ \A j \in Id \ {i} : tenants'[j] = tenants[j]
  BY WriteRow
<1>4. TypeOK'
  BY <1>1, <1>3, HandlerTypes DEF TypeOK
<1>5. ServerSound'
  <2>1. \A j \in Id : tenants'[j].username = tenants[j].username
    BY <1>3
  <2> QED
    BY <1>1, <1>2, <2>1, ServerKept
<1>6. Limiter'
  BY <1>1, LimiterOther
<1>7. Data'
  <2>1. \A q \in Request : req'[q] = req[q] \/ req'[q].at = "idle"
    BY <1>1, <1>2
  <2>2. \A q \in Request : Sends(q)' => req[q].row.password # row.password
    BY <1>1, <1>2 DEF Sends
  <2> QED
    BY <2>1, <2>2, WriteData
<1> QED
  BY <1>4, <1>5, <1>6, <1>7, TInvPartsNext

\* What the handlers may rely on of the row they write.
LEMMA RowKnown ==
  ASSUME TypeOK, Data, NEW i \in Id
  PROVE  /\ tenants[i] \in Tenant /\ tenants[i].password \notin retired[i]
         /\ tenants[i].password <= arrived /\ retired[i] \subseteq 0 .. arrived
         /\ Exists(i) => Decided(i, tenants[i])
         /\ \A q \in Request : Sends(q) => req[q].row.password # tenants[i].password
  BY DEF TypeOK, Data, PasswordsRetired, Rows, RowSound, OnlyAdministratorsDecide,
         Passwords, PasswordNew

LEMMA RecordLoginTInv ==
  ASSUME TInv, NEW r \in Request, RecordLogin(r)
  PROVE  TInv'
<1> DEFINE i == req[r].id
<1>1. TypeOK /\ ServerSound /\ Limiter /\ Data
  BY TInvParts
<1>2. req[r].at = "last_login" /\ Done(r)
      /\ UNCHANGED <<server, login_rate, arrived, starts, history, retired, tries>>
  BY DEF RecordLogin
<1>3. i \in Id /\ Exists(i)
  BY <1>1, <1>2 DEF Data, Copies, SoundIn, Exists
<1>4. CASE Write(i, tenants[i]) /\ UNCHANGED faults
  BY <1>1, <1>2, <1>3, <1>4, RowKnown, WriteCall DEF TypeOK
<1>5. CASE Fails /\ UNCHANGED <<tenants, now>>
  <2>1. req' = [req EXCEPT ![r] = Idle] /\ Idle.at = "idle"
    BY <1>2 DEF Done, Idle
  <2> QED
    BY <1>1, <1>2, <1>5, <2>1, HandlerTypes, QuietCall DEF Fails
<1> QED
  BY <1>4, <1>5 DEF RecordLogin

\* A request that begins with a query.
LEMMA ArriveCall ==
  ASSUME TypeOK, ServerSound, Limiter, Data, NEW r \in Request,
         NEW at \in {"create", "update", "password"}, NEW i \in Id \cup {None}, NEW row \in Tenant,
         Arrive(r, at, i, row),
         UNCHANGED <<tenants, server, login_rate, now, starts, faults, retired, tries>>,
         SoundIn(tenants, history', [at |-> at, id |-> i, row |-> row]),
         at \in {"create", "password"} => row.password = arrived + 1,
         history \subseteq history',
         history' \subseteq Id \X (Status \cup Role \cup {"registered"}),
         \A j \in Id : <<j, "registered">> \in history' => <<j, "registered">> \in history
  PROVE  TInv'
<1> DEFINE h == [at |-> at, id |-> i, row |-> row]
<1>1. /\ h \in Handler /\ h.at = at /\ h.row = row
      /\ server = "up" /\ req[r] = Idle /\ req' = [req EXCEPT ![r] = h] /\ arrived' = arrived + 1
  BY HandlerTypes DEF Arrive, Steps
<1> HIDE DEF h
<1>2. TypeOK'
  BY <1>1 DEF TypeOK
<1>3. ServerSound'
  BY <1>1, ServerKept DEF TypeOK
<1>4. Limiter'
  <2>1. req[r].at # "expire"
    BY <1>1 DEF Idle
  <2> QED
    BY <1>1, <2>1, LimiterOther
<1>5. Data'
  BY <1>1, ArriveData DEF h
<1> QED
  BY <1>2, <1>3, <1>4, <1>5, TInvPartsNext

LEMMA RegisterTInv ==
  ASSUME TInv, NEW r \in Request, NEW n \in Name, NEW phone \in Phone, Register(r, n, phone)
  PROVE  TInv'
<1> DEFINE row == NewTenant(n, phone, arrived + 1)
<1>1. TypeOK /\ ServerSound /\ Limiter /\ Data
  BY TInvParts
<1>2. /\ row \in Tenant /\ row.username = n /\ row.password = arrived + 1
      /\ row.status = "pending" /\ row.role = "user"
  BY <1>1 DEF NewTenant, TypeOK, Tenant, Status, Role
<1>3. NameTaken(Admin)
  BY <1>1 DEF Register, Arrive, ServerSound
<1>4. n \notin {Admin, None}
  BY <1>3, NameAssumption DEF Register
<1> HIDE DEF row
<1>5. SoundIn(tenants, history', [at |-> "create", id |-> None, row |-> row])
  BY <1>2, <1>4 DEF SoundIn
<1> QED
  BY <1>1, <1>2, <1>5, ArriveCall DEF Register, row, TypeOK

\* The copy that a new password goes into.
LEMMA PasswordCopy ==
  ASSUME TInv, NEW i \in Id, Exists(i)
  PROVE  LET row == [tenants[i] EXCEPT !.password = arrived + 1] IN
         /\ row \in Tenant /\ row.password = arrived + 1
         /\ SoundIn(tenants, history, [at |-> "password", id |-> i, row |-> row])
<1> DEFINE row == [tenants[i] EXCEPT !.password = arrived + 1]
<1>1. TypeOK
  BY TInvParts
<1>2. row \in Tenant /\ row.password = arrived + 1
  BY <1>1 DEF TypeOK, Tenant
<1> HIDE DEF row
<1>3. SoundIn(tenants, history, [at |-> "password", id |-> i, row |-> row])
  BY DEF SoundIn, Exists
<1> QED
  BY <1>2, <1>3 DEF row

LEMMA NewPasswordTInv ==
  ASSUME TInv, NEW r \in Request, NEW i \in Id, Exists(i),
         Arrive(r, "password", i, [tenants[i] EXCEPT !.password = arrived + 1]),
         UNCHANGED <<tenants, server, login_rate, now, starts, faults, history, retired, tries>>
  PROVE  TInv'
<1> DEFINE row == [tenants[i] EXCEPT !.password = arrived + 1]
<1>1. TypeOK /\ ServerSound /\ Limiter /\ Data
  BY TInvParts
<1>2. /\ row \in Tenant /\ row.password = arrived + 1
      /\ SoundIn(tenants, history, [at |-> "password", id |-> i, row |-> row])
  BY PasswordCopy
<1>3. Arrive(r, "password", i, row)
  OBVIOUS
<1> HIDE DEF row
<1>4. SoundIn(tenants, history', [at |-> "password", id |-> i, row |-> row])
  BY <1>2
<1> QED
  BY <1>1, <1>2, <1>3, <1>4, ArriveCall DEF TypeOK

LEMMA UpdateUserTInv ==
  ASSUME TInv, NEW r \in Request, NEW i \in Id,
         NEW status \in Optional(Status), NEW role \in Optional(Role),
         UpdateUser(r, i, status, role)
  PROVE  TInv'
<1> DEFINE s == Asked(status, tenants[i].status)
           o == Asked(role, tenants[i].role)
           row == [tenants[i] EXCEPT !.status = s, !.role = o]
<1>1. TypeOK /\ ServerSound /\ Limiter /\ Data
  BY TInvParts
<1>2. tenants[i] \in Tenant /\ Exists(i) /\ Decided(i, tenants[i])
      /\ tenants[i].updated_at \in Nat
  BY <1>1, RowKnown DEF UpdateUser, Tenant
<1>3. /\ s = tenants[i].status \/ s \in status
      /\ o = tenants[i].role \/ o \in role
  BY DEF Asked, Optional
<1>4. status \subseteq Status /\ role \subseteq Role /\ s \in Status /\ o \in Role
  BY <1>2, <1>3 DEF Optional, Tenant
<1>5. Arrive(r, "update", i, row) /\ history' = history \cup ({i} \X (status \cup role))
  BY DEF UpdateUser
<1> HIDE DEF s, o
<1>6. /\ row \in Tenant /\ row.status = s /\ row.role = o /\ row.phone = tenants[i].phone
      /\ row.updated_at = tenants[i].updated_at
  BY <1>2, <1>4 DEF Tenant
<1> HIDE DEF row
<1>7. \A j \in Id : <<j, "registered">> \in history' => <<j, "registered">> \in history
  BY <1>4, <1>5 DEF Status, Role
<1>8. /\ row.status # tenants[i].status => <<i, row.status>> \in history'
      /\ row.role # tenants[i].role => <<i, row.role>> \in history'
  BY <1>3, <1>5, <1>6
<1>9. DecidedIn(history', i, row)
  BY <1>2, <1>5, <1>7, <1>8 DEF Decided, DecidedIn
<1>10. SoundIn(tenants, history', [at |-> "update", id |-> i, row |-> row])
  BY <1>2, <1>6, <1>8, <1>9 DEF SoundIn, ExtendsIn, Exists
<1>11. history \subseteq history' /\ history' \subseteq Id \X (Status \cup Role \cup {"registered"})
  BY <1>1, <1>4, <1>5 DEF TypeOK
<1> QED
  BY <1>1, <1>5, <1>6, <1>7, <1>10, <1>11, ArriveCall DEF UpdateUser

LEMMA CreateTInv ==
  ASSUME TInv, NEW r \in Request, Create(r)
  PROVE  TInv'
<1> DEFINE row == req[r].row
<1>1. TypeOK /\ ServerSound /\ Limiter /\ Data
  BY TInvParts
<1>2. /\ req[r].at = "create" /\ req' = [req EXCEPT ![r] = Idle] /\ Idle.at = "idle"
      /\ UNCHANGED <<server, login_rate, arrived, starts, faults, retired, tries>>
  BY DEF Create, Done, Idle
<1>3. CASE UNCHANGED <<tenants, now, history>>
  BY <1>1, <1>2, <1>3, HandlerTypes, QuietCall
<1>4. ASSUME NEW i \in Id, ~Exists(i), Write(i, row), history' = history \cup {<<i, "registered">>}
      PROVE  TInv'
  <2>1. /\ row \in Tenant /\ row.username \notin {Admin, None}
        /\ row.status = "pending" /\ row.role = "user"
    BY <1>1, <1>2 DEF TypeOK, Handler, Data, Copies, SoundIn
  <2>2. PasswordNew(r) /\ row.password \in 1 .. arrived
    BY <1>1, <1>2 DEF Sends, Data, Passwords, PasswordNew
  <2>3. \A q \in Request \ {r} : Sends(q) => req[q].row.password # row.password
    BY <2>2 DEF PasswordNew
  <2> HIDE DEF row
  <2>4. /\ tenants' \in [Id -> Tenant] /\ now' = now + 1
        /\ tenants'[i].username = row.username /\ \A j \in Id \ {i} : tenants'[j] = tenants[j]
    BY <1>1, <1>4, <2>1, WriteRow
  <2>5. req' \in [Request -> Handler] /\ \A q \in Request \ {r} : req'[q] = req[q]
    BY <1>1, <1>2, HandlerTypes DEF TypeOK
  <2>6. req'[r] = Idle
    BY <1>1, <1>2 DEF TypeOK
  <2>7. TypeOK'
    BY <1>1, <1>2, <1>4, <2>4, <2>5 DEF TypeOK
  <2>8. ServerSound'
    <3>1. \A j \in Id : tenants[j].username = Admin => tenants'[j].username = Admin
      BY <1>4, <2>4, NameAssumption DEF Exists
    <3> QED
      BY <1>1, <1>2, <2>5, <3>1, ServerKept DEF Idle
  <2>9. Limiter'
    BY <1>1, <1>2, LimiterOther
  <2>10. Data'
    <3>1. \A q \in Request : req'[q] = req[q] \/ req'[q].at = "idle"
      BY <1>2, <2>5, <2>6
    <3>2. \A q \in Request : Sends(q)' => req[q].row.password # row.password
      BY <1>2, <2>3, <2>5, <2>6 DEF Sends
    <3>3. row.password <= arrived
      BY <1>1, <2>2 DEF TypeOK
    <3> QED
      BY <1>1, <1>2, <1>4, <2>1, <3>1, <3>2, <3>3, NewRowData
  <2> QED
    BY <2>7, <2>8, <2>9, <2>10, TInvPartsNext
<1> QED
  BY <1>3, <1>4 DEF Create

LEMMA UpdateProfileTInv ==
  ASSUME TInv, NEW r \in Request, NEW i \in Id, NEW phone \in Phone \cup {NoPhone},
         UpdateProfile(r, i, phone)
  PROVE  TInv'
<1> DEFINE row == [tenants[i] EXCEPT !.phone = phone]
<1>1. TypeOK /\ ServerSound /\ Limiter /\ Data
  BY TInvParts
<1>2. Exists(i) /\ Write(i, row) /\ arrived' = arrived + 1
      /\ UNCHANGED <<req, server, login_rate, starts, faults, history, retired, tries>>
  BY DEF UpdateProfile
<1>3. /\ row \in Tenant /\ row.username = tenants[i].username
      /\ row.password = tenants[i].password
      /\ row.status = tenants[i].status /\ row.role = tenants[i].role
  BY <1>1 DEF TypeOK, Tenant
<1> HIDE DEF row
<1>4. /\ tenants' \in [Id -> Tenant] /\ now' = now + 1
      /\ tenants'[i].username = row.username /\ \A j \in Id \ {i} : tenants'[j] = tenants[j]
  BY <1>1, <1>2, <1>3, WriteRow
<1>5. TypeOK'
  BY <1>1, <1>2, <1>4 DEF TypeOK
<1>6. ServerSound'
  <2>1. \A j \in Id : tenants'[j].username = tenants[j].username
    BY <1>3, <1>4
  <2> QED
    BY <1>1, <1>2, <2>1 DEF ServerSound, NameTaken
<1>7. Limiter'
  BY <1>1, <1>2, LimiterKept
<1>8. Data'
  <2>1. Decided(i, row)
    BY <1>1, <1>2, <1>3, RowKnown DEF Decided
  <2>2. \A q \in Request : Sends(q)' => req[q].row.password # row.password
    BY <1>1, <1>2, <1>3, RowKnown DEF Sends
  <2>3. retired' \in [Id -> SUBSET Nat] /\ row.password \notin retired'[i] /\ row.password <= arrived
    BY <1>1, <1>2, <1>3, RowKnown DEF TypeOK
  <2>4. \A q \in Request : req'[q] = req[q] \/ req'[q].at = "idle"
    BY <1>2
  <2> QED
    BY <1>1, <1>2, <1>3, <2>1, <2>2, <2>3, <2>4, WriteData
<1> QED
  BY <1>5, <1>6, <1>7, <1>8, TInvPartsNext

LEMMA UpdatePasswordTInv ==
  ASSUME TInv, NEW r \in Request, UpdatePassword(r)
  PROVE  TInv'
<1> DEFINE i == req[r].id
           p == req[r].row.password
           row == [tenants[i] EXCEPT !.password = p]
<1>1. TypeOK /\ ServerSound /\ Limiter /\ Data
  BY TInvParts
<1>2. /\ req[r].at = "password" /\ Write(i, row) /\ Done(r)
      /\ retired' = [retired EXCEPT ![i] = @ \cup {tenants[i].password}]
      /\ UNCHANGED <<server, login_rate, arrived, starts, faults, history, tries>>
  BY DEF UpdatePassword
<1>3. i \in Id /\ Exists(i)
  BY <1>1, <1>2 DEF Data, Copies, SoundIn, Exists
<1>4. PasswordNew(r) /\ p \in 1 .. arrived /\ p \in Nat
  BY <1>1, <1>2 DEF Sends, Data, Passwords, PasswordNew
<1>5. \A q \in Request \ {r} : Sends(q) => req[q].row.password # p
  BY <1>4 DEF PasswordNew
<1>6. p \notin retired[i] /\ p # tenants[i].password
  BY <1>3, <1>4 DEF PasswordNew
<1> HIDE DEF i, p
<1>7. /\ row \in Tenant /\ row.username = tenants[i].username /\ row.password = p
      /\ row.status = tenants[i].status /\ row.role = tenants[i].role
  BY <1>1, <1>3, <1>4 DEF TypeOK, Tenant
<1> HIDE DEF row
<1>8. Decided(i, row)
  BY <1>1, <1>3, <1>7, RowKnown DEF Decided
<1>9. /\ retired' \in [Id -> SUBSET Nat]
      /\ \A j \in Id : retired'[j] \subseteq retired[j] \cup {tenants[j].password}
      /\ \A j \in Id \ {i} : retired'[j] = retired[j]
      /\ p \notin retired'[i]
  BY <1>1, <1>2, <1>3, <1>6 DEF TypeOK, Tenant
<1>10. p <= arrived
  BY <1>1, <1>4 DEF TypeOK
<1> QED
  BY <1>1, <1>2, <1>3, <1>5, <1>7, <1>8, <1>9, <1>10, WriteCall

LEMMA UpdateTInv ==
  ASSUME TInv, NEW r \in Request, Update(r)
  PROVE  TInv'
<1> DEFINE i == req[r].id
           copy == req[r].row
           row == [tenants[i] EXCEPT !.status = copy.status, !.role = copy.role,
                                     !.phone = copy.phone]
<1>1. TypeOK /\ ServerSound /\ Limiter /\ Data
  BY TInvParts
<1>2. /\ req[r].at = "update" /\ Write(i, row) /\ Done(r)
      /\ UNCHANGED <<server, login_rate, arrived, starts, faults, history, retired, tries>>
  BY DEF Update
<1>3. i \in Id /\ Exists(i) /\ DecidedIn(history, i, copy)
  BY <1>1, <1>2 DEF Data, Copies, SoundIn, Exists
<1>4. copy \in Tenant
  BY <1>1 DEF TypeOK, Handler
<1> HIDE DEF i, copy
<1>5. /\ row \in Tenant /\ row.username = tenants[i].username
      /\ row.password = tenants[i].password
      /\ row.status = copy.status /\ row.role = copy.role
  <2> DEFINE mid == [tenants[i] EXCEPT !.status = copy.status, !.role = copy.role]
  <2>1. /\ mid \in Tenant /\ mid.username = tenants[i].username
        /\ mid.password = tenants[i].password
        /\ mid.status = copy.status /\ mid.role = copy.role
    BY <1>1, <1>3, <1>4 DEF TypeOK, Tenant
  <2>2. row = [mid EXCEPT !.phone = copy.phone]
    OBVIOUS
  <2> HIDE DEF mid, row
  <2> QED
    BY <1>4, <2>1, <2>2 DEF Tenant
<1> HIDE DEF row
<1>6. Decided(i, row)
  BY <1>3, <1>5 DEF Decided, DecidedIn
<1>7. /\ retired' \in [Id -> SUBSET Nat] /\ row.password \notin retired'[i]
      /\ row.password <= arrived
      /\ \A q \in Request : Sends(q) => req[q].row.password # row.password
  BY <1>1, <1>2, <1>3, <1>5, RowKnown DEF TypeOK
<1> QED
  BY <1>1, <1>2, <1>3, <1>5, <1>6, <1>7, WriteCall

-----------------------------------------------------------------------------
(* The server *)

\* A step of the server that leaves table and requests alone.
LEMMA ServerQuiet ==
  ASSUME TInv, server' \in {"down", "seed", "approve", "up"},
         starts' = starts \/ starts' = starts + 1,
         UNCHANGED <<tenants, req, login_rate, arrived, now, faults, history, retired, tries>>,
         ServerSound'
  PROVE  TInv'
<1>1. TypeOK /\ Limiter /\ Data
  BY TInvParts
<1>2. TypeOK'
  BY <1>1 DEF TypeOK
<1>3. Limiter'
  BY <1>1, LimiterKept
<1>4. Data'
  BY <1>1, QuietData
<1> QED
  BY <1>2, <1>3, <1>4, TInvPartsNext

LEMMA StartTInv ==
  ASSUME TInv, Start
  PROVE  TInv'
<1>1. TypeOK /\ ServerSound
  BY TInvParts
<1>2. ServerSound'
  BY <1>1 DEF Start, ServerSound
<1> QED
  BY <1>1, <1>2, ServerQuiet DEF Start, UnchangedByServer, TypeOK

LEMMA StopTInv ==
  ASSUME TInv, Stop
  PROVE  TInv'
<1>1. TypeOK /\ ServerSound
  BY TInvParts
<1>2. ServerSound'
  BY <1>1 DEF Stop, ServerSound
<1> QED
  BY <1>1, <1>2, ServerQuiet DEF Stop, UnchangedByServer, TypeOK

LEMMA CrashTInv ==
  ASSUME TInv, Crash
  PROVE  TInv'
<1>1. TypeOK /\ ServerSound /\ Limiter /\ Data
  BY TInvParts
<1>2. /\ server' = "down" /\ faults' = faults + 1
      /\ UNCHANGED <<tenants, arrived, now, starts, history, retired, tries>>
  BY DEF Crash, Fails
<1>3. /\ req' \in [Request -> Handler]
      /\ \A q \in Request : req'[q] = Idle /\ req'[q].at = "idle"
  BY HandlerTypes DEF Crash, Idle
<1>4. /\ login_rate' \in [count: Nat, ttl: {"none", "set", "lost"}]
      /\ login_rate'.count = login_rate.count
      /\ login_rate'.ttl = "none" =>
           login_rate.ttl = "none" /\ ~\E r \in Request : req[r].at = "expire"
  BY <1>1 DEF Crash, TypeOK
<1>5. TypeOK'
  BY <1>1, <1>2, <1>3, <1>4 DEF TypeOK
<1>6. ServerSound'
  BY <1>2, <1>3 DEF ServerSound
<1>7. Limiter'
  BY <1>1, <1>2, <1>4 DEF Limiter, LimiterSound, LoginsLimited
<1>8. Data'
  BY <1>1, <1>2, <1>3, QuietData
<1> QED
  BY <1>5, <1>6, <1>7, <1>8, TInvPartsNext

\* A migration that writes.
LEMMA SeedAdminTInv ==
  ASSUME TInv, SeedAdmin
  PROVE  TInv'
<1> DEFINE row == [NoTenant EXCEPT !.username = Admin, !.status = "normal", !.role = "admin"]
<1>1. TypeOK /\ ServerSound /\ Limiter /\ Data
  BY TInvParts
<1>2. /\ server = "seed" /\ server' = "approve"
      /\ UNCHANGED <<req, starts, faults, login_rate, arrived, history, retired, tries>>
  BY DEF SeedAdmin, UnchangedByServer
<1>3. \A q \in Request : req[q] = Idle /\ req[q].at = "idle"
  BY <1>1, <1>2 DEF ServerSound, Idle
<1>4. CASE NameTaken(Admin)
  <2>1. UNCHANGED <<tenants, now>>
    BY <1>4 DEF SeedAdmin
  <2>2. ServerSound'
    BY <1>1, <1>2, <1>3, <1>4, <2>1 DEF ServerSound, NameTaken
  <2> QED
    BY <1>1, <1>2, <2>1, <2>2, ServerQuiet DEF TypeOK
<1>5. ASSUME NEW i \in Id, ~Exists(i), Write(i, row) PROVE TInv'
  <2>1. /\ row \in Tenant /\ row.username = Admin /\ row.password = 0
    <3> DEFINE mid == [NoTenant EXCEPT !.username = Admin, !.status = "normal"]
    <3>1. mid \in Tenant /\ mid.username = Admin /\ mid.password = 0
      BY NameAssumption DEF NoTenant, Tenant, Status, Role
    <3>2. row = [mid EXCEPT !.role = "admin"]
      OBVIOUS
    <3> HIDE DEF mid, row
    <3> QED
      BY <3>1, <3>2 DEF Tenant, Role
  <2> HIDE DEF row
  <2>2. /\ tenants' \in [Id -> Tenant] /\ now' = now + 1
        /\ tenants'[i].username = row.username /\ \A j \in Id \ {i} : tenants'[j] = tenants[j]
    BY <1>1, <1>5, <2>1, WriteRow
  <2>3. TypeOK'
    BY <1>1, <1>2, <2>2 DEF TypeOK
  <2>4. ServerSound'
    BY <1>2, <1>3, <2>1, <2>2 DEF ServerSound, NameTaken
  <2>5. Limiter'
    BY <1>1, <1>2, LimiterKept
  <2>6. Data'
    <3>1. row.username # None /\ row.password <= arrived
      BY <1>1, <2>1, NameAssumption DEF TypeOK
    <3>2. \A q \in Request : Sends(q)' => req[q].row.password # row.password
      BY <1>2, <1>3 DEF Sends
    <3> QED
      BY <1>1, <1>2, <1>5, <2>1, <3>1, <3>2, NewRowData
  <2> QED
    BY <2>3, <2>4, <2>5, <2>6, TInvPartsNext
<1> QED
  BY <1>4, <1>5 DEF SeedAdmin

LEMMA ApproveAdminTInv ==
  ASSUME TInv, ApproveAdmin
  PROVE  TInv'
<1>1. TypeOK /\ ServerSound /\ Limiter /\ Data
  BY TInvParts
<1>2. /\ server = "approve" /\ server' = "up"
      /\ UNCHANGED <<req, starts, faults, login_rate, arrived, history, retired, tries>>
  BY DEF ApproveAdmin, UnchangedByServer
<1>3. \A q \in Request : req[q] = Idle /\ req[q].at = "idle"
  BY <1>1, <1>2 DEF ServerSound, Idle
<1>4. PICK i \in Id : tenants[i].username = Admin
                     /\ Write(i, [tenants[i] EXCEPT !.status = "normal"])
  BY DEF ApproveAdmin
<1> DEFINE row == [tenants[i] EXCEPT !.status = "normal"]
<1>5. /\ row \in Tenant /\ row.username = Admin /\ row.password = tenants[i].password
  BY <1>1, <1>4 DEF TypeOK, Tenant, Status
<1>6. Write(i, row)
  BY <1>4
<1> HIDE DEF row
<1>7. /\ tenants' \in [Id -> Tenant] /\ now' = now + 1
      /\ tenants'[i].username = row.username /\ \A j \in Id \ {i} : tenants'[j] = tenants[j]
  BY <1>1, <1>5, <1>6, WriteRow
<1>8. TypeOK'
  BY <1>1, <1>2, <1>7 DEF TypeOK
<1>9. ServerSound'
  BY <1>2, <1>5, <1>7 DEF ServerSound, NameTaken
<1>10. Limiter'
  BY <1>1, <1>2, LimiterKept
<1>11. Data'
  <2>1. Exists(i) /\ Decided(i, row)
    BY <1>1, <1>4, NameAssumption DEF Data, Rows, RowSound, Decided, Exists
  <2>2. \A q \in Request : Sends(q)' => req[q].row.password # row.password
    BY <1>2, <1>3 DEF Sends
  <2>3. /\ retired' \in [Id -> SUBSET Nat] /\ row.password \notin retired'[i]
        /\ row.password <= arrived
    BY <1>1, <1>2, <1>5, RowKnown DEF TypeOK
  <2> QED
    BY <1>1, <1>2, <1>4, <1>5, <1>6, <2>1, <2>2, <2>3, WriteData
<1> QED
  BY <1>8, <1>9, <1>10, <1>11, TInvPartsNext

LEMMA LimitLiftedTInv ==
  ASSUME TInv, LimitLifted
  PROVE  TInv'
<1>1. TypeOK /\ ServerSound /\ Data
  BY TInvParts
<1>2. login_rate' = NoCounter /\ tries' = 0
      /\ UNCHANGED <<tenants, req, server, arrived, now, starts, faults, history, retired>>
  BY DEF LimitLifted
<1>3. TypeOK' /\ Limiter'
  BY <1>1, <1>2, BoundAssumption
  DEF TypeOK, NoCounter, Limiter, LimiterSound, LoginsLimited
<1>4. ServerSound'
  BY <1>1, <1>2 DEF ServerSound, NameTaken
<1>5. Data'
  BY <1>1, <1>2, QuietData
<1> QED
  BY <1>3, <1>4, <1>5, TInvPartsNext

LEMMA StutterTInv ==
  ASSUME TInv, UNCHANGED vars
  PROVE  TInv'
<1>1. TypeOK /\ ServerSound
  BY TInvParts
<1>2. ServerSound'
  BY <1>1 DEF vars, ServerSound, NameTaken
<1> QED
  BY <1>1, <1>2, ServerQuiet DEF vars, TypeOK

LEMMA NextTInv ==
  ASSUME TInv, [Next]_vars
  PROVE  TInv'
<1>1. ASSUME NEW r \in Request, Arrivals(r) PROVE TInv'
  <2>1. CASE Login(r)
    BY <2>1, LoginTInv
  <2>2. ASSUME NEW n \in Name, NEW p \in Phone, Register(r, n, p) PROVE TInv'
    BY <2>2, RegisterTInv
  <2>3. ASSUME NEW p \in Phone, ResetPassword(r, p) PROVE TInv'
    BY <2>3, NewPasswordTInv DEF ResetPassword
  <2>4. ASSUME NEW i \in Id, NEW p \in Phone \cup {NoPhone}, UpdateProfile(r, i, p) PROVE TInv'
    BY <2>4, UpdateProfileTInv
  <2>5. ASSUME NEW i \in Id, ChangePassword(r, i) PROVE TInv'
    BY <2>5, NewPasswordTInv DEF ChangePassword
  <2>6. ASSUME NEW i \in Id, NEW status \in Optional(Status), NEW role \in Optional(Role),
               UpdateUser(r, i, status, role)
        PROVE  TInv'
    BY <2>6, UpdateUserTInv
  <2> QED
    BY <1>1, <2>1, <2>2, <2>3, <2>4, <2>5, <2>6 DEF Arrivals
<1>2. ASSUME NEW r \in Request, Calls(r) PROVE TInv'
  BY <1>2, SetLimitTInv, CheckLoginTInv, RecordLoginTInv, CreateTInv, UpdatePasswordTInv,
     UpdateTInv, CallFailsTInv DEF Calls
<1>3. CASE Server
  BY <1>3, StartTInv, SeedAdminTInv, ApproveAdminTInv, CrashTInv, StopTInv DEF Server
<1> QED
  BY <1>1, <1>2, <1>3, LimitLiftedTInv, StutterTInv DEF Next

-----------------------------------------------------------------------------
(* Theorems *)

\* TInv, the invariant of the whole component: what the handlers of auth.go and
\* admin.go may rely on between two calls, restarts and failures included.
THEOREM InvariantHolds == Spec => []TInv
<1>1. Init => TInv
  BY InitTInv
<1>2. TInv /\ [Next]_vars => TInv'
  BY NextTInv
<1> QED
  BY <1>1, <1>2, PTL DEF Spec

\* No tenant has a status or a role that no administrator has asked for.
THEOREM AdministratorsDecide == Spec => []OnlyAdministratorsDecide
<1>1. TInv => OnlyAdministratorsDecide
  BY DEF TInv
<1> QED
  BY <1>1, InvariantHolds, PTL

\* A password that was replaced never comes back.
THEOREM PasswordsStayRetired == Spec => []PasswordsRetired
<1>1. TInv => PasswordsRetired
  BY DEF TInv
<1> QED
  BY <1>1, InvariantHolds, PTL

\* An address passes the limiter MaxTries times at most between two expiries.
THEOREM LoginsStayLimited == Spec => []LoginsLimited
<1>1. TInv => LoginsLimited
  BY DEF TInv
<1> QED
  BY <1>1, InvariantHolds, PTL

\* A row written by an update that no other write came before.
LEMMA UpdateAsks ==
  ASSUME TInv, NEW r \in Request, Update(r),
         req[r].row.updated_at = tenants[req[r].id].updated_at
  PROVE  LET i == req[r].id IN
         /\ tenants'[i].phone = tenants[i].phone
         /\ tenants'[i].password = tenants[i].password
         /\ tenants'[i].status # tenants[i].status => <<i, tenants'[i].status>> \in history
         /\ tenants'[i].role # tenants[i].role => <<i, tenants'[i].role>> \in history
<1> DEFINE i == req[r].id
           copy == req[r].row
           row == [tenants[i] EXCEPT !.status = copy.status, !.role = copy.role,
                                     !.phone = copy.phone]
<1>1. TypeOK /\ Data
  BY TInvParts
<1>2. req[r].at = "update" /\ Write(i, row)
  BY DEF Update
<1>3. i \in Id /\ ExtendsIn(tenants, history, i, copy)
  BY <1>1, <1>2 DEF Data, Copies, SoundIn
<1>4. copy \in Tenant
  BY <1>1 DEF TypeOK, Handler
<1> HIDE DEF i, copy
<1>5. /\ row \in Tenant /\ row.password = tenants[i].password
      /\ row.status = copy.status /\ row.role = copy.role /\ row.phone = copy.phone
  <2> DEFINE mid == [tenants[i] EXCEPT !.status = copy.status, !.role = copy.role]
  <2>1. /\ mid \in Tenant /\ mid.password = tenants[i].password
        /\ mid.status = copy.status /\ mid.role = copy.role
    BY <1>1, <1>3, <1>4 DEF TypeOK, Tenant
  <2>2. row = [mid EXCEPT !.phone = copy.phone]
    OBVIOUS
  <2> HIDE DEF mid, row
  <2> QED
    BY <1>4, <2>1, <2>2 DEF Tenant
<1> HIDE DEF row
<1>6. /\ tenants'[i].password = row.password /\ tenants'[i].status = row.status
      /\ tenants'[i].role = row.role /\ tenants'[i].phone = row.phone
  BY <1>1, <1>2, <1>3, <1>5, WriteRow
<1>7. /\ copy.phone = tenants[i].phone
      /\ copy.status # tenants[i].status => <<i, copy.status>> \in history
      /\ copy.role # tenants[i].role => <<i, copy.role>> \in history
  BY <1>3 DEF ExtendsIn
<1> QED
  BY <1>5, <1>6, <1>7 DEF i

\* Only Update writes the table and ends an update in one step.
LEMMA UpdateEnds ==
  ASSUME TypeOK, [Next]_vars, NEW r \in Request,
         req[r].at = "update", now' > now, req'[r] = Idle
  PROVE  Update(r)
<1>1. now' # now /\ req'[r] # req[r]
  BY DEF TypeOK, Idle
<1>2. CASE \E q \in Request : Arrivals(q)
  <2>1. PICK q \in Request : Arrivals(q)
    BY <1>2
  <2>2. CASE q = r
    <3>1. req[q] # Idle
      BY <2>2 DEF Idle
    <3> QED
      BY <2>1, <3>1 DEF Arrivals, Arrive, Login, Register, ResetPassword, UpdateProfile,
                        ChangePassword, UpdateUser
  <2>3. CASE q # r
    BY <1>1, <2>1, <2>3 DEF TypeOK, Arrivals, Arrive, Login, Register, ResetPassword,
                            UpdateProfile, ChangePassword, UpdateUser
  <2> QED
    BY <2>2, <2>3
<1>3. CASE \E q \in Request : Calls(q)
  <2>1. PICK q \in Request : Calls(q)
    BY <1>3
  <2>2. req'[r] = req[r] \/ q = r
    BY <2>1 DEF TypeOK, Calls, SetLimit, CheckLogin, RecordLogin, Create, UpdatePassword,
                Update, CallFails, Done
  <2> QED
    BY <1>1, <2>1, <2>2 DEF Calls, SetLimit, CheckLogin, RecordLogin, Create,
                            UpdatePassword, CallFails
<1>4. CASE Server \/ LimitLifted \/ UNCHANGED vars
  BY <1>1, <1>4 DEF Server, Start, SeedAdmin, ApproveAdmin, Crash, Stop, LimitLifted, vars
<1> QED
  BY <1>2, <1>3, <1>4 DEF Next

\* An administrator's update that no other write came before changes what was
\* asked for and nothing else.
THEOREM UpdatesChangeOnlyAsked == Spec => UpdateChangesOnlyAsked
<1> DEFINE Asks ==
      \A r \in Request :
        LET i == req[r].id IN
        /\ req[r].at = "update" /\ now' > now /\ req'[r] = Idle
        /\ req[r].row.updated_at = tenants[i].updated_at
        => /\ tenants'[i].phone = tenants[i].phone
           /\ tenants'[i].password = tenants[i].password
           /\ tenants'[i].status # tenants[i].status => <<i, tenants'[i].status>> \in history
           /\ tenants'[i].role # tenants[i].role => <<i, tenants'[i].role>> \in history
<1>1. TInv /\ [Next]_vars => Asks
  BY UpdateAsks, UpdateEnds, TInvParts
<1> QED
  BY <1>1, InvariantHolds, PTL DEF Spec, UpdateChangesOnlyAsked
=============================================================================
