------------------------------ MODULE Storage ------------------------------
(***************************************************************************)
(* Materials (internal/handler/api/material.go) over the storage driver    *)
(* (internal/storage), and the storage settings (settings.go) with the     *)
(* page that edits them (web/admin/src/pages/admin/Settings.tsx).          *)
(*                                                                         *)
(* An action is one call to PostgreSQL or to the driver.  One account; the *)
(* type filter of the list and the metadata of a file are left out.  Of    *)
(* the settings, s3_bucket stands for those a save writes as they come.    *)
(***************************************************************************)
EXTENDS Naturals, FiniteSets, Sequences

CONSTANTS
  Key,               \* names of stored files: the nanosecond of the upload and its name
  None,              \* no key
  Request,           \* uploads in flight at once
  Page,              \* open settings pages
  Mask,              \* the shown form of a saved access key
  Typing,            \* sets of fields an administrator fills in anew
  PageSize,          \* materials a page of the list has
  MaxRequests, MaxFaults  \* bounds on requests and failures

ASSUME KeyAssumption == None \notin Key /\ IsFiniteSet(Key) /\ IsFiniteSet(Request)
ASSUME SettingsAssumption ==
  Mask \notin Nat /\ Typing \subseteq SUBSET {"s3_bucket", "s3_key", "s3_secret"}
ASSUME BoundAssumption == PageSize \in Nat \ {0} /\ MaxRequests \in Nat /\ MaxFaults \in Nat

VARIABLES
  up,        \* the server runs
  driver,    \* its storage driver, chosen at the start
  files,     \* what the store has under each key
  rows,      \* rows of materials
  req,       \* uploads in flight
  reader,    \* a client that goes through the pages of the list
  settings,  \* the rows of system_configs for the storage
  page,      \* the settings pages
  arrived, faults,
  acked      \* keys whose upload was answered with success

files_vars == <<files, rows, req, acked>>
settings_vars == <<settings, page>>
server_vars == <<up, driver>>
vars == <<files_vars, settings_vars, server_vars, reader, arrived, faults>>

Driver == {"local", "s3"}
File == {"none", "part", "whole"}

\* number is the place in the order of created_at; 0 is no row.
Row == [phase: {"absent", "live", "deleted"}, number: Nat]
NoRow == [phase |-> "absent", number |-> 0]

Upload == [at: {"idle", "open", "copy", "insert", "clean"}, key: Key \cup {None}]
Idle == [at |-> "idle", key |-> None]

\* wanted and sure are history: what was there when the reading began, and
\* whether the last answer and all pages belong together.
Reader == [at: {"idle", "count", "select", "done"}, page: Nat, total: Nat,
           seen: SUBSET Key, wanted: SUBSET Key, sure: BOOLEAN]
NoReader == [at |-> "idle", page |-> 0, total |-> 0, seen |-> {}, wanted |-> {}, sure |-> TRUE]

\* A value is the number of the request that sent it; 0 is the empty string.
Setting == [driver: Driver \cup {"missing"}, s3_bucket: Nat, s3_key: Nat \cup {Mask},
            s3_secret: Nat]
Field == {"driver", "s3_bucket", "s3_key", "s3_secret"}
NoSetting == [driver |-> "missing", s3_bucket |-> 0, s3_key |-> 0, s3_secret |-> 0]
Default == [driver |-> "local", s3_bucket |-> 0, s3_key |-> 0, s3_secret |-> 0]

\* form is what the page has in its fields, tab the one it was saved from; todo
\* are the fields still to be read or written.  base and alone are history: what
\* the form, then the settings are to be, and whether no other page saved since.
PageState == [at: {"closed", "loading", "open", "saving", "saved", "failed"}, form: Setting,
              tab: Driver, todo: SUBSET Field, base: Setting, alone: BOOLEAN]
Closed == [at |-> "closed", form |-> Default, tab |-> "local", todo |-> {},
           base |-> Default, alone |-> TRUE]

Arrive == up /\ arrived < MaxRequests /\ arrived' = arrived + 1
Fault(n) == faults + n <= MaxFaults /\ faults' = faults + n

Live == {k \in Key : rows[k].phase = "live"}
Known == {k \in Key : rows[k].phase # "absent"}

-----------------------------------------------------------------------------
(* Uploads *)

Answer(r) == req' = [req EXCEPT ![r] = Idle]
Go(r, at) == req' = [req EXCEPT ![r].at = at]
Store(k, file) == files' = [files EXCEPT ![k] = file]

UploadStep(r, at) == up /\ req[r].at = at /\ UNCHANGED <<server_vars, settings_vars, arrived>>

\* Mutant of StartUpload: the name of the file is its key.
StartUploadSameName(r, k) ==
  /\ Arrive
  /\ req[r] = Idle
  /\ req' = [req EXCEPT ![r] = [at |-> "open", key |-> k]]
  /\ UNCHANGED <<files, rows, acked, reader, settings_vars, server_vars, faults>>

\* Upload, up to the call of the driver: the key is new.
StartUpload(r, k) ==
  /\ Arrive
  /\ req[r] = Idle
  /\ files[k] = "none" /\ k \notin Known /\ \A s \in Request : req[s].key # k
  /\ req' = [req EXCEPT ![r] = [at |-> "open", key |-> k]]
  /\ UNCHANGED <<files, rows, acked, reader, settings_vars, server_vars, faults>>

\* LocalProvider.Upload: os.Create, then io.Copy, which may stop halfway.
LocalCreate(r) ==
  /\ UploadStep(r, "open") /\ driver = "local"
  /\ Store(req[r].key, "part")
  /\ Go(r, "copy")
  /\ UNCHANGED <<rows, acked, reader, faults>>

LocalCopy(r) ==
  /\ UploadStep(r, "copy")
  /\ \/ Store(req[r].key, "whole") /\ Go(r, "insert") /\ UNCHANGED faults
     \/ Answer(r) /\ Fault(1) /\ UNCHANGED files
  /\ UNCHANGED <<rows, acked, reader>>

\* S3Provider.Upload: PutObject; an error may come after the object is stored.
S3Put(r) ==
  /\ UploadStep(r, "open") /\ driver = "s3"
  /\ \/ Store(req[r].key, "whole") /\ Go(r, "insert") /\ UNCHANGED faults
     \/ \E file \in {"none", "whole"} : Store(req[r].key, file) /\ Answer(r) /\ Fault(1)
  /\ UNCHANGED <<rows, acked, reader>>

AddRow(k) == rows' = [rows EXCEPT ![k] = [phase |-> "live", number |-> Cardinality(Known) + 1]]

\* Mutant of Create: the handler answers before the driver is done.
CreateEarly(r) ==
  /\ up /\ req[r].at \in {"copy", "insert"} /\ UNCHANGED <<server_vars, settings_vars, arrived>>
  /\ AddRow(req[r].key) /\ Answer(r) /\ acked' = acked \cup {req[r].key}
  /\ UNCHANGED <<files, reader, faults>>

\* Create: an error may come after the row is committed.
Create(r) ==
  /\ UploadStep(r, "insert")
  /\ \/ AddRow(req[r].key) /\ Answer(r) /\ acked' = acked \cup {req[r].key} /\ UNCHANGED faults
     \/ /\ AddRow(req[r].key) \/ UNCHANGED rows
        /\ Go(r, "clean") /\ Fault(1) /\ UNCHANGED acked
  /\ UNCHANGED <<files, reader>>

\* Delete of the file after an error of Create; an error is logged.
Clean(r) ==
  /\ UploadStep(r, "clean")
  /\ \/ Store(req[r].key, "none") /\ UNCHANGED faults
     \/ UNCHANGED files /\ Fault(1)
  /\ Answer(r)
  /\ UNCHANGED <<rows, acked, reader>>

\* Delete of a material: the file stays.
Delete(k) ==
  /\ Arrive
  /\ k \in Live
  /\ rows' = [rows EXCEPT ![k].phase = "deleted"]
  /\ reader' = [reader EXCEPT !.sure = FALSE]
  /\ UNCHANGED <<files, req, acked, settings_vars, server_vars, faults>>

-----------------------------------------------------------------------------
(* The list: COUNT, then one page, the newest first.  created_at has         *)
(* microseconds; that no two rows of an account share one is assumed, since  *)
(* the query leaves the order of such rows open.                             *)

Place(k) == Cardinality({j \in Live : rows[j].number >= rows[k].number})

\* Mutant of ListByAccount: an offset of page * size.
ListByAccountLate(n) == {k \in Live : n * PageSize < Place(k) /\ Place(k) <= (n + 1) * PageSize}

ListByAccount(n) == {k \in Live : (n - 1) * PageSize < Place(k) /\ Place(k) <= n * PageSize}

StartReading ==
  /\ Arrive
  /\ reader.at \in {"idle", "done"}
  /\ reader' = [NoReader EXCEPT !.at = "count", !.page = 1, !.wanted = Live]
  /\ UNCHANGED <<files_vars, settings_vars, server_vars, faults>>

CountByAccount ==
  /\ up /\ reader.at = "count"
  /\ reader' = [reader EXCEPT !.at = "select", !.total = Cardinality(Live)]
  /\ UNCHANGED <<files_vars, settings_vars, server_vars, arrived, faults>>

\* List, from the second query on; the client takes the next page while the
\* total says that there is one.
List ==
  /\ up /\ reader.at = "select"
  /\ LET last == reader.page * PageSize >= reader.total IN
     reader' = [reader EXCEPT !.seen = @ \cup ListByAccount(reader.page),
                              !.at = IF last THEN "done" ELSE "count",
                              !.page = IF last THEN @ ELSE @ + 1,
                              !.sure = @ /\ (last => reader.total = Cardinality(Live))]
  /\ UNCHANGED <<files_vars, settings_vars, server_vars, arrived, faults>>

-----------------------------------------------------------------------------
(* Settings *)

SetPage(p, state) == page' = [page EXCEPT ![p] = state]

PageStep(p, at) ==
  up /\ page[p].at = at /\ UNCHANGED <<files_vars, server_vars, reader, arrived>>

\* GetStorageConfig shows a saved access key masked; the mask of a mask is itself.
Shown(s) == [s EXCEPT !.s3_key = IF @ = 0 THEN 0 ELSE Mask, !.s3_secret = 0]

LoadOrder == <<"driver", "s3_bucket", "s3_key">>
Loaded == {LoadOrder[i] : i \in DOMAIN LoadOrder}

\* fetchSettings of the page.
OpenPage(p) ==
  /\ Arrive
  /\ page[p].at \in {"closed", "saved", "failed"}
  /\ SetPage(p, [Closed EXCEPT !.at = "loading", !.todo = Loaded, !.base = Shown(settings)])
  /\ UNCHANGED <<files_vars, settings, server_vars, reader, faults>>

Next1(todo) == CHOOSE f \in todo : \A i \in DOMAIN LoadOrder :
                 LoadOrder[i] \in todo => \E j \in 1 .. i : LoadOrder[j] = f

\* getConfigValue of the next field: an error is taken for an empty value, which
\* the page shows as the default.
getConfigValue(p) ==
  /\ PageStep(p, "loading")
  /\ LET f == Next1(page[p].todo)
         todo == page[p].todo \ {f}
         read(form, alone) == [page[p] EXCEPT !.form = form, !.todo = todo, !.alone = alone,
                                              !.at = IF todo = {} THEN "open" ELSE @]
     IN  \/ /\ SetPage(p, read([page[p].form EXCEPT ![f] = Shown(settings)[f]], page[p].alone))
            /\ UNCHANGED faults
         \/ SetPage(p, read(page[p].form, FALSE)) /\ Fault(1)
  /\ UNCHANGED settings

\* What the page sends: on the local tab the fields of the other are not there.
Sent(form, tab) == [f \in Field |-> IF f # "driver" /\ tab = "local" THEN 0 ELSE form[f]]

Typed(form, d, typed, n) ==
  [f \in Field |-> IF f = "driver" THEN d ELSE IF f \in typed THEN n ELSE form[f]]

\* Mutant of Written: an empty secret is written like the other fields.
WrittenAll(form) == Field

\* UpdateStorageConfig, the map it goes over.
Written(form) == IF form.s3_secret = 0 THEN Field \ {"s3_secret"} ELSE Field

\* handleSave of a page just opened, or of one that was saved before and has its
\* fields still; d is the driver that is chosen and typed are the fields filled in
\* anew.  On the S3 tab all but the secret must have a value.
Save(p, d, tab, typed) ==
  LET form == Typed(page[p].form, d, typed, arrived + 1)
      shown == IF page[p].at = "open" THEN page[p].base ELSE page[p].form
      meant == Sent(Typed(shown, d, typed, arrived + 1), tab)
  IN
  /\ Arrive
  /\ page[p].at \in {"open", "saved", "failed"}
  /\ tab = "local" => typed = {}
  /\ tab = "s3" => form.s3_bucket # 0 /\ form.s3_key # 0
  /\ SetPage(p, [page[p] EXCEPT
                   !.at = "saving", !.form = form, !.tab = tab,
                   !.todo = Written(Sent(form, tab)),
                   !.base = [meant EXCEPT !.s3_secret = IF @ = 0 THEN settings.s3_secret ELSE @]])
  /\ UNCHANGED <<files_vars, settings, server_vars, reader, faults>>

\* Mutant of upsert: an empty value leaves the row as it is.
upsertFilled(f, value) ==
  settings' = [settings EXCEPT ![f] = IF f # "driver" /\ value = 0 THEN @ ELSE value]

upsert(f, value) == settings' = [settings EXCEPT ![f] = value]

\* upsertConfig of any field that is left: the map has no order.
upsertConfig(p) ==
  /\ PageStep(p, "saving")
  /\ \E f \in page[p].todo :
       LET todo == page[p].todo \ {f}
           mine == [page[p] EXCEPT !.todo = todo, !.at = IF todo = {} THEN "saved" ELSE @]
       IN  /\ upsert(f, Sent(page[p].form, page[p].tab)[f])
           /\ page' = [q \in Page |-> IF q = p THEN mine ELSE [page[q] EXCEPT !.alone = FALSE]]
  /\ UNCHANGED faults

\* The first error ends the request; the page keeps its form.
upsertFails(p) ==
  /\ PageStep(p, "saving")
  /\ SetPage(p, [page[p] EXCEPT !.at = "failed", !.todo = {}])
  /\ Fault(1)
  /\ UNCHANGED settings

-----------------------------------------------------------------------------
(* The server *)

\* 000007_storage_default, which every start runs.
Seed(s) == [f \in Field |-> IF s.driver = "missing" THEN Default[f] ELSE s[f]]

\* Setup: the driver is the one of the configuration file, or local when it
\* cannot be made.
Start ==
  /\ ~up /\ up' = TRUE
  /\ settings' = Seed(settings)
  /\ driver' \in Driver
  /\ UNCHANGED <<files_vars, page, reader, arrived, faults>>

Uploading == {r \in Request : req[r] # Idle}

\* What the calls of a page come back with when the server dies.
CutOff(state) == CASE state.at = "loading" -> Closed
                   [] state.at = "saving" -> [state EXCEPT !.at = "failed", !.todo = {}]
                   [] OTHER -> state

\* A failure for each upload that is cut off.
Crash ==
  /\ up /\ up' = FALSE
  /\ Fault(1 + Cardinality(Uploading))
  /\ req' = [r \in Request |-> Idle]
  /\ reader' = NoReader
  /\ page' = [p \in Page |-> CutOff(page[p])]
  /\ UNCHANGED <<files, rows, acked, settings, driver, arrived>>

-----------------------------------------------------------------------------
Init ==
  /\ up = FALSE /\ driver = "local"
  /\ files = [k \in Key |-> "none"]
  /\ rows = [k \in Key |-> NoRow]
  /\ req = [r \in Request |-> Idle]
  /\ reader = NoReader
  /\ settings = NoSetting
  /\ page = [p \in Page |-> Closed]
  /\ arrived = 0 /\ faults = 0
  /\ acked = {}

Materials ==
  \/ \E r \in Request :
       \/ \E k \in Key : StartUpload(r, k)
       \/ LocalCreate(r) \/ LocalCopy(r) \/ S3Put(r) \/ Create(r) \/ Clean(r)
  \/ \E k \in Key : Delete(k)
  \/ StartReading \/ CountByAccount \/ List

Settings ==
  \E p \in Page :
    \/ OpenPage(p) \/ getConfigValue(p) \/ upsertConfig(p) \/ upsertFails(p)
    \/ \E d \in Driver, tab \in Driver, typed \in Typing :
         Save(p, d, tab, typed)

Next == Materials \/ Settings \/ Start \/ Crash

Spec == Init /\ [][Next]_vars

-----------------------------------------------------------------------------
(* Properties *)

TypeOK ==
  /\ up \in BOOLEAN /\ driver \in Driver
  /\ files \in [Key -> File]
  /\ rows \in [Key -> Row]
  /\ req \in [Request -> Upload]
  /\ reader \in Reader
  /\ settings \in Setting
  /\ page \in [Page -> PageState]
  /\ arrived \in Nat /\ faults \in Nat
  /\ acked \subseteq Key

Stray == {k \in Key : /\ files[k] # "none" /\ k \notin Known
                      /\ \A r \in Request : req[r].key # k}
Broken == {k \in Known : files[k] # "whole"}

\* A file that no material names, and a material whose file is not there, each
\* cost a failed call: an upload that stops halfway leaves a part, an insert that
\* reports an error after its commit has its file deleted.
FilesCounted == Cardinality(Stray) + Cardinality(Broken) <= faults

UploadSound(r) ==
  /\ req[r].key = None <=> req[r].at = "idle"
  /\ req[r].at \in {"open", "copy", "insert"} => req[r].key \notin Known
  /\ req[r].at = "insert" => files[req[r].key] = "whole"
  /\ req[r].key \notin acked
  /\ \A s \in Request \ {r} : req[r].key = req[s].key => req[r].key = None

\* An upload being made has its own key, no row before its insert, and a whole
\* file when it inserts; and an upload that was answered with success has its row
\* and its whole file for good, whatever becomes of other uploads.
UploadsSound ==
  /\ TypeOK
  /\ \A r \in Request : UploadSound(r)
  /\ \A k \in acked : k \in Known /\ files[k] = "whole"

\* A client that goes through the pages sees every material that was there when
\* it began, though uploads shift the pages, unless one was deleted meanwhile or
\* the last total was out of date when its page was read.
PagesComplete == reader.at = "done" /\ reader.sure => reader.wanted \subseteq reader.seen

\* A page whose save no other page's save overlaps leaves what its user was shown
\* and typed, also after a save of its own that failed halfway: no mixture, and
\* nothing lost but the fields of the other tab.  The access key becomes its mask
\* unless it is typed again.
SavesWhole ==
  \A p \in Page :
    /\ page[p].alone /\ page[p].at = "saving" =>
         \A f \in Field : page[p].base[f] =
           IF f \in page[p].todo THEN Sent(page[p].form, page[p].tab)[f] ELSE settings[f]
    /\ page[p].alone /\ page[p].at = "saved" => settings = page[p].base

\* A saved secret is never emptied, by a save that leaves it out or by a start.
SecretKept == [][settings.s3_secret # 0 => settings'.s3_secret # 0]_vars
=============================================================================
