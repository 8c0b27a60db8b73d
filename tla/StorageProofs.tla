--------------------------- MODULE StorageProofs ---------------------------
(***************************************************************************)
(* Proofs about Storage: UploadsSound is inductive; SavesWhole needs       *)
(* PagesSound, what a settings page may rely on at each of its calls;      *)
(* FilesCounted needs FilesAccounted, which also counts the files about    *)
(* to be deleted, and PagesComplete needs ReaderSound.                     *)
(***************************************************************************)
EXTENDS Storage, TLAPS, FiniteSetTheorems

\* The types, by component.
FileTypes ==
  /\ files \in [Key -> File] /\ rows \in [Key -> Row]
  /\ req \in [Request -> Upload] /\ acked \subseteq Key
ServerTypes ==
  /\ up \in BOOLEAN /\ driver \in Driver /\ reader \in Reader
  /\ arrived \in Nat /\ faults \in Nat
SettingTypes == settings \in Setting /\ page \in [Page -> PageState]

Uploads ==
  /\ \A r \in Request : UploadSound(r)
  /\ \A k \in acked : k \in Known /\ files[k] = "whole"

\* While no other page saves, a page that is loading has shown what it has read,
\* an open one what was there, and one that saves writes what its user meant.
PageSound(state, S) ==
  /\ state.form.driver # "missing" /\ state.base.driver # "missing"
  /\ state.at = "loading" =>
       /\ state.todo # {} /\ state.todo \subseteq Loaded
       /\ state.form.s3_secret = 0 /\ state.base.s3_secret = 0
       /\ state.alone => /\ state.base = Shown(S)
                         /\ \A f \in Loaded \ state.todo : state.form[f] = state.base[f]
  /\ state.at = "open" /\ state.alone => state.form = state.base
  /\ state.at = "saving" =>
       /\ "s3_secret" \in state.todo => Sent(state.form, state.tab).s3_secret # 0
       /\ state.alone => \A f \in Field : state.base[f] =
            IF f \in state.todo THEN Sent(state.form, state.tab)[f] ELSE S[f]
  /\ state.at = "saved" /\ state.alone => S = state.base

PagesSound ==
  /\ settings.driver = "missing" =>
       /\ settings.s3_secret = 0 /\ ~up
       /\ \A p \in Page : page[p].at = "closed"
  /\ \A p \in Page : PageSound(page[p], settings)

SInv == FileTypes /\ ServerTypes /\ SettingTypes /\ Uploads /\ PagesSound

LEMMA SInvParts ==
  /\ SInv => UploadsSound /\ SavesWhole
  /\ UploadsSound <=> FileTypes /\ ServerTypes /\ SettingTypes /\ Uploads
<1>1. UploadsSound <=> FileTypes /\ ServerTypes /\ SettingTypes /\ Uploads
  BY DEF UploadsSound, TypeOK, FileTypes, ServerTypes, SettingTypes, Uploads
<1>2. SInv => SavesWhole
  BY DEF SInv, PagesSound, PageSound, SavesWhole
<1> QED
  BY <1>1, <1>2 DEF SInv

-----------------------------------------------------------------------------
(* Cardinalities and types *)

LEMMA Counts ==
  /\ IsFiniteSet(Live) /\ Cardinality(Live) \in Nat
  /\ IsFiniteSet(Known) /\ Cardinality(Known) \in Nat
  /\ IsFiniteSet(Uploading) /\ Cardinality(Uploading) \in Nat
<1>1. Live \subseteq Key /\ Known \subseteq Key /\ Uploading \subseteq Request
  BY DEF Live, Known, Uploading
<1> QED
  BY <1>1, KeyAssumption, FS_Subset, FS_CardinalityType

LEMMA Idles ==
  /\ Idle \in Upload /\ NoRow \in Row /\ NoReader \in Reader
  /\ Default \in Setting /\ NoSetting \in Setting /\ Closed \in PageState
  BY DEF Idle, Upload, NoRow, Row, NoReader, Reader, Default, NoSetting, Setting, Closed,
         PageState, Driver

\* The table when a row is added.
LEMMA RowAdded ==
  ASSUME FileTypes, NEW k \in Key, AddRow(k)
  PROVE  /\ rows' \in [Key -> Row] /\ rows'[k].phase = "live"
         /\ \A j \in Key \ {k} : rows'[j] = rows[j]
<1> DEFINE new == [phase |-> "live", number |-> Cardinality(Known) + 1]
<1>1. new \in Row /\ new.phase = "live"
  BY Counts DEF Row
<1>2. rows' = [rows EXCEPT ![k] = new]
  BY DEF AddRow
<1> HIDE DEF new
<1> QED
  BY <1>1, <1>2 DEF FileTypes

-----------------------------------------------------------------------------
(* Uploads *)

\* A step of one upload r, which may write its file and its row and answer.
LEMMA UploadKept ==
  ASSUME FileTypes, Uploads, NEW r \in Request, req[r].at # "idle",
         NEW at \in {"idle", "open", "copy", "insert", "clean"},
         IF at = "idle" THEN Answer(r) ELSE Go(r, at),
         files' \in [Key -> File], rows' \in [Key -> Row],
         \A k \in Key \ {req[r].key} : files'[k] = files[k] /\ rows'[k] = rows[k],
         at \in {"open", "copy", "insert"} => rows' = rows /\ req[r].at \in {"open", "copy", "insert"},
         at = "insert" => files'[req[r].key] = "whole",
         \/ acked' = acked
         \/ /\ acked' = acked \cup {req[r].key} /\ at = "idle"
            /\ rows'[req[r].key].phase # "absent" /\ files'[req[r].key] = "whole"
  PROVE  FileTypes' /\ Uploads'
<1> DEFINE k == req[r].key
<1>1. k \in Key /\ k \notin acked
  BY DEF FileTypes, Upload, Uploads, UploadSound
<1>2. acked \subseteq Key /\ acked' \subseteq Key /\ acked' \subseteq acked \cup {k}
  BY <1>1 DEF FileTypes
<1>3. /\ req' \in [Request -> Upload] /\ \A s \in Request \ {r} : req'[s] = req[s]
      /\ req'[r].at = at /\ req'[r].key = IF at = "idle" THEN None ELSE k
  <2>1. CASE at = "idle"
    BY <2>1, Idles DEF FileTypes, Answer, Idle
  <2>2. CASE at # "idle"
    BY <1>1, <2>2 DEF FileTypes, Go, Upload
  <2> QED
    BY <2>1, <2>2
<1>4. \A s \in Request \ {r} : req[s].key # k
  BY <1>1, KeyAssumption DEF Uploads, UploadSound
<1>5. FileTypes'
  BY <1>2, <1>3 DEF FileTypes
<1>6. ASSUME NEW s \in Request \ {r}
      PROVE  UploadSound(s)'
  <2>1. UploadSound(s) /\ req'[s] = req[s] /\ req[s].key # k /\ req[s].key \in Key \cup {None}
    BY <1>3, <1>4 DEF Uploads, FileTypes, Upload
  <2>2. \A t \in Request \ {s} : req'[s].key = req'[t].key => req'[s].key = None
    BY <1>3, <2>1 DEF UploadSound
  <2>3. /\ req'[s].key \notin acked'
        /\ req'[s].at \in {"open", "copy", "insert"} => req'[s].key \notin Known'
        /\ req'[s].at = "insert" => files'[req'[s].key] = "whole"
    BY <1>2, <2>1 DEF UploadSound, Known
  <2> QED
    BY <2>1, <2>2, <2>3 DEF UploadSound
<1>7. UploadSound(r)'
  <2>1. CASE at = "idle"
    BY <1>2, <1>3, <2>1, KeyAssumption DEF UploadSound
  <2>2. CASE at # "idle"
    <3>1. req'[r].key = k /\ req'[r].at = at /\ k # None /\ acked' = acked
      BY <1>1, <1>3, <2>2, KeyAssumption
    <3>2. at \in {"open", "copy", "insert"} => k \notin Known'
      BY DEF Uploads, UploadSound, Known
    <3> QED
      BY <1>1, <1>3, <1>4, <2>2, <3>1, <3>2 DEF UploadSound
  <2> QED
    BY <2>1, <2>2
<1>8. \A j \in acked' : j \in Known' /\ files'[j] = "whole"
  BY <1>1, <1>2 DEF Uploads, Known
<1> QED
  BY <1>5, <1>6, <1>7, <1>8 DEF Uploads

\* The steps of an upload.
LEMMA UploadSteps ==
  ASSUME FileTypes, Uploads, NEW r \in Request,
         LocalCreate(r) \/ LocalCopy(r) \/ S3Put(r) \/ Create(r) \/ Clean(r)
  PROVE  FileTypes' /\ Uploads'
<1> DEFINE k == req[r].key
<1>1. ASSUME NEW file \in File, Store(k, file), req[r].at # "idle"
      PROVE  /\ files' \in [Key -> File] /\ files'[k] = file
             /\ \A j \in Key \ {k} : files'[j] = files[j]
  <2>1. k \in Key
    BY <1>1 DEF FileTypes, Upload, Uploads, UploadSound
  <2> QED
    BY <1>1, <2>1 DEF Store, FileTypes
<1>2. CASE LocalCreate(r)
  <2>1. req[r].at = "open" /\ Store(k, "part") /\ Go(r, "copy") /\ UNCHANGED <<rows, acked>>
    BY <1>2 DEF LocalCreate, UploadStep
  <2> QED
    BY <1>1, <2>1, UploadKept DEF File, FileTypes
<1>3. CASE LocalCopy(r)
  <2>1. req[r].at = "copy" /\ UNCHANGED <<rows, acked>>
    BY <1>3 DEF LocalCopy, UploadStep
  <2>2. CASE Store(k, "whole") /\ Go(r, "insert")
    BY <1>1, <2>1, <2>2, UploadKept DEF File, FileTypes
  <2>3. CASE Answer(r) /\ UNCHANGED files
    BY <2>1, <2>3, UploadKept DEF FileTypes
  <2> QED
    BY <1>3, <2>2, <2>3 DEF LocalCopy
<1>4. CASE S3Put(r)
  <2>1. req[r].at = "open" /\ UNCHANGED <<rows, acked>>
    BY <1>4 DEF S3Put, UploadStep
  <2>2. CASE Store(k, "whole") /\ Go(r, "insert")
    BY <1>1, <2>1, <2>2, UploadKept DEF File, FileTypes
  <2>3. CASE \E file \in {"none", "whole"} : Store(k, file) /\ Answer(r)
    BY <1>1, <2>1, <2>3, UploadKept DEF File, FileTypes
  <2> QED
    BY <1>4, <2>2, <2>3 DEF S3Put
<1>5. CASE Create(r)
  <2>1. /\ req[r].at = "insert" /\ UNCHANGED files /\ k \in Key /\ files[k] = "whole"
    BY <1>5 DEF Create, UploadStep, FileTypes, Upload, Uploads, UploadSound
  <2>2. CASE AddRow(k) /\ Answer(r) /\ acked' = acked \cup {k}
    BY <2>1, <2>2, RowAdded, UploadKept DEF FileTypes
  <2>3. CASE (AddRow(k) \/ UNCHANGED rows) /\ Go(r, "clean") /\ UNCHANGED acked
    BY <2>1, <2>3, RowAdded, UploadKept DEF FileTypes
  <2> QED
    BY <1>5, <2>2, <2>3 DEF Create
<1>6. CASE Clean(r)
  <2>1. req[r].at = "clean" /\ Answer(r) /\ UNCHANGED <<rows, acked>>
    BY <1>6 DEF Clean, UploadStep
  <2>2. CASE Store(k, "none")
    BY <1>1, <2>1, <2>2, UploadKept DEF File, FileTypes
  <2>3. CASE UNCHANGED files
    BY <2>1, <2>3, UploadKept DEF FileTypes
  <2> QED
    BY <1>6, <2>2, <2>3 DEF Clean
<1> QED
  BY <1>2, <1>3, <1>4, <1>5, <1>6

LEMMA StartUploadKept ==
  ASSUME FileTypes, Uploads, NEW r \in Request, NEW k \in Key, StartUpload(r, k)
  PROVE  FileTypes' /\ Uploads'
<1> DEFINE new == [at |-> "open", key |-> k]
<1>1. /\ req[r] = Idle /\ k \notin Known /\ \A s \in Request : req[s].key # k
      /\ req' = [req EXCEPT ![r] = new] /\ UNCHANGED <<files, rows, acked>>
  BY DEF StartUpload
<1>2. new \in Upload /\ new.at = "open" /\ new.key = k
  BY DEF Upload
<1> HIDE DEF new
<1>3. req' \in [Request -> Upload] /\ req'[r] = new /\ \A s \in Request \ {r} : req'[s] = req[s]
  BY <1>1, <1>2 DEF FileTypes
<1>4. FileTypes' /\ Known' = Known /\ k \notin acked
  BY <1>1, <1>3 DEF FileTypes, Known, Uploads
<1>5. UploadSound(r)'
  BY <1>1, <1>2, <1>3, <1>4, KeyAssumption DEF UploadSound
<1>6. \A s \in Request \ {r} : UploadSound(s)'
  BY <1>1, <1>2, <1>3, <1>4 DEF UploadSound, Uploads
<1> QED
  BY <1>1, <1>4, <1>5, <1>6 DEF Uploads

\* A deleted material is still known.
LEMMA DeleteKept ==
  ASSUME FileTypes, Uploads, NEW k \in Key, Delete(k)
  PROVE  FileTypes' /\ Uploads'
<1> DEFINE new == [rows[k] EXCEPT !.phase = "deleted"]
<1>1. rows' = [rows EXCEPT ![k] = new] /\ UNCHANGED <<files, req, acked>> /\ k \in Known
  BY DEF Delete, Live, Known
<1>2. new \in Row /\ new.phase = "deleted"
  BY DEF FileTypes, Row
<1> HIDE DEF new
<1>3. FileTypes' /\ Known' = Known
  BY <1>1, <1>2 DEF FileTypes, Known
<1> QED
  BY <1>1, <1>3 DEF Uploads, UploadSound

\* A step that leaves the materials alone.
LEMMA FilesQuiet ==
  ASSUME FileTypes, Uploads, UNCHANGED files_vars
  PROVE  FileTypes' /\ Uploads'
  BY DEF FileTypes, Uploads, UploadSound, Known, files_vars

LEMMA CrashFiles ==
  ASSUME FileTypes, Uploads, Crash
  PROVE  FileTypes' /\ Uploads'
<1>1. req' = [r \in Request |-> Idle] /\ UNCHANGED <<files, rows, acked>>
  BY DEF Crash
<1>2. FileTypes'
  BY <1>1, Idles DEF FileTypes
<1> QED
  BY <1>1, <1>2, KeyAssumption DEF Uploads, UploadSound, Known, Idle, FileTypes

\* The settings leave the materials and the server alone.
LEMMA SettingsFrame ==
  ASSUME Settings
  PROVE  /\ UNCHANGED <<files_vars, server_vars, reader>>
         /\ arrived' = arrived \/ Arrive
         /\ faults' = faults \/ Fault(1)
<1> DEFINE Frame == /\ UNCHANGED <<files_vars, server_vars, reader>>
                    /\ arrived' = arrived \/ Arrive
                    /\ faults' = faults \/ Fault(1)
<1>1. PICK p \in Page :
        \/ OpenPage(p) \/ getConfigValue(p) \/ upsertConfig(p) \/ upsertFails(p)
        \/ \E d \in Driver, tab \in Driver, typed \in Typing : Save(p, d, tab, typed)
  BY DEF Settings
<1>2. OpenPage(p) => Frame
  BY DEF OpenPage
<1>3. getConfigValue(p) => Frame
  BY DEF getConfigValue, PageStep
<1>4. upsertConfig(p) => Frame
  BY DEF upsertConfig, PageStep
<1>5. upsertFails(p) => Frame
  BY DEF upsertFails, PageStep
<1>6. \A d \in Driver, tab \in Driver, typed \in Typing : Save(p, d, tab, typed) => Frame
  BY DEF Save
<1> QED
  BY <1>1, <1>2, <1>3, <1>4, <1>5, <1>6

LEMMA FilesNext ==
  ASSUME FileTypes, Uploads, [Next]_vars
  PROVE  FileTypes' /\ Uploads'
<1>1. CASE Materials
  <2>1. CASE StartReading \/ CountByAccount \/ List
    BY <2>1, FilesQuiet DEF StartReading, CountByAccount, List
  <2> QED
    BY <1>1, <2>1, StartUploadKept, UploadSteps, DeleteKept DEF Materials
<1>2. CASE Settings
  BY <1>2, SettingsFrame, FilesQuiet
<1>3. CASE Start \/ UNCHANGED vars
  BY <1>3, FilesQuiet DEF Start, vars
<1> QED
  BY <1>1, <1>2, <1>3, CrashFiles DEF Next

-----------------------------------------------------------------------------
(* The server and the reader of the list *)

LEMMA ServerNext ==
  ASSUME FileTypes, ServerTypes, [Next]_vars
  PROVE  ServerTypes'
<1>1. ASSUME NEW n \in Nat, Fault(n)
      PROVE  faults' \in Nat
  BY <1>1 DEF Fault, ServerTypes
<1>2. CASE Materials
  <2>1. UNCHANGED <<up, driver>> /\ arrived' \in Nat /\ faults' \in Nat
    BY <1>1, <1>2 DEF Materials, StartUpload, LocalCreate, LocalCopy, S3Put, Create, Clean,
                      Delete, StartReading, CountByAccount, List, UploadStep, Arrive,
                      server_vars, ServerTypes
  <2>2. reader' \in Reader
    <3>1. CASE CountByAccount
      BY <3>1, Counts DEF CountByAccount, ServerTypes, Reader
    <3>2. CASE List
      <4> DEFINE last == reader.page * PageSize >= reader.total
                 seen == reader.seen \cup ListByAccount(reader.page)
                 at == IF last THEN "done" ELSE "count"
                 next == IF last THEN reader.page ELSE reader.page + 1
                 sure == reader.sure /\ (last => reader.total = Cardinality(Live))
      <4>1. reader' = [reader EXCEPT !.seen = seen, !.at = at, !.page = next, !.sure = sure]
        BY <3>2 DEF List
      <4>2. seen \subseteq Key /\ next \in Nat /\ at \in {"done", "count"}
        BY DEF ServerTypes, Reader, ListByAccount, Live
      <4>3. sure \in BOOLEAN
        OBVIOUS
      <4> HIDE DEF seen, at, next, sure
      <4> QED
        BY <4>1, <4>2, <4>3 DEF ServerTypes, Reader
    <3>3. CASE StartReading
      BY <3>3 DEF StartReading, NoReader, Reader, Live
    <3>4. CASE \E k \in Key : Delete(k)
      BY <3>4 DEF Delete, ServerTypes, Reader
    <3>5. CASE UNCHANGED reader
      BY <3>5 DEF ServerTypes
    <3> QED
      BY <1>2, <3>1, <3>2, <3>3, <3>4, <3>5
         DEF Materials, StartUpload, LocalCreate, LocalCopy, S3Put, Create, Clean
  <2> QED
    BY <2>1, <2>2 DEF ServerTypes
<1>3. CASE Settings
  BY <1>1, <1>3, SettingsFrame DEF Arrive, server_vars, ServerTypes
<1>4. CASE Start
  BY <1>4 DEF Start, ServerTypes
<1>5. CASE Crash
  <2>1. faults' \in Nat
    <3>1. 1 + Cardinality(Uploading) \in Nat
      BY Counts
    <3> QED
      BY <1>1, <1>5, <3>1 DEF Crash
  <2> QED
    BY <1>5, <2>1, Idles DEF Crash, ServerTypes
<1>6. CASE UNCHANGED vars
  BY <1>6 DEF vars, server_vars, ServerTypes
<1> QED
  BY <1>2, <1>3, <1>4, <1>5, <1>6 DEF Next


-----------------------------------------------------------------------------
(* Forms *)

LEMMA FormTypes ==
  ASSUME NEW s \in Setting
  PROVE  /\ \A tab \in Driver : /\ Sent(s, tab) \in Setting
                                /\ Sent(s, tab).driver = s.driver
         /\ Shown(s) \in Setting /\ Shown(s).driver = s.driver /\ Shown(s).s3_secret = 0
<1>1. ASSUME NEW tab \in Driver
      PROVE  Sent(s, tab) \in Setting /\ Sent(s, tab).driver = s.driver
  BY DEF Sent, Setting, Field
<1>2. Shown(s) \in Setting /\ Shown(s).driver = s.driver /\ Shown(s).s3_secret = 0
  BY DEF Shown, Setting
<1> QED
  BY <1>1, <1>2

LEMMA TypedForm ==
  ASSUME NEW s \in Setting, NEW d \in Driver, NEW typed, NEW n \in Nat
  PROVE  Typed(s, d, typed, n) \in Setting /\ Typed(s, d, typed, n).driver = d
  BY DEF Typed, Setting, Field

LEMMA SameFields ==
  ASSUME NEW s \in Setting, NEW t \in Setting, \A f \in Field : s[f] = t[f]
  PROVE  s = t
  BY DEF Setting, Field

LEMMA FieldTypes ==
  ASSUME NEW s \in Setting, NEW t \in Setting, NEW f \in Field
  PROVE  /\ [s EXCEPT ![f] = t[f]] \in Setting
         /\ [s EXCEPT ![f] = t[f]][f] = t[f]
         /\ \A g \in Field \ {f} : [s EXCEPT ![f] = t[f]][g] = s[g]
<1>1. [s EXCEPT ![f] = t[f]] \in Setting
  BY DEF Setting, Field
<1>2. /\ [s EXCEPT ![f] = t[f]][f] = t[f]
      /\ \A g \in Field \ {f} : [s EXCEPT ![f] = t[f]][g] = s[g]
  BY DEF Setting, Field
<1> QED
  BY <1>1, <1>2

\* The page loads the fields one after the other.
LEMMA LoadNext ==
  /\ Loaded = {"driver", "s3_bucket", "s3_key"}
  /\ \A todo : todo \subseteq Loaded /\ todo # {} => Next1(todo) \in todo
<1>1. Loaded = {"driver", "s3_bucket", "s3_key"}
  BY DEF Loaded, LoadOrder
<1>2. ASSUME NEW todo, todo \subseteq Loaded, todo # {}
      PROVE  Next1(todo) \in todo
  <2>1. \E f \in todo : \A i \in DOMAIN LoadOrder :
          LoadOrder[i] \in todo => \E j \in 1 .. i : LoadOrder[j] = f
    <3>1. DOMAIN LoadOrder = 1 .. 3 /\ LoadOrder[1] = "driver" /\ LoadOrder[2] = "s3_bucket"
          /\ LoadOrder[3] = "s3_key"
      BY DEF LoadOrder
    <3>2. CASE "driver" \in todo
      BY <3>1, <3>2
    <3>3. CASE "driver" \notin todo /\ "s3_bucket" \in todo
      BY <3>1, <3>3
    <3>4. CASE todo = {"s3_key"}
      BY <3>1, <3>4
    <3> QED
      BY <1>1, <1>2, <3>2, <3>3, <3>4
  <2> QED
    BY <2>1 DEF Next1
<1> QED
  BY <1>1, <1>2

-----------------------------------------------------------------------------
(* Settings pages *)

\* A step of one page that leaves the settings alone.
LEMMA PageKept ==
  ASSUME SettingTypes, PagesSound, NEW p \in Page, NEW new \in PageState,
         page' = [page EXCEPT ![p] = new], settings' = settings,
         settings.driver # "missing", PageSound(new, settings)
  PROVE  SettingTypes' /\ PagesSound'
<1>1. page' \in [Page -> PageState] /\ page'[p] = new /\ \A q \in Page \ {p} : page'[q] = page[q]
  BY DEF SettingTypes
<1>2. \A q \in Page : PageSound(page'[q], settings')
  BY <1>1 DEF PagesSound
<1> QED
  BY <1>1, <1>2 DEF SettingTypes, PagesSound

LEMMA OpenPageKept ==
  ASSUME SettingTypes, PagesSound, NEW p \in Page, OpenPage(p)
  PROVE  SettingTypes' /\ PagesSound'
<1> DEFINE base == Shown(settings)
           new == [Closed EXCEPT !.at = "loading", !.todo = Loaded, !.base = base]
<1>1. up /\ page' = [page EXCEPT ![p] = new] /\ settings' = settings
  BY DEF OpenPage, Arrive, SetPage
<1>2. settings \in Setting /\ settings.driver # "missing"
  BY <1>1 DEF SettingTypes, PagesSound
<1>3. base \in Setting /\ base.driver # "missing" /\ base.s3_secret = 0
  BY <1>2, FormTypes
<1>4. base = Shown(settings)
  OBVIOUS
<1> HIDE DEF base
<1>5. /\ new \in PageState /\ new.at = "loading" /\ new.todo = Loaded /\ new.base = base
      /\ new.form = Default
  BY <1>3, Idles, LoadNext DEF Closed, PageState, Field
<1> HIDE DEF new
<1>6. PageSound(new, settings)
  BY <1>3, <1>4, <1>5, LoadNext DEF PageSound, Default
<1> QED
  BY <1>1, <1>2, <1>5, <1>6, PageKept

LEMMA GetConfigValueKept ==
  ASSUME SettingTypes, PagesSound, NEW p \in Page, getConfigValue(p)
  PROVE  SettingTypes' /\ PagesSound'
<1> DEFINE old == page[p]
           f == Next1(old.todo)
           todo == old.todo \ {f}
           at == IF todo = {} THEN "open" ELSE old.at
           read(form, alone) ==
             [old EXCEPT !.form = form, !.todo = todo, !.alone = alone, !.at = at]
<1>1. /\ up /\ old.at = "loading" /\ settings' = settings
      /\ \/ SetPage(p, read([old.form EXCEPT ![f] = Shown(settings)[f]], old.alone))
         \/ SetPage(p, read(old.form, FALSE))
  BY DEF getConfigValue, PageStep
<1>2. settings \in Setting /\ settings.driver # "missing" /\ old \in PageState
      /\ PageSound(old, settings)
  BY <1>1 DEF SettingTypes, PagesSound
<1>3. /\ old.form \in Setting /\ old.form.driver # "missing"
      /\ old.base \in Setting /\ old.base.driver # "missing"
      /\ old.todo # {} /\ old.todo \subseteq Loaded
      /\ old.form.s3_secret = 0 /\ old.base.s3_secret = 0
      /\ old.alone => /\ old.base = Shown(settings)
                      /\ \A g \in Loaded \ old.todo : old.form[g] = old.base[g]
  BY <1>1, <1>2 DEF PageSound, PageState
<1>4. f \in old.todo /\ f \in Loaded /\ f \in Field /\ f # "s3_secret"
  BY <1>3, LoadNext DEF Field
<1>5. todo \subseteq Loaded /\ todo \subseteq Field /\ at \in {"loading", "open"}
      /\ (at = "loading" => todo # {}) /\ (at = "open" => todo = {})
  BY <1>1, <1>3, LoadNext DEF Field
<1>6. old.alone \in BOOLEAN
  BY <1>2 DEF PageState
<1> HIDE DEF f, todo, at, old
<1>7. ASSUME NEW form \in Setting, NEW alone \in BOOLEAN
      PROVE  LET new == read(form, alone) IN
             /\ new \in PageState /\ new.form = form /\ new.todo = todo /\ new.at = at
             /\ new.alone = alone /\ new.base = old.base
  BY <1>2, <1>5 DEF PageState
<1>8. ASSUME NEW form \in Setting, NEW alone \in BOOLEAN, SetPage(p, read(form, alone)),
             form.driver # "missing", form.s3_secret = 0,
             alone => /\ old.base = Shown(settings)
                      /\ \A g \in Loaded \ todo : form[g] = old.base[g]
      PROVE  SettingTypes' /\ PagesSound'
  <2> DEFINE new == read(form, alone)
  <2>1. page' = [page EXCEPT ![p] = new]
    BY <1>8 DEF SetPage
  <2>2. /\ new \in PageState /\ new.form = form /\ new.todo = todo /\ new.at = at
        /\ new.alone = alone /\ new.base = old.base
    BY <1>7
  <2> HIDE DEF new
  <2>3. new.at = "open" /\ new.alone => new.form = new.base
    <3>1. SUFFICES ASSUME new.at = "open", new.alone PROVE new.form = new.base
      OBVIOUS
    <3>2. \A g \in Field : form[g] = old.base[g]
      BY <1>3, <1>5, <1>8, <2>2, <3>1, LoadNext DEF Field
    <3> QED
      BY <1>3, <1>4, <2>2, <3>2, SameFields
  <2>4. PageSound(new, settings)
    BY <1>3, <1>5, <1>8, <2>2, <2>3 DEF PageSound
  <2> QED
    BY <1>1, <1>2, <2>1, <2>2, <2>4, PageKept
<1>9. CASE SetPage(p, read([old.form EXCEPT ![f] = Shown(settings)[f]], old.alone))
  <2> DEFINE form == [old.form EXCEPT ![f] = Shown(settings)[f]]
  <2>1. Shown(settings) \in Setting /\ Shown(settings).driver # "missing"
    BY <1>2, FormTypes
  <2>2. /\ form \in Setting /\ form[f] = Shown(settings)[f]
        /\ \A g \in Field \ {f} : form[g] = old.form[g]
    <3> DEFINE s == old.form
               t == Shown(settings)
    <3>1. s \in Setting /\ t \in Setting /\ f \in Field
      BY <1>3, <1>4, <2>1
    <3> HIDE DEF s, t
    <3>2. /\ [s EXCEPT ![f] = t[f]] \in Setting
          /\ [s EXCEPT ![f] = t[f]][f] = t[f]
          /\ \A g \in Field \ {f} : [s EXCEPT ![f] = t[f]][g] = s[g]
      BY <3>1, FieldTypes
    <3> QED
      BY <3>2 DEF s, t
  <2>3. SetPage(p, read(form, old.alone))
    BY <1>9
  <2> HIDE DEF form
  <2>4. form.driver # "missing" /\ form.s3_secret = 0
    BY <1>3, <1>4, <2>1, <2>2 DEF Field
  <2>5. old.alone => \A g \in Loaded \ todo : form[g] = old.base[g]
    BY <1>3, <2>2, LoadNext DEF todo, Field
  <2> QED
    BY <1>3, <1>6, <1>8, <2>2, <2>3, <2>4, <2>5
<1>10. CASE SetPage(p, read(old.form, FALSE))
  BY <1>3, <1>8, <1>10
<1> QED
  BY <1>1, <1>9, <1>10 DEF old, f, todo, at

\* What is meant by a save, and what it is about to write.
LEMMA SaveKept ==
  ASSUME SettingTypes, ServerTypes, PagesSound, NEW p \in Page, NEW d \in Driver,
         NEW tab \in Driver, NEW typed \in Typing, Save(p, d, tab, typed)
  PROVE  SettingTypes' /\ PagesSound'
<1> DEFINE old == page[p]
           n == arrived + 1
           form == Typed(old.form, d, typed, n)
           shown == IF old.at = "open" THEN old.base ELSE old.form
           meant == Sent(Typed(shown, d, typed, n), tab)
           sent == Sent(form, tab)
           secret == IF meant.s3_secret = 0 THEN settings.s3_secret ELSE meant.s3_secret
           base == [meant EXCEPT !.s3_secret = secret]
           todo == Written(sent)
           new == [old EXCEPT !.at = "saving", !.form = form, !.tab = tab,
                              !.todo = todo, !.base = base]
<1>1. /\ up /\ settings' = settings /\ page' = [page EXCEPT ![p] = new]
      /\ old.at \in {"open", "saved", "failed"}
  BY DEF Save, SetPage, Arrive
<1>2. settings \in Setting /\ settings.driver # "missing" /\ old \in PageState
      /\ PageSound(old, settings) /\ n \in Nat
  BY <1>1 DEF SettingTypes, ServerTypes, PagesSound
<1>3. old.form \in Setting /\ old.base \in Setting
  BY <1>2 DEF PageState
<1> HIDE DEF n
<1>4. /\ form \in Setting /\ form.driver = d /\ sent \in Setting
      /\ meant \in Setting /\ meant.driver = d
  <2>1. shown \in Setting
    BY <1>3
  <2> HIDE DEF shown
  <2>2. form \in Setting /\ form.driver = d
    BY <1>2, <1>3, TypedForm
  <2>3. sent \in Setting
    BY <2>2, FormTypes
  <2>4. Typed(shown, d, typed, n) \in Setting
        /\ Typed(shown, d, typed, n).driver = d
    BY <1>2, <2>1, TypedForm
  <2> QED
    BY <2>2, <2>3, <2>4, FormTypes
<1>5. old.alone => meant = sent
  BY <1>1, <1>2 DEF PageSound
<1>6. d # "missing"
  BY DEF Driver
<1>7. sent = Sent(form, tab)
  OBVIOUS
<1> HIDE DEF form, meant, sent
<1>8. /\ base \in Setting /\ base.driver = d
      /\ \A f \in Field \ {"s3_secret"} : base[f] = meant[f]
      /\ base.s3_secret = secret
  <2>1. secret \in Nat
    BY <1>2, <1>4 DEF Setting
  <2> HIDE DEF secret
  <2> QED
    BY <1>4, <2>1 DEF Setting, Field
<1>9. /\ todo \subseteq Field
      /\ "s3_secret" \in todo <=> sent.s3_secret # 0
      /\ \A f \in Field \ {"s3_secret"} : f \in todo
  BY DEF Written, Field
<1>10. old.alone => \A f \in Field : base[f] = IF f \in todo THEN sent[f] ELSE settings[f]
  <2>1. SUFFICES ASSUME old.alone, NEW f \in Field
                 PROVE  base[f] = IF f \in todo THEN sent[f] ELSE settings[f]
    OBVIOUS
  <2>2. CASE f = "s3_secret"
    <3>1. base["s3_secret"] = IF sent["s3_secret"] = 0 THEN settings["s3_secret"]
                                                       ELSE sent["s3_secret"]
      BY <1>5, <1>8, <2>1
    <3> HIDE DEF base, todo
    <3> QED
      BY <1>9, <2>2, <3>1
  <2>3. CASE f # "s3_secret"
    BY <1>5, <1>8, <1>9, <2>1, <2>3
  <2> QED
    BY <2>2, <2>3
<1> HIDE DEF base, todo
<1>11. /\ new \in PageState /\ new.at = "saving" /\ new.form = form /\ new.tab = tab
       /\ new.todo = todo /\ new.base = base /\ new.alone = old.alone
  BY <1>2, <1>4, <1>8, <1>9 DEF PageState
<1> HIDE DEF new
<1>12. PageSound(new, settings)
  BY <1>4, <1>6, <1>7, <1>8, <1>9, <1>10, <1>11 DEF PageSound
<1> QED
  BY <1>1, <1>2, <1>11, <1>12, PageKept

\* One field is written; the other pages are no longer alone.
LEMMA UpsertConfigKept ==
  ASSUME SettingTypes, PagesSound, NEW p \in Page, upsertConfig(p)
  PROVE  /\ SettingTypes' /\ PagesSound'
         /\ settings'.s3_secret # 0 \/ settings'.s3_secret = settings.s3_secret
<1> DEFINE old == page[p]
           sent == Sent(old.form, old.tab)
<1>1. PICK f \in old.todo :
        LET todo == old.todo \ {f}
            mine == [old EXCEPT !.todo = todo, !.at = IF todo = {} THEN "saved" ELSE old.at]
        IN  /\ upsert(f, sent[f])
            /\ page' = [q \in Page |-> IF q = p THEN mine ELSE [page[q] EXCEPT !.alone = FALSE]]
  BY DEF upsertConfig
<1>2. up /\ old.at = "saving" /\ old \in PageState /\ PageSound(old, settings)
  BY DEF upsertConfig, PageStep, SettingTypes, PagesSound
<1>3. settings \in Setting /\ settings.driver # "missing"
  BY <1>2 DEF SettingTypes, PagesSound
<1>4. /\ old.form \in Setting /\ old.tab \in Driver /\ old.base \in Setting
      /\ old.todo \subseteq Field /\ f \in Field
      /\ old.form.driver # "missing" /\ old.base.driver # "missing"
      /\ "s3_secret" \in old.todo => sent.s3_secret # 0
      /\ old.alone => \A g \in Field : old.base[g] =
           IF g \in old.todo THEN sent[g] ELSE settings[g]
  BY <1>1, <1>2 DEF PageState, PageSound
<1>5. sent \in Setting /\ sent.driver # "missing"
  BY <1>4, FormTypes
<1> DEFINE todo == old.todo \ {f}
           at == IF todo = {} THEN "saved" ELSE old.at
           mine == [old EXCEPT !.todo = todo, !.at = at]
<1>6. /\ mine \in PageState /\ mine.todo = todo /\ mine.at = at /\ mine.form = old.form
      /\ mine.tab = old.tab /\ mine.base = old.base /\ mine.alone = old.alone
  BY <1>2, <1>4 DEF PageState
<1>7. /\ settings' = [settings EXCEPT ![f] = sent[f]]
      /\ page' = [q \in Page |-> IF q = p THEN mine ELSE [page[q] EXCEPT !.alone = FALSE]]
  BY <1>1 DEF upsert
<1>8. at \in {"saving", "saved"} /\ (at = "saved" <=> todo = {})
  BY <1>2
<1> HIDE DEF mine, sent, old, at
<1>9. /\ settings' \in Setting /\ settings'[f] = sent[f]
      /\ \A g \in Field \ {f} : settings'[g] = settings[g]
  <2> DEFINE next == [settings EXCEPT ![f] = sent[f]]
  <2>1. next \in Setting /\ next[f] = sent[f] /\ \A g \in Field \ {f} : next[g] = settings[g]
    BY <1>3, <1>4, <1>5, FieldTypes
  <2>2. settings' = next
    BY <1>7
  <2> HIDE DEF next
  <2> QED
    BY <2>1, <2>2
<1>10. settings'.driver # "missing"
  BY <1>3, <1>5, <1>9 DEF Field
<1>11. settings'.s3_secret # 0 \/ settings'.s3_secret = settings.s3_secret
  BY <1>1, <1>4, <1>9 DEF Field
<1>12. ASSUME NEW q \in Page \ {p}
       PROVE  page'[q] \in PageState /\ PageSound(page'[q], settings')
  <2>1. page[q] \in PageState /\ PageSound(page[q], settings)
    BY DEF SettingTypes, PagesSound
  <2> DEFINE state == [page[q] EXCEPT !.alone = FALSE]
  <2>2. page'[q] = state
    BY <1>7
  <2>3. /\ state \in PageState /\ state.alone = FALSE /\ state.at = page[q].at
        /\ state.todo = page[q].todo /\ state.form = page[q].form
        /\ state.tab = page[q].tab /\ state.base = page[q].base
    BY <2>1 DEF PageState
  <2> HIDE DEF state
  <2> QED
    BY <2>1, <2>2, <2>3 DEF PageSound
<1>13. mine.alone => \A g \in Field : mine.base[g] = IF g \in todo THEN sent[g] ELSE settings'[g]
  BY <1>4, <1>6, <1>9
<1>14. PageSound(mine, settings')
  <2>1. mine.at = "saved" /\ mine.alone => settings' = mine.base
    <3>1. SUFFICES ASSUME mine.at = "saved", mine.alone PROVE settings' = mine.base
      OBVIOUS
    <3>2. \A g \in Field : settings'[g] = mine.base[g]
      BY <1>6, <1>8, <1>13, <3>1
    <3>3. settings' \in Setting /\ mine.base \in Setting
      BY <1>4, <1>6, <1>9
    <3> DEFINE s == settings'
    <3>4. s \in Setting /\ \A g \in Field : s[g] = mine.base[g]
      BY <3>2, <3>3
    <3> HIDE DEF s
    <3>5. s = mine.base
      BY <3>3, <3>4, SameFields
    <3> QED
      BY <3>5 DEF s
  <2>2. sent = Sent(mine.form, mine.tab)
    BY <1>6 DEF sent
  <2> QED
    BY <1>4, <1>6, <1>8, <1>13, <2>1, <2>2 DEF PageSound
<1>15. \A q \in Page : page'[q] \in PageState /\ PageSound(page'[q], settings')
  BY <1>6, <1>7, <1>12, <1>14
<1>16. page' \in [Page -> PageState]
  BY <1>7, <1>15
<1> QED
  BY <1>9, <1>10, <1>11, <1>15, <1>16 DEF SettingTypes, PagesSound

LEMMA UpsertFailsKept ==
  ASSUME SettingTypes, PagesSound, NEW p \in Page, upsertFails(p)
  PROVE  SettingTypes' /\ PagesSound'
<1> DEFINE new == [page[p] EXCEPT !.at = "failed", !.todo = {}]
<1>1. up /\ page' = [page EXCEPT ![p] = new] /\ settings' = settings
  BY DEF upsertFails, PageStep, SetPage
<1>2. page[p] \in PageState /\ PageSound(page[p], settings) /\ settings.driver # "missing"
  BY <1>1 DEF SettingTypes, PagesSound
<1>3. /\ new \in PageState /\ new.at = "failed" /\ new.form = page[p].form
      /\ new.base = page[p].base
  BY <1>2 DEF PageState
<1> HIDE DEF new
<1>4. PageSound(new, settings)
  BY <1>2, <1>3 DEF PageSound
<1> QED
  BY <1>1, <1>2, <1>3, <1>4, PageKept

-----------------------------------------------------------------------------
(* The server *)

\* The first start seeds the settings; the others leave them alone.
LEMMA StartKept ==
  ASSUME SettingTypes, PagesSound, Start
  PROVE  /\ SettingTypes' /\ PagesSound'
         /\ settings'.s3_secret # 0 \/ settings'.s3_secret = settings.s3_secret
<1>1. page' = page /\ settings' = Seed(settings) /\ settings \in Setting
  BY DEF Start, SettingTypes
<1>2. CASE settings.driver = "missing"
  <2>1. settings' \in Setting /\ settings'.driver = "local" /\ settings'.s3_secret = 0
    BY <1>1, <1>2 DEF Seed, Default, Setting, Field, Driver
  <2>2. \A q \in Page : PageSound(page[q], settings')
    BY <1>2 DEF PagesSound, PageSound
  <2> QED
    BY <1>1, <1>2, <2>1, <2>2 DEF SettingTypes, PagesSound
<1>3. CASE settings.driver # "missing"
  <2>1. Seed(settings) \in Setting /\ \A f \in Field : Seed(settings)[f] = settings[f]
    BY <1>1, <1>3 DEF Seed, Setting, Field
  <2>2. settings' = settings
    BY <1>1, <2>1 DEF Setting, Field
  <2> QED
    BY <1>1, <1>3, <2>2 DEF SettingTypes, PagesSound
<1> QED
  BY <1>2, <1>3

LEMMA CrashPages ==
  ASSUME SettingTypes, PagesSound, Crash
  PROVE  SettingTypes' /\ PagesSound'
<1>1. up /\ settings' = settings /\ page' = [p \in Page |-> CutOff(page[p])]
  BY DEF Crash
<1>2. settings.driver # "missing"
  BY <1>1 DEF PagesSound
<1>3. ASSUME NEW p \in Page
      PROVE  CutOff(page[p]) \in PageState /\ PageSound(CutOff(page[p]), settings)
  <2>1. page[p] \in PageState /\ PageSound(page[p], settings)
    BY DEF SettingTypes, PagesSound
  <2>2. CASE page[p].at = "loading"
    <3>1. CutOff(page[p]) = Closed
      BY <2>2 DEF CutOff
    <3> QED
      BY <3>1, Idles DEF PageSound, Closed, Default
  <2>3. CASE page[p].at = "saving"
    <3> DEFINE new == [page[p] EXCEPT !.at = "failed", !.todo = {}]
    <3>1. CutOff(page[p]) = new
      BY <2>3 DEF CutOff
    <3>2. /\ new \in PageState /\ new.at = "failed" /\ new.form = page[p].form
          /\ new.base = page[p].base
      BY <2>1 DEF PageState
    <3> HIDE DEF new
    <3> QED
      BY <2>1, <3>1, <3>2 DEF PageSound
  <2>4. CASE page[p].at \notin {"loading", "saving"}
    <3>1. CutOff(page[p]) = page[p]
      BY <2>4 DEF CutOff
    <3> QED
      BY <2>1, <3>1
  <2> QED
    BY <2>2, <2>3, <2>4
<1> QED
  BY <1>1, <1>2, <1>3 DEF SettingTypes, PagesSound

LEMMA PagesQuiet ==
  ASSUME SettingTypes, PagesSound, UNCHANGED settings_vars,
         up' = up
  PROVE  SettingTypes' /\ PagesSound'
<1>1. settings' = settings /\ page' = page
  BY DEF settings_vars
<1> QED
  BY <1>1 DEF SettingTypes, PagesSound

LEMMA PagesNext ==
  ASSUME SettingTypes, ServerTypes, PagesSound, [Next]_vars
  PROVE  /\ SettingTypes' /\ PagesSound'
         /\ settings'.s3_secret # 0 \/ settings'.s3_secret = settings.s3_secret
<1>1. CASE Materials
  <2>1. UNCHANGED settings_vars /\ up' = up
    BY <1>1 DEF Materials, StartUpload, LocalCreate, LocalCopy, S3Put, Create, Clean, Delete,
                StartReading, CountByAccount, List, UploadStep, server_vars
  <2> QED
    BY <2>1, PagesQuiet DEF settings_vars
<1>2. CASE Settings
  <2>1. PICK p \in Page :
          \/ OpenPage(p) \/ getConfigValue(p) \/ upsertConfig(p) \/ upsertFails(p)
          \/ \E d \in Driver, tab \in Driver, typed \in Typing : Save(p, d, tab, typed)
    BY <1>2 DEF Settings
  <2>2. CASE upsertConfig(p)
    BY <2>2, UpsertConfigKept
  <2>3. CASE ~upsertConfig(p)
    <3>1. settings' = settings
      <4>1. OpenPage(p) => settings' = settings
        BY DEF OpenPage
      <4>2. getConfigValue(p) => settings' = settings
        BY DEF getConfigValue
      <4>3. upsertFails(p) => settings' = settings
        BY DEF upsertFails
      <4>4. \A d \in Driver, tab \in Driver, typed \in Typing :
              Save(p, d, tab, typed) => settings' = settings
        BY DEF Save
      <4> QED
        BY <2>1, <2>3, <4>1, <4>2, <4>3, <4>4
    <3> QED
      BY <2>1, <2>3, <3>1, OpenPageKept, GetConfigValueKept, UpsertFailsKept, SaveKept
  <2> QED
    BY <2>2, <2>3
<1>3. CASE Start
  BY <1>3, StartKept
<1>4. CASE Crash
  BY <1>4, CrashPages DEF Crash
<1>5. CASE UNCHANGED vars
  BY <1>5, PagesQuiet DEF vars, server_vars, settings_vars
<1> QED
  BY <1>1, <1>2, <1>3, <1>4, <1>5 DEF Next

LEMMA InitSInv == Init => SInv
<1> SUFFICES ASSUME Init PROVE SInv
  OBVIOUS
<1>1. FileTypes /\ ServerTypes /\ SettingTypes
  BY Idles DEF Init, FileTypes, ServerTypes, SettingTypes, File, Driver
<1>2. Uploads
  BY KeyAssumption DEF Init, Uploads, UploadSound, Idle, NoRow, Known
<1>3. PagesSound
  BY DEF Init, PagesSound, PageSound, Closed, Default, NoSetting
<1> QED
  BY <1>1, <1>2, <1>3 DEF SInv

-----------------------------------------------------------------------------
(* Files without a material, materials without their file *)

\* Sets that differ in one element at most.
LEMMA OneApart ==
  ASSUME NEW S, NEW T, NEW x, IsFiniteSet(S), IsFiniteSet(T), S \ {x} = T \ {x}
  PROVE  /\ Cardinality(S) \in Nat /\ Cardinality(T) \in Nat
         /\ (x \in S <=> x \in T) => Cardinality(T) = Cardinality(S)
         /\ x \in S /\ x \notin T => Cardinality(T) = Cardinality(S) - 1
         /\ x \notin S /\ x \in T => Cardinality(T) = Cardinality(S) + 1
<1>1. /\ Cardinality(S) \in Nat /\ Cardinality(T) \in Nat
      /\ Cardinality(S \ {x}) = IF x \in S THEN Cardinality(S) - 1 ELSE Cardinality(S)
      /\ Cardinality(T \ {x}) = IF x \in T THEN Cardinality(T) - 1 ELSE Cardinality(T)
  BY FS_RemoveElement, FS_CardinalityType
<1> QED
  BY <1>1

\* An insert that reported an error is paid for before its file is deleted.
Cleaning == {r \in Request : req[r].at = "clean"}
FilesAccounted ==
  Cardinality(Stray) + Cardinality(Broken) + Cardinality(Cleaning) <= faults

LEMMA FileCounts ==
  /\ IsFiniteSet(Stray) /\ Cardinality(Stray) \in Nat
  /\ IsFiniteSet(Broken) /\ Cardinality(Broken) \in Nat
  /\ IsFiniteSet(Cleaning) /\ Cardinality(Cleaning) \in Nat
<1>1. Stray \subseteq Key /\ Broken \subseteq Key /\ Cleaning \subseteq Request
  BY DEF Stray, Broken, Known, Cleaning
<1> QED
  BY <1>1, KeyAssumption, FS_Subset, FS_CardinalityType

LEMMA FileCountsNext ==
  /\ IsFiniteSet(Stray') /\ Cardinality(Stray') \in Nat
  /\ IsFiniteSet(Broken') /\ Cardinality(Broken') \in Nat
  /\ IsFiniteSet(Cleaning') /\ Cardinality(Cleaning') \in Nat
<1>1. Stray' \subseteq Key /\ Broken' \subseteq Key /\ Cleaning' \subseteq Request
  BY DEF Stray, Broken, Known, Cleaning
<1> QED
  BY <1>1, KeyAssumption, FS_Subset, FS_CardinalityType

\* A step of one upload concerns its key only: what it leaves wrong must have
\* been a failure of this step, or of the insert it cleans up after.
LEMMA UploadAccounted ==
  ASSUME FileTypes, Uploads, ServerTypes, FilesAccounted, NEW r \in Request, req[r].at # "idle",
         NEW at \in {"idle", "open", "copy", "insert", "clean"},
         IF at = "idle" THEN Answer(r) ELSE Go(r, at),
         \A k \in Key \ {req[r].key} : files'[k] = files[k] /\ rows'[k] = rows[k],
         faults' = faults \/ faults' = faults + 1,
         at = "clean" => /\ faults' = faults + 1 /\ req[r].at # "clean"
                         /\ files'[req[r].key] = "whole",
         at = "idle" => \/ faults' = faults + 1 \/ (req[r].at = "clean" /\ files'[req[r].key] = "none")
                        \/ (rows'[req[r].key].phase # "absent" /\ files'[req[r].key] = "whole"),
         at \notin {"idle", "clean"} => UNCHANGED rows /\ req[r].at # "clean"
  PROVE  FilesAccounted'
<1> DEFINE k == req[r].key
<1>1. k \in Key /\ (req[r].at # "clean" => req[r].at \in {"open", "copy", "insert"} /\ k \notin Known)
  BY DEF FileTypes, Upload, Uploads, UploadSound
<1>2. \A s \in Request \ {r} : req[s].key # k
  BY <1>1, KeyAssumption DEF Uploads, UploadSound
<1>3. /\ \A s \in Request \ {r} : req'[s] = req[s]
      /\ req'[r].at = at /\ req'[r].key = IF at = "idle" THEN None ELSE k
  BY Idles DEF FileTypes, Upload, Answer, Go, Idle
<1>4. Known \ {k} = Known' \ {k}
  BY DEF Known
<1>5. Broken \ {k} = Broken' \ {k}
  BY <1>4 DEF Broken, Known
<1>6. Stray \ {k} = Stray' \ {k}
  <2>1. ASSUME NEW j \in Key \ {k}
        PROVE  (\A s \in Request : req[s].key # j) <=> (\A s \in Request : req'[s].key # j)
    BY <1>3, KeyAssumption
  <2> QED
    BY <1>4, <2>1 DEF Stray
<1>7. Cleaning \ {r} = Cleaning' \ {r}
  BY <1>3 DEF Cleaning
<1>8. k \notin Stray
  BY DEF Stray
<1>9. /\ r \in Cleaning <=> req[r].at = "clean"
      /\ r \in Cleaning' <=> at = "clean"
      /\ k \in Stray' => k \notin Broken' /\ at = "idle" /\ files'[k] # "none" /\ k \notin Known'
      /\ k \in Broken' => k \in Known' /\ files'[k] # "whole"
  BY <1>3 DEF Cleaning, Stray, Broken
<1>10. k \in Broken => req[r].at = "clean"
  BY <1>1 DEF Broken
<1>11. /\ Cardinality(Stray') = Cardinality(Stray) + (IF k \in Stray' THEN 1 ELSE 0)
       /\ Cardinality(Broken') <= Cardinality(Broken) + (IF k \in Broken' THEN 1 ELSE 0)
       /\ Cardinality(Cleaning') = Cardinality(Cleaning) + (IF at = "clean" THEN 1 ELSE 0)
                                     - (IF req[r].at = "clean" THEN 1 ELSE 0)
  <2>1. Cardinality(Stray') = Cardinality(Stray) + (IF k \in Stray' THEN 1 ELSE 0)
    BY <1>6, <1>8, FileCounts, FileCountsNext, OneApart
  <2>2. Cardinality(Broken') <= Cardinality(Broken) + (IF k \in Broken' THEN 1 ELSE 0)
    <3>1. /\ (k \in Broken <=> k \in Broken') => Cardinality(Broken') = Cardinality(Broken)
          /\ k \in Broken /\ k \notin Broken' => Cardinality(Broken') = Cardinality(Broken) - 1
          /\ k \notin Broken /\ k \in Broken' => Cardinality(Broken') = Cardinality(Broken) + 1
      BY <1>5, FileCounts, FileCountsNext, OneApart
    <3> QED
      BY <3>1, FileCounts, FileCountsNext
  <2>3. /\ (r \in Cleaning <=> r \in Cleaning') => Cardinality(Cleaning') = Cardinality(Cleaning)
        /\ r \in Cleaning /\ r \notin Cleaning' => Cardinality(Cleaning') = Cardinality(Cleaning) - 1
        /\ r \notin Cleaning /\ r \in Cleaning' => Cardinality(Cleaning') = Cardinality(Cleaning) + 1
    BY <1>7, FileCounts, FileCountsNext, OneApart
  <2> QED
    BY <1>9, <2>1, <2>2, <2>3, FileCounts, FileCountsNext
<1>12. k \in Broken' => at \in {"idle"}
  <2>1. at \notin {"idle", "clean"} => Known' = Known
    BY DEF Known
  <2> QED
    BY <1>1, <1>9, <2>1
<1>13. at = "idle" => faults' = faults + 1 \/ req[r].at = "clean" \/ (k \notin Stray' /\ k \notin Broken')
  BY <1>1, <1>9 DEF Known
<1>14. faults \in Nat
  BY DEF ServerTypes
<1>15. at = "idle" /\ faults' = faults /\ req[r].at = "clean" => k \notin Stray'
  BY <1>1, <1>9, <1>14 DEF Known
<1> HIDE DEF k
<1> QED
  BY <1>9, <1>11, <1>12, <1>13, <1>14, <1>15, FileCounts, FileCountsNext DEF FilesAccounted

\* An upload that ends with a failure has it counted.
LEMMA FailureAccounted ==
  ASSUME FileTypes, Uploads, ServerTypes, FilesAccounted, NEW r \in Request, req[r].at # "idle",
         Answer(r), Fault(1),
         \A k \in Key \ {req[r].key} : files'[k] = files[k] /\ rows'[k] = rows[k]
  PROVE  FilesAccounted'
<1>1. faults' = faults + 1
  BY DEF Fault
<1>2. PICK at \in {"idle", "open", "copy", "insert", "clean"} : at = "idle"
  OBVIOUS
<1>3. IF at = "idle" THEN Answer(r) ELSE Go(r, at)
  BY <1>2, Zenon
<1>4. at # "clean"
  BY <1>2
<1>5. at = "clean" => /\ faults' = faults + 1 /\ req[r].at # "clean"
                      /\ files'[req[r].key] = "whole"
  BY <1>4
<1>6. at = "idle" => \/ faults' = faults + 1 \/ (req[r].at = "clean" /\ files'[req[r].key] = "none")
                     \/ (rows'[req[r].key].phase # "absent" /\ files'[req[r].key] = "whole")
  BY <1>1
<1>7. at \notin {"idle", "clean"} => UNCHANGED rows /\ req[r].at # "clean"
  BY <1>2
<1>8. faults' = faults \/ faults' = faults + 1
  BY <1>1, Zenon
<1> QED
  BY <1>3, <1>5, <1>6, <1>7, <1>8, UploadAccounted

LEMMA UploadStepsAccounted ==
  ASSUME FileTypes, Uploads, ServerTypes, FilesAccounted, NEW r \in Request,
         LocalCreate(r) \/ LocalCopy(r) \/ S3Put(r) \/ Create(r) \/ Clean(r)
  PROVE  FilesAccounted'
<1> DEFINE k == req[r].key
<1>1. ASSUME NEW file, Store(k, file), req[r].at # "idle"
      PROVE  files'[k] = file /\ \A j \in Key \ {k} : files'[j] = files[j]
  <2>1. k \in Key
    BY <1>1 DEF FileTypes, Upload, Uploads, UploadSound
  <2> QED
    BY <1>1, <2>1 DEF Store, FileTypes
<1>2. Fault(1) => faults' = faults + 1
  BY DEF Fault
<1>3. CASE LocalCreate(r)
  <2>1. req[r].at = "open" /\ Store(k, "part") /\ Go(r, "copy") /\ UNCHANGED <<rows, faults>>
    BY <1>3 DEF LocalCreate, UploadStep
  <2> QED
    BY <1>1, <2>1, UploadAccounted
<1>4. CASE LocalCopy(r)
  <2>1. req[r].at = "copy" /\ UNCHANGED rows
    BY <1>4 DEF LocalCopy, UploadStep
  <2>2. CASE Store(k, "whole") /\ Go(r, "insert") /\ UNCHANGED faults
    BY <1>1, <2>1, <2>2, UploadAccounted
  <2>3. CASE Answer(r) /\ Fault(1) /\ UNCHANGED files
    BY <2>1, <2>3, FailureAccounted
  <2> QED
    BY <1>4, <2>2, <2>3 DEF LocalCopy
<1>5. CASE S3Put(r)
  <2>1. req[r].at = "open" /\ UNCHANGED rows
    BY <1>5 DEF S3Put, UploadStep
  <2>2. CASE Store(k, "whole") /\ Go(r, "insert") /\ UNCHANGED faults
    BY <1>1, <2>1, <2>2, UploadAccounted
  <2>3. CASE \E file \in {"none", "whole"} : Store(k, file) /\ Answer(r) /\ Fault(1)
    <3>1. PICK file \in {"none", "whole"} : Store(k, file) /\ Answer(r) /\ Fault(1)
      BY <2>3
    <3>2. \A j \in Key \ {k} : files'[j] = files[j]
      BY <1>1, <2>1, <3>1
    <3> QED
      BY <2>1, <3>1, <3>2, FailureAccounted
  <2> QED
    BY <1>5, <2>2, <2>3 DEF S3Put
<1>6. CASE Create(r)
  <2>1. /\ req[r].at = "insert" /\ UNCHANGED files /\ k \in Key /\ files[k] = "whole"
    BY <1>6 DEF Create, UploadStep, FileTypes, Upload, Uploads, UploadSound
  <2>2. CASE AddRow(k) /\ Answer(r) /\ UNCHANGED faults
    BY <2>1, <2>2, RowAdded, UploadAccounted
  <2>3. CASE (AddRow(k) \/ UNCHANGED rows) /\ Go(r, "clean") /\ Fault(1)
    BY <1>2, <2>1, <2>3, RowAdded, UploadAccounted
  <2> QED
    BY <1>6, <2>2, <2>3 DEF Create
<1>7. CASE Clean(r)
  <2>1. req[r].at = "clean" /\ Answer(r) /\ UNCHANGED rows
    BY <1>7 DEF Clean, UploadStep
  <2>2. CASE Store(k, "none") /\ UNCHANGED faults
    BY <1>1, <2>1, <2>2, UploadAccounted
  <2>3. CASE UNCHANGED files /\ Fault(1)
    BY <2>1, <2>3, FailureAccounted
  <2> QED
    BY <1>7, <2>2, <2>3 DEF Clean
<1> QED
  BY <1>3, <1>4, <1>5, <1>6, <1>7

\* Steps that leave files, rows and what is cleaned up alone.
LEMMA NothingToAccount ==
  ASSUME ServerTypes, FilesAccounted, Stray' = Stray, Broken' = Broken, Cleaning' = Cleaning,
         faults' = faults \/ faults' = faults + 1
  PROVE  FilesAccounted'
  BY FileCounts DEF FilesAccounted, ServerTypes

\* Each upload that a crash cuts off is paid for.
LEMMA CrashAccounted ==
  ASSUME FileTypes, Uploads, ServerTypes, FilesAccounted, Crash
  PROVE  FilesAccounted'
<1> DEFINE keys == {req[r].key : r \in Uploading}
           f == [r \in Uploading |-> req[r].key]
<1>1. IsFiniteSet(keys) /\ Cardinality(keys) <= Cardinality(Uploading) /\ Cardinality(keys) \in Nat
  <2>1. f \in Surjection(Uploading, keys)
    BY DEF Surjection
  <2> QED
    BY <2>1, Counts, FS_Surjection, FS_CardinalityType
<1>2. /\ req' = [r \in Request |-> Idle] /\ UNCHANGED <<files, rows>>
      /\ faults' = faults + (1 + Cardinality(Uploading))
  BY DEF Crash, Fault
<1>3. Broken' = Broken /\ Cleaning' = {}
  BY <1>2 DEF Broken, Known, Cleaning, Idle
<1>4. Stray' \subseteq Stray \cup keys
  <2>1. ASSUME NEW j \in Stray', j \notin keys
        PROVE  j \in Stray
    <3>1. j \in Key /\ files[j] # "none" /\ j \notin Known
      BY <1>2, <2>1 DEF Stray, Known
    <3>2. \A r \in Request : req[r].key # j
      <4>1. \A r \in Request : req[r] = Idle => req[r].key # j
        BY <3>1, KeyAssumption DEF Idle
      <4> QED
        BY <2>1, <4>1 DEF Uploading
    <3> QED
      BY <3>1, <3>2 DEF Stray
  <2> QED
    BY <2>1
<1>5. Cardinality(Stray') <= Cardinality(Stray) + Cardinality(Uploading)
  <2>1. /\ IsFiniteSet(Stray \cup keys)
        /\ Cardinality(Stray \cup keys)
             = Cardinality(Stray) + Cardinality(keys) - Cardinality(Stray \cap keys)
    BY <1>1, FileCounts, FS_Union
  <2>2. Cardinality(Stray \cap keys) \in Nat
    BY FileCounts, FS_Intersection, FS_CardinalityType
  <2>3. Cardinality(Stray') <= Cardinality(Stray \cup keys)
    BY <1>4, <2>1, FS_Subset
  <2> HIDE DEF keys
  <2> QED
    BY <1>1, <2>1, <2>2, <2>3, FileCounts, FileCountsNext, Counts
<1> QED
  BY <1>2, <1>3, <1>5, FileCounts, FileCountsNext, Counts, FS_EmptySet
     DEF FilesAccounted, ServerTypes

LEMMA AccountedNext ==
  ASSUME FileTypes, Uploads, ServerTypes, FilesAccounted, [Next]_vars
  PROVE  FilesAccounted'
<1>1. ASSUME UNCHANGED files_vars, faults' = faults \/ Fault(1)
      PROVE  FilesAccounted'
  <2>1. Stray' = Stray /\ Broken' = Broken /\ Cleaning' = Cleaning
    BY <1>1 DEF files_vars, Stray, Broken, Known, Cleaning
  <2> QED
    BY <1>1, <2>1, NothingToAccount DEF Fault
<1>2. CASE Materials
  <2>1. CASE StartReading \/ CountByAccount \/ List
    BY <1>1, <2>1 DEF StartReading, CountByAccount, List
  <2>2. ASSUME NEW r \in Request, NEW k \in Key, StartUpload(r, k)
        PROVE  FilesAccounted'
    <3>1. /\ req[r] = Idle /\ files[k] = "none"
          /\ req' = [req EXCEPT ![r] = [at |-> "open", key |-> k]]
          /\ UNCHANGED <<files, rows, faults>>
      BY <2>2 DEF StartUpload
    <3>2. req'[r] = [at |-> "open", key |-> k] /\ \A s \in Request \ {r} : req'[s] = req[s]
      BY <3>1 DEF FileTypes
    <3>3. Broken' = Broken /\ Cleaning' = Cleaning
      BY <3>1, <3>2 DEF Broken, Known, Cleaning, Idle
    <3>4. Stray' = Stray
      BY <3>1, <3>2, KeyAssumption DEF Stray, Known, Idle
    <3> QED
      BY <3>1, <3>3, <3>4, NothingToAccount
  <2>3. ASSUME NEW k \in Key, Delete(k)
        PROVE  FilesAccounted'
    <3>1. /\ rows' = [rows EXCEPT ![k].phase = "deleted"] /\ k \in Known
          /\ UNCHANGED <<files, req, faults>>
      BY <2>3 DEF Delete, Live, Known
    <3>2. Known' = Known
      BY <3>1 DEF FileTypes, Row, Known
    <3> QED
      BY <3>1, <3>2, NothingToAccount DEF Stray, Broken, Cleaning
  <2> QED
    BY <1>2, <2>1, <2>2, <2>3, UploadStepsAccounted DEF Materials
<1>3. CASE Settings
  BY <1>1, <1>3, SettingsFrame
<1>4. CASE Start \/ UNCHANGED vars
  BY <1>1, <1>4 DEF Start, vars
<1> QED
  BY <1>2, <1>3, <1>4, CrashAccounted DEF Next

-----------------------------------------------------------------------------
(* The list *)

\* What a client has not seen of what it wants lies beyond the pages it has read.
ReaderSound ==
  /\ reader.at # "idle" => reader.page \in Nat \ {0}
  /\ reader.at # "idle" /\ reader.sure =>
       /\ reader.wanted \subseteq Live
       /\ \A k \in reader.wanted :
            \/ k \in reader.seen
            \/ reader.at # "done" /\ (reader.page - 1) * PageSize < Place(k)

\* A place is counted from the newest material, which has place 1.
LEMMA PlaceBounds ==
  ASSUME FileTypes, NEW k \in Live
  PROVE  Place(k) \in Nat \ {0} /\ Place(k) <= Cardinality(Live)
<1> DEFINE S == {j \in Live : rows[j].number >= rows[k].number}
<1>1. S \subseteq Live /\ IsFiniteSet(S) /\ Cardinality(S) \in Nat /\ Cardinality(S) <= Cardinality(Live)
  BY Counts, FS_Subset, FS_CardinalityType
<1>2. rows[k].number \in Nat
  BY DEF FileTypes, Row, Live
<1>3. S # {}
  BY <1>2
<1>4. Cardinality(S) # 0
  BY <1>1, <1>3, FS_EmptySet
<1> QED
  BY <1>1, <1>4 DEF Place

\* The seen part of what is wanted does not shrink, and what is not seen keeps
\* or gains its distance, when a new material comes.
LEMMA PlacesGrow ==
  ASSUME FileTypes, NEW k \in Key, k \notin Known, AddRow(k)
  PROVE  Live \subseteq Live' /\ \A j \in Live : Place(j) <= Place(j)'
<1>1. /\ rows' \in [Key -> Row] /\ rows'[k].phase = "live"
      /\ \A j \in Key \ {k} : rows'[j] = rows[j]
  BY RowAdded
<1>2. \A j \in Live : j \in Key \ {k} /\ rows'[j] = rows[j]
  BY <1>1 DEF Live, Known
<1>3. Live \subseteq Live'
  BY <1>1, <1>2 DEF Live
<1>4. ASSUME NEW j \in Live
      PROVE  Place(j) <= Place(j)'
  <2> DEFINE S == {i \in Live : rows[i].number >= rows[j].number}
             T == {i \in Live' : rows'[i].number >= rows'[j].number}
  <2>1. S \subseteq T
    BY <1>2, <1>3
  <2>2. IsFiniteSet(T)
    <3>1. T \subseteq Key
      BY DEF Live
    <3> QED
      BY <3>1, KeyAssumption, FS_Subset
  <2>3. Cardinality(S) <= Cardinality(T)
    BY <2>1, <2>2, FS_Subset
  <2> QED
    BY <2>3 DEF Place
<1> QED
  BY <1>3, <1>4

\* The distance a page number stands for.
LEMMA Offsets ==
  ASSUME NEW n \in Nat \ {0}
  PROVE  /\ (n - 1) * PageSize \in Nat /\ n * PageSize \in Nat
         /\ n + 1 \in Nat \ {0} /\ ((n + 1) - 1) * PageSize = n * PageSize
<1>1. n - 1 \in Nat /\ n \in Nat /\ PageSize \in Nat
  BY BoundAssumption
<1>2. (n + 1) - 1 = n
  OBVIOUS
<1>3. n + 1 \in Nat \ {0}
  OBVIOUS
<1>4. \A a, b \in Nat : a * b \in Nat
  OBVIOUS
<1> QED
  BY <1>1, <1>2, <1>3, <1>4

LEMMA ReaderRests ==
  ASSUME FileTypes, ReaderSound, UNCHANGED reader,
         UNCHANGED rows \/ \E k \in Key \ Known : AddRow(k)
  PROVE  ReaderSound'
<1>1. Live \subseteq Live' /\ \A j \in Live : Place(j) <= Place(j)' /\ Place(j)' \in Nat /\ Place(j) \in Nat
  <2>1. CASE UNCHANGED rows
    <3>1. Live' = Live /\ \A j \in Live : Place(j)' = Place(j)
      BY <2>1 DEF Live, Place
    <3> QED
      BY <3>1, PlaceBounds
  <2>2. ASSUME NEW k \in Key, k \notin Known, AddRow(k)
        PROVE  Live \subseteq Live' /\ \A j \in Live : Place(j) <= Place(j)' /\ Place(j)' \in Nat /\ Place(j) \in Nat
    <3>1. ASSUME NEW j \in Live PROVE Place(j)' \in Nat
      <4> DEFINE T == {i \in Live' : rows'[i].number >= rows'[j].number}
      <4>1. T \subseteq Key
        BY DEF Live
      <4>2. Cardinality(T) \in Nat
        BY <4>1, KeyAssumption, FS_Subset, FS_CardinalityType
      <4> QED
        BY <4>2 DEF Place
    <3> QED
      BY <2>2, <3>1, PlacesGrow, PlaceBounds
  <2> QED
    BY <2>1, <2>2
<1>2. SUFFICES ASSUME reader.at # "idle"
      PROVE  ReaderSound'
  BY DEF ReaderSound
<1>3. reader.page \in Nat \ {0} /\ (reader.page - 1) * PageSize \in Nat
  BY <1>2, Offsets DEF ReaderSound
<1>4. ASSUME reader.sure, NEW k \in reader.wanted, k \notin reader.seen
      PROVE  k \in Live /\ reader.at # "done" /\ (reader.page - 1) * PageSize < Place(k)'
  <2>1. k \in Live /\ reader.at # "done" /\ (reader.page - 1) * PageSize < Place(k)
    BY <1>2, <1>4 DEF ReaderSound
  <2>2. Place(k) <= Place(k)' /\ Place(k) \in Nat /\ Place(k)' \in Nat
    BY <1>1, <2>1
  <2> QED
    BY <1>3, <2>1, <2>2
<1>5. reader.sure => reader.wanted \subseteq Live'
  BY <1>1, <1>2 DEF ReaderSound
<1> QED
  BY <1>3, <1>4, <1>5 DEF ReaderSound

LEMMA ReaderSteps ==
  ASSUME FileTypes, ServerTypes, ReaderSound, StartReading \/ CountByAccount \/ List
  PROVE  ReaderSound'
<1>1. rows' = rows /\ Live' = Live /\ \A k : Place(k)' = Place(k)
  BY DEF StartReading, CountByAccount, List, files_vars, Live, Place
<1>2. CASE StartReading
  <2>1. /\ reader'.at = "count" /\ reader'.page = 1 /\ reader'.wanted = Live
    BY <1>2 DEF StartReading, NoReader
  <2>2. (1 - 1) * PageSize = 0 /\ 1 \in Nat \ {0}
    BY BoundAssumption
  <2>3. \A k \in Live : (1 - 1) * PageSize < Place(k)'
    BY <1>1, <2>2, PlaceBounds
  <2> QED
    BY <1>1, <2>1, <2>2, <2>3 DEF ReaderSound
<1>3. CASE CountByAccount
  <2>1. /\ reader.at = "count" /\ reader'.at = "select" /\ reader'.page = reader.page
        /\ reader'.wanted = reader.wanted /\ reader'.seen = reader.seen /\ reader'.sure = reader.sure
    BY <1>3 DEF CountByAccount, ServerTypes, Reader
  <2> QED
    BY <1>1, <2>1 DEF ReaderSound
<1>4. CASE List
  <2> DEFINE n == reader.page
             last == n * PageSize >= reader.total
  <2>1. /\ reader.at = "select" /\ reader'.wanted = reader.wanted
        /\ reader'.seen = reader.seen \cup ListByAccount(n)
        /\ reader'.at = IF last THEN "done" ELSE "count"
        /\ reader'.page = IF last THEN n ELSE n + 1
        /\ reader'.sure = (reader.sure /\ (last => reader.total = Cardinality(Live)))
    BY <1>4 DEF List, ServerTypes, Reader
  <2>2. /\ n \in Nat \ {0} /\ n * PageSize \in Nat /\ (n - 1) * PageSize \in Nat
        /\ n + 1 \in Nat \ {0} /\ ((n + 1) - 1) * PageSize = n * PageSize
    BY <2>1, Offsets DEF ReaderSound
  <2>3. reader'.page \in Nat \ {0}
    BY <2>1, <2>2
  <2>4. reader'.sure => reader.sure /\ reader'.wanted \subseteq Live'
    BY <1>1, <2>1 DEF ReaderSound
  <2>5. ASSUME reader'.sure, NEW k \in reader'.wanted, k \notin reader'.seen
        PROVE  reader'.at # "done" /\ (reader'.page - 1) * PageSize < Place(k)'
    <3>1. /\ k \in Live /\ (n - 1) * PageSize < Place(k) /\ k \notin ListByAccount(n)
          /\ reader.sure
      BY <2>1, <2>5 DEF ReaderSound
    <3>2. Place(k) \in Nat /\ Place(k) <= Cardinality(Live)
      BY <3>1, PlaceBounds
    <3>3. n * PageSize < Place(k)
      BY <2>2, <3>1, <3>2 DEF ListByAccount
    <3>4. ~last
      <4>1. last => reader.total = Cardinality(Live)
        BY <2>1, <2>5
      <4> HIDE DEF n
      <4>2. Cardinality(Live) \in Nat
        BY Counts
      <4> QED
        BY <2>2, <3>2, <3>3, <4>1, <4>2
    <3>5. reader'.page = n + 1 /\ reader'.at = "count"
      BY <2>1, <3>4
    <3> QED
      BY <1>1, <2>2, <3>3, <3>5
  <2>6. reader'.at # "idle"
    BY <2>1
  <2> HIDE DEF n, last
  <2> QED
    BY <2>3, <2>4, <2>5, <2>6 DEF ReaderSound
<1> QED
  BY <1>2, <1>3, <1>4

LEMMA ReaderNext ==
  ASSUME FileTypes, ServerTypes, Uploads, ReaderSound, [Next]_vars
  PROVE  ReaderSound'
<1>1. CASE Materials
  <2>1. CASE StartReading \/ CountByAccount \/ List
    BY <2>1, ReaderSteps
  <2>2. ASSUME NEW k \in Key, Delete(k)
        PROVE  ReaderSound'
    <3>1. reader'.sure = FALSE /\ reader'.at = reader.at /\ reader'.page = reader.page
      BY <2>2 DEF Delete, ServerTypes, Reader
    <3> QED
      BY <3>1 DEF ReaderSound
  <2>3. ASSUME NEW r \in Request, Create(r)
        PROVE  ReaderSound'
    <3>1. req[r].key \in Key \ Known /\ UNCHANGED reader
      BY <2>3 DEF Create, UploadStep, FileTypes, Upload, Uploads, UploadSound
    <3>2. AddRow(req[r].key) \/ UNCHANGED rows
      BY <2>3 DEF Create
    <3> QED
      BY <3>1, <3>2, ReaderRests
  <2>4. ASSUME NEW r \in Request,
               \/ \E k \in Key : StartUpload(r, k)
               \/ LocalCreate(r) \/ LocalCopy(r) \/ S3Put(r) \/ Clean(r)
        PROVE  ReaderSound'
    <3>1. UNCHANGED <<rows, reader>>
      BY <2>4 DEF StartUpload, LocalCreate, LocalCopy, S3Put, Clean
    <3> QED
      BY <3>1, ReaderRests
  <2> QED
    BY <1>1, <2>1, <2>2, <2>3, <2>4 DEF Materials
<1>2. CASE Settings
  BY <1>2, SettingsFrame, ReaderRests DEF files_vars
<1>3. CASE Crash
  BY <1>3 DEF Crash, NoReader, ReaderSound
<1>4. CASE Start \/ UNCHANGED vars
  BY <1>4, ReaderRests DEF Start, vars, files_vars
<1> QED
  BY <1>1, <1>2, <1>3, <1>4 DEF Next

LEMMA ListSound ==
  ReaderSound => PagesComplete
  BY DEF ReaderSound, PagesComplete

LEMMA InitAccounted == Init => FilesAccounted /\ ReaderSound
<1> SUFFICES ASSUME Init PROVE FilesAccounted /\ ReaderSound
  OBVIOUS
<1>1. Stray = {} /\ Broken = {} /\ Cleaning = {} /\ faults = 0
  BY DEF Init, Stray, Broken, Known, Cleaning, Idle, NoRow
<1>2. FilesAccounted
  BY <1>1, FS_EmptySet DEF FilesAccounted
<1>3. ReaderSound
  BY DEF Init, ReaderSound, NoReader
<1> QED
  BY <1>2, <1>3

-----------------------------------------------------------------------------
(* Theorems *)

THEOREM InvariantHolds == Spec => []SInv
<1>1. SInv /\ [Next]_vars => SInv'
  BY FilesNext, ServerNext, PagesNext DEF SInv
<1> QED
  BY <1>1, InitSInv, PTL DEF Spec

\* An upload that was answered with success keeps its row and its whole file,
\* and no upload touches the file of another (material.go, local.go, s3.go).
THEOREM UploadsStaySound == Spec => []UploadsSound
<1>1. SInv => UploadsSound
  BY SInvParts
<1> QED
  BY <1>1, InvariantHolds, PTL

\* A save that no other overlaps leaves what its user was shown and typed.
THEOREM SavesStayWhole == Spec => []SavesWhole
<1>1. SInv => SavesWhole
  BY SInvParts
<1> QED
  BY <1>1, InvariantHolds, PTL

\* Neither a save nor a start empties a saved secret.
THEOREM SecretStays == Spec => SecretKept
<1>1. SInv /\ [Next]_vars => (settings.s3_secret # 0 => settings'.s3_secret # 0)
  BY PagesNext DEF SInv
<1> QED
  BY <1>1, InvariantHolds, PTL DEF Spec, SecretKept

\* Each file without a material, and each material without its file, is paid for
\* by a failure (material.go, Upload; local.go and s3.go).
THEOREM FilesStayCounted == Spec => []FilesCounted
<1>1. SInv /\ FilesAccounted /\ [Next]_vars => FilesAccounted'
  BY AccountedNext DEF SInv
<1>2. SInv /\ FilesAccounted => FilesCounted
  BY FileCounts DEF SInv, ServerTypes, FilesAccounted, FilesCounted
<1> QED
  BY <1>1, <1>2, InitAccounted, InvariantHolds, PTL DEF Spec

\* A client that goes through the pages misses no material it should have seen
\* (material.go, List; repository ListByAccount).
THEOREM PagesStayComplete == Spec => []PagesComplete
<1>1. SInv /\ ReaderSound /\ [Next]_vars => ReaderSound'
  BY ReaderNext DEF SInv
<1> QED
  BY <1>1, ListSound, InitAccounted, InvariantHolds, PTL DEF Spec

=============================================================================
