------------------------------- MODULE Import -------------------------------
(***************************************************************************)
(* The import of the legacy system (tools/migrate/main.go): eight steps    *)
(* that upsert the rows of one legacy token into the tables, beside a      *)
(* server that writes to them.                                             *)
(*                                                                         *)
(* An action is one statement.  Of a row the model has its id, what it     *)
(* refers to and whether it is deleted; of an article its content, too.    *)
(* The queries of the legacy system are taken to succeed, the rows of a    *)
(* query to come in any order, as it has no ORDER BY, and user names and   *)
(* app ids not to clash with those the server has.                         *)
(***************************************************************************)
EXTENDS TipTap

CONSTANTS
  Id, tenantID,   \* ids, and the one that main.go has for the tenant
  Legacy,         \* the legacy databases: for each step the rows of its query
  MaxRuns, MaxEdits, MaxFaults  \* bounds on runs, writes of the server and failures

ASSUME IdAssumption == Id \subseteq Nat \ {0} /\ tenantID \in Id
ASSUME BoundAssumption == MaxRuns \in Nat /\ MaxEdits \in Nat /\ MaxFaults \in Nat

VARIABLES
  legacy,   \* the legacy database, which does not change
  db,       \* the rows of the new tables
  imp,      \* the run of the import
  runs, edits, faults,
  created,  \* rows the server inserted
  touched   \* rows the server wrote since the run began

vars == <<legacy, db, imp, runs, edits, faults, created, touched>>

Table == {"tenants", "accounts", "channels", "articles", "news", "news_channels", "rules"}

\* Mutant of Steps: the quick news channels before the news.
StepsMended == <<"tenants", "accounts", "channels", "articles", "news_channels", "news",
                 "keywords", "default_reply">>

\* Mutant of Steps: the articles before their channels.
StepsSwapped == <<"tenants", "accounts", "articles", "channels", "news", "news_channels",
                  "keywords", "default_reply">>

Steps == <<"tenants", "accounts", "channels", "articles", "news", "news_channels",
           "keywords", "default_reply">>

Step == (Table \ {"rules"}) \cup {"keywords", "default_reply"}
TableOf(step) == IF step \in Table THEN step ELSE "rules"

\* by is the step that wrote the row last, or the server; ref is the parent, the
\* channel, or 0.
Row == [by: Step \cup {"none", "server"}, ref: Id \cup {0}, deleted: BOOLEAN]
NoRow == [by |-> "none", ref |-> 0, deleted |-> FALSE, content |-> <<>>]

Run == [at: {"off", "running", "failed", "done"}, step: 1 .. Len(Steps)]

LegacyRow(id, ref, html) == [id |-> id, ref |-> ref, html |-> html]

Exists(t, i) == db[t][i].by # "none"

-----------------------------------------------------------------------------
(* The import *)

UnchangedByImport == UNCHANGED <<legacy, edits, created>>

Begin ==
  /\ imp.at # "running" /\ runs < MaxRuns
  /\ imp' = [at |-> "running", step |-> 1, todo |-> legacy[Steps[1]]]
  /\ runs' = runs + 1
  /\ touched' = {}
  /\ UNCHANGED <<db, faults>> /\ UnchangedByImport

\* Mutant of Upsert: the row comes back undeleted.
UpsertAnew(step, i, row, content) ==
  LET t == TableOf(step) IN
  /\ db' = [db EXCEPT ![t][i] = [by |-> step, ref |-> row.ref, deleted |-> FALSE,
                                 content |-> content]]
  /\ imp' = [imp EXCEPT !.todo = @ \ {row}]
  /\ touched' = touched \ {<<t, i>>}

\* INSERT ... ON CONFLICT (id) DO UPDATE: deleted_at is not among the columns.
Upsert(step, i, row, content) ==
  LET t == TableOf(step) IN
  /\ db' = [db EXCEPT ![t][i] = [by |-> step, ref |-> row.ref, deleted |-> @.deleted,
                                 content |-> content]]
  /\ imp' = [imp EXCEPT !.todo = @ \ {row}]
  /\ touched' = touched \ {<<t, i>>}

\* Mutant of Fatal: a row that fails is logged and left out.
FatalNot(row) == imp' = [imp EXCEPT !.todo = @ \ {row}] /\ UNCHANGED <<db, touched>>

\* The statement is refused: log.Fatalf of main.
Fatal(row) == imp' = [imp EXCEPT !.at = "failed", !.todo = {}] /\ UNCHANGED <<db, touched>>

\* The next row of a step.
NextRow(step, row) ==
  /\ imp.at = "running" /\ Steps[imp.step] = step /\ row \in imp.todo
  /\ UNCHANGED <<runs, faults>> /\ UnchangedByImport

\* Every row names tenantID as its account, whatever the id of the account is.
OfAccount(step, row, refExists, content) ==
  /\ NextRow(step, row)
  /\ IF Exists("accounts", tenantID) /\ refExists
     THEN Upsert(step, row.id, row, content)
     ELSE Fatal(row)

migrateTenant(row) == NextRow("tenants", row) /\ Upsert("tenants", tenantID, row, <<>>)

\* The statement names status, which wechat_accounts does not have.
migrateAccount(row) == NextRow("accounts", row) /\ Fatal(row)

migrateChannels(row) ==
  OfAccount("channels", row, row.ref \in {0, row.id} \/ Exists("channels", row.ref), <<>>)

migrateArticles(row) ==
  OfAccount("articles", row, row.ref = 0 \/ Exists("channels", row.ref),
            htmlToTipTapJSON(row.html))

\* A missing channel is written as 0, which no channel has.
migrateQuickNews(row) ==
  OfAccount("news", row, row.ref # 0 /\ Exists("news_channels", row.ref), <<>>)

migrateQuickNewsChannels(row) == OfAccount("news_channels", row, TRUE, <<>>)

migrateKeywords(row) == OfAccount("keywords", row, TRUE, <<>>)

migrateDefaultReply(row) == OfAccount("default_reply", row, TRUE, <<>>)

\* The loop over steps of main.
NextStep ==
  /\ imp.at = "running" /\ imp.todo = {}
  /\ imp' = IF imp.step = Len(Steps) THEN [imp EXCEPT !.at = "done"]
            ELSE [imp EXCEPT !.step = @ + 1, !.todo = legacy[Steps[imp.step + 1]]]
  /\ UNCHANGED <<db, runs, faults, touched>> /\ UnchangedByImport

\* A call fails or the process is stopped.
Stopped ==
  /\ imp.at = "running" /\ faults < MaxFaults
  /\ imp' = [imp EXCEPT !.at = "failed", !.todo = {}]
  /\ faults' = faults + 1
  /\ UNCHANGED <<db, runs, touched>> /\ UnchangedByImport

-----------------------------------------------------------------------------
(* The server *)

ServerWrites(t, i, row) ==
  /\ edits < MaxEdits /\ edits' = edits + 1
  /\ db' = [db EXCEPT ![t][i] = row]
  /\ touched' = touched \cup {<<t, i>>}
  /\ UNCHANGED <<legacy, imp, runs, faults>>

\* An INSERT of the server, with an id of the sequence that no row has; the
\* import does not advance the sequences.
ServerCreates(t, i, ref) ==
  /\ ~Exists(t, i)
  /\ t \notin {"tenants", "accounts"} => \E a \in Id : Exists("accounts", a)
  /\ IF ref = 0 THEN t # "news"
     ELSE Exists(IF t = "news" THEN "news_channels" ELSE "channels", ref)
  /\ ServerWrites(t, i, [NoRow EXCEPT !.by = "server", !.ref = ref])
  /\ created' = created \cup {<<t, i>>}

ServerUpdates(t, i) ==
  /\ Exists(t, i) /\ ~db[t][i].deleted
  /\ ServerWrites(t, i, [db[t][i] EXCEPT !.by = "server", !.content = <<>>])
  /\ UNCHANGED created

ServerDeletes(t, i) ==
  /\ Exists(t, i) /\ ~db[t][i].deleted
  /\ ServerWrites(t, i, [db[t][i] EXCEPT !.by = "server", !.deleted = TRUE])
  /\ UNCHANGED created

-----------------------------------------------------------------------------
\* The server may have been used before: one account, with the id of main.go or not.
Init ==
  /\ legacy \in Legacy
  /\ \E used \in BOOLEAN :
       /\ db = [t \in Table |-> [i \in Id |->
                  IF used /\ t = "accounts" /\ i = tenantID
                  THEN [NoRow EXCEPT !.by = "server"] ELSE NoRow]]
       /\ created = IF used THEN {<<"accounts", tenantID>>} ELSE {}
  /\ imp = [at |-> "off", step |-> 1, todo |-> {}]
  /\ runs = 0 /\ edits = 0 /\ faults = 0
  /\ touched = {}

Import ==
  \E row \in imp.todo :
    \/ migrateTenant(row) \/ migrateAccount(row)
    \/ migrateChannels(row) \/ migrateArticles(row)
    \/ migrateQuickNews(row) \/ migrateQuickNewsChannels(row)
    \/ migrateKeywords(row) \/ migrateDefaultReply(row)

Next ==
  \/ Begin \/ NextStep \/ Stopped \/ Import
  \/ \E t \in Table, i \in Id :
       \/ \E ref \in {0} \cup (IF t \in {"channels", "articles", "news"} THEN Id ELSE {}) :
            ServerCreates(t, i, ref)
       \/ ServerUpdates(t, i) \/ ServerDeletes(t, i)

Spec == Init /\ [][Next]_vars

-----------------------------------------------------------------------------
(* Properties *)

TypeOK ==
  /\ \A t \in Table, i \in Id :
       [by |-> db[t][i].by, ref |-> db[t][i].ref, deleted |-> db[t][i].deleted] \in Row
  /\ [at |-> imp.at, step |-> imp.step] \in Run
  /\ imp.todo \subseteq legacy[Steps[imp.step]]
  /\ created \subseteq Table \X Id /\ touched \subseteq Table \X Id

\* A run that says it is done has brought every legacy row into its table, but
\* for rows the server wrote after that, and for keywords whose id a default
\* reply has, too: rows of two legacy tables share the ids of one.
Imported ==
  TypeOK /\
  (imp.at = "done" =>
     \A s \in Step : \A row \in legacy[s] :
       LET t == TableOf(s)
           i == IF s = "tenants" THEN tenantID ELSE row.id
       IN  \/ <<t, i>> \in touched
           \/ db[t][i].by = s /\ db[t][i].ref = row.ref
           \/ /\ s = "keywords" /\ db[t][i].by = "default_reply"
              /\ \E other \in legacy["default_reply"] : other.id = i)

\* The articles that are as the import wrote them have the text they had, as
\* TextsKept states it.
ArticlesKeepText ==
  \A i \in Id : db["articles"][i].by = "articles" =>
    \A row \in legacy["articles"] :
      row.id = i => TextsKept(row.html, db["articles"][i].content)

\* Why a run that no failure stops can stop: the account is in the legacy rows,
\* or not in the table; a subchannel comes before its parent; an article names
\* a channel that is nowhere; or a quick news item a channel that is not there
\* before the run.
Ids(s) == {row.id : row \in legacy[s]}
Cause ==
  \/ legacy["accounts"] # {} \/ ~Exists("accounts", tenantID)
  \/ \E row \in legacy["channels"] : row.ref # 0 /\ ~Exists("channels", row.ref)
  \/ \E row \in legacy["articles"] :
       row.ref \notin {0} \cup Ids("channels") /\ ~Exists("channels", row.ref)
  \/ \E row \in legacy["news"] : row.ref = 0 \/ ~Exists("news_channels", row.ref)

StopsForCause ==
  [][imp.at = "running" /\ imp'.at = "failed" /\ faults' = faults => Cause]_vars

\* No run and no run after it imports anything that comes after the news, unless
\* the server has a channel with the id a news item names: the channels of the
\* legacy system come one step later.
NewsBlock ==
  (\E row \in legacy["news"] : <<"news_channels", row.ref>> \notin created) =>
    /\ imp.at # "done"
    /\ \A t \in Table, i \in Id :
         db[t][i].by \notin {"news_channels", "keywords", "default_reply"}

\* What was deleted since an earlier run stays deleted, though it is imported again.
DeletedStay ==
  [][\A t \in Table, i \in Id : db[t][i].deleted => db'[t][i].deleted]_vars
=============================================================================
