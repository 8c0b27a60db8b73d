------------------------------ MODULE Content ------------------------------
(***************************************************************************)
(* What an account publishes: the channel tree, articles and templates     *)
(* (internal/handler/api/cms.go, template.go), quick news (news.go) and    *)
(* automatic replies (reply.go, internal/repository/reply).                *)
(*                                                                         *)
(* An action is one call to PostgreSQL.  Channels and articles are written *)
(* by one statement per request; the update of a news item or of a reply   *)
(* rule reads the row, changes the copy and writes it back.  Titles, texts *)
(* and slugs are left out, and with them the statements refused for a slug *)
(* that is taken; so is the status of a channel, which no query tests.     *)
(***************************************************************************)
EXTENDS Integers

CONSTANTS
  Account,           \* accounts
  Channel, None,     \* ids of cms_channels, and NULL
  Article, News, Rule,  \* ids of cms_articles, quicknews_news, auto_reply_rules
  Request,           \* updates of news and rules in flight at once
  MaxLevel,          \* bound on the level a request gives
  MaxRequests        \* bound on the requests

ASSUME IdAssumption ==
  /\ None \notin Channel
  /\ Article \cap News = {} /\ Article \cap Rule = {} /\ News \cap Rule = {}
  /\ None \notin Article \cup News \cup Rule
ASSUME BoundAssumption == MaxLevel \in Nat /\ MaxRequests \in Nat

VARIABLES
  channels,  \* rows of cms_channels
  posts,     \* rows of the three other tables
  req,       \* the updates in flight
  arrived,   \* requests so far
  now        \* writes to posts so far: updated_at and published_at

vars == <<channels, posts, req, arrived, now>>

Post == Article \cup News \cup Rule

Phase == {"absent", "live", "deleted"}

\* No binding bounds a level or the status of an article: -1 stands for what is negative.
Level == -1 .. MaxLevel

ChannelRow == [phase: Phase, account: Account \cup {None}, parent: Channel \cup {None},
               level: Level]
NoChannel == [phase |-> "absent", account |-> None, parent |-> None, level |-> 0]

\* status is 0 (draft, or rule switched off), 1 (shown), 2 (hidden, and any other
\* number of a news item or a rule) or -1; marked is is_template of an article and
\* is_top of a news item, 1 for true.
PostRow == [phase: Phase, status: -1 .. 2, marked: {0, 1}, channel: Channel \cup {None},
            published_at: Nat, updated_at: Nat]
NoPost == [phase |-> "absent", status |-> 0, marked |-> 0, channel |-> None,
           published_at |-> 0, updated_at |-> 0]

\* The write an update is about to make, and the status it was sent, if any.
Handler == [at: {"idle", "write"}, id: Post \cup {None}, row: PostRow, asked: SUBSET (0 .. 2)]
Idle == [at |-> "idle", id |-> None, row |-> NoPost, asked |-> {}]

Optional(S) == {{}} \cup {{v} : v \in S}
GivenOr(sent, default) == IF sent = {} THEN default ELSE CHOOSE v \in sent : TRUE

\* CASE WHEN $n >= 0 THEN $n ELSE the column END.
UnlessNegative(sent, old) == IF sent >= 0 THEN sent ELSE old

LiveChannel(c) == channels[c].phase = "live"
Live(p) == posts[p].phase = "live"

Arrive == arrived < MaxRequests /\ arrived' = arrived + 1

NewPost(status, marked, channel, published_at) ==
  [phase |-> "live", status |-> status, marked |-> marked, channel |-> channel,
   published_at |-> published_at, updated_at |-> 0]

Write(p, row) ==
  /\ posts' = [posts EXCEPT ![p] = [row EXCEPT !.updated_at = now + 1]]
  /\ now' = now + 1

-----------------------------------------------------------------------------
(* Channels *)

SetChannel(c, row) ==
  /\ channels' = [channels EXCEPT ![c] = row]
  /\ UNCHANGED <<posts, req, now>>

\* CreateChannel: the parent is a row, of any account and deleted or not.
CreateChannel(c, a, p, level) ==
  /\ Arrive
  /\ channels[c].phase = "absent"
  /\ p # None => channels[p].phase # "absent"
  /\ SetChannel(c, [phase |-> "live", account |-> a, parent |-> p, level |-> level])

\* Mutant of UpdateChannel: the parent_id of the request is written, too.
UpdateChannelMoves(c, level) ==
  /\ Arrive
  /\ LiveChannel(c)
  /\ \E p \in Channel : /\ channels[p].phase # "absent"
                        /\ SetChannel(c, [channels[c] EXCEPT !.parent = p])

\* Mutant of UpdateChannel: deleted_at is not looked at and comes back as NULL.
UpdateChannelDeletedToo(c, level) ==
  /\ Arrive
  /\ channels[c].phase # "absent"
  /\ SetChannel(c, [channels[c] EXCEPT !.phase = "live"])

\* UpdateChannel: a level left out is written as 0, and a negative one leaves the
\* level; the parent_id that the request may give is not among the columns of
\* the statement.
UpdateChannel(c, level) ==
  /\ Arrive
  /\ LiveChannel(c)
  /\ SetChannel(c, [channels[c] EXCEPT !.level = UnlessNegative(GivenOr(level, 0), @)])

\* DeleteChannel: neither subchannels nor articles follow.
DeleteChannel(c) ==
  /\ Arrive
  /\ LiveChannel(c)
  /\ SetChannel(c, [channels[c] EXCEPT !.phase = "deleted"])

-----------------------------------------------------------------------------
(* The tree of an account *)

\* GetChannelTree: the roots of the account, then the children of what the
\* query has, whatever account they name.
Roots(a) == {c \in Channel : /\ LiveChannel(c)
                             /\ channels[c].account = a /\ channels[c].parent = None}
ChildrenIn(S) == {c \in Channel : LiveChannel(c) /\ channels[c].parent \in S}

\* The recursive query: the smallest set of rows with these.
GetChannelTree(a) ==
  {c \in Channel : \A S \in SUBSET Channel : Roots(a) \cup ChildrenIn(S) \subseteq S => c \in S}

\* buildChannelTree of these rows: a row hangs under its parent when the parent
\* is one of them, and is a root of the answer otherwise.
AnswerRoots(rows) == {c \in rows : channels[c].parent \notin rows}
AnswerChildren(rows, S) == {d \in rows : channels[d].parent \in S}

\* What a reader of the answer finds, going down from its roots.
buildChannelTree(rows) ==
  {c \in rows : \A S \in SUBSET rows :
                  AnswerRoots(rows) \cup AnswerChildren(rows, S) \subseteq S => c \in S}

-----------------------------------------------------------------------------
(* Articles and templates *)

CreateArticle(p, channel, status, marked) ==
  /\ Arrive
  /\ posts[p].phase = "absent"
  /\ channel # None => channels[channel].phase # "absent"
  /\ Write(p, NewPost(status, marked, channel, IF status = 1 THEN now + 1 ELSE 0))
  /\ UNCHANGED <<channels, req>>

\* SaveTemplate: shown, with no time of publication.
SaveTemplate(p) ==
  /\ Arrive
  /\ posts[p].phase = "absent"
  /\ Write(p, NewPost(1, 1, None, 0))
  /\ UNCHANGED <<channels, req>>

\* Mutant of UpdateArticle: the time is set on the first publication only, by
\* looking at the status.
UpdateArticleOnce(p, status, marked) ==
  LET sent == GivenOr(status, 0) IN
  /\ Arrive
  /\ Live(p)
  /\ Write(p, [posts[p] EXCEPT !.status = UnlessNegative(sent, @),
                               !.marked = GivenOr(marked, 0),
                               !.published_at = IF sent = 1 /\ posts[p].status = 0
                                                THEN now + 1 ELSE @])
  /\ UNCHANGED <<channels, req>>

\* UpdateArticle: a status left out is written as 0, a negative one leaves the
\* status, and is_template left out is written as false; each publication has a
\* new time, and no update takes the time back.
UpdateArticle(p, status, marked) ==
  LET sent == GivenOr(status, 0) IN
  /\ Arrive
  /\ Live(p)
  /\ Write(p, [posts[p] EXCEPT !.status = UnlessNegative(sent, @),
                               !.marked = GivenOr(marked, 0),
                               !.published_at = IF sent = 1 THEN now + 1 ELSE @])
  /\ UNCHANGED <<channels, req>>

-----------------------------------------------------------------------------
(* News and rules *)

\* CreateNews and the Create of a rule: status 0 is taken for none given.
CreatePost(p, status, marked) ==
  /\ Arrive
  /\ posts[p].phase = "absent"
  /\ Write(p, NewPost(IF status = 0 THEN 1 ELSE status, marked, None, 0))
  /\ UNCHANGED <<channels, req>>

Read(r, p, row, status) ==
  /\ Arrive
  /\ req[r] = Idle /\ Live(p)
  /\ req' = [req EXCEPT ![r] = [at |-> "write", id |-> p, row |-> row, asked |-> status]]
  /\ UNCHANGED <<channels, posts, now>>

\* updateNewsDirect, up to the merge: 0 is no status, is_top is always written.
UpdateNews(r, p, status, marked) ==
  Read(r, p, [posts[p] EXCEPT !.status = IF status \subseteq {0} THEN @ ELSE GivenOr(status, 0),
                              !.marked = GivenOr(marked, 0)], status)

\* Mutant of UpdateReply: a rule without a status is switched on, as in Create.
UpdateReplyOn(r, p, status) ==
  Read(r, p, [posts[p] EXCEPT !.status = GivenOr(status, 1)], status)

\* Update of a rule, up to the merge.
UpdateReply(r, p, status) ==
  Read(r, p, [posts[p] EXCEPT !.status = GivenOr(status, @)], status)

\* Mutant of WriteBack: deleted_at is not looked at and comes back as NULL.
WriteBackDeletedToo(r) ==
  /\ req[r].at = "write"
  /\ Write(req[r].id, req[r].row)
  /\ req' = [req EXCEPT ![r] = Idle]
  /\ UNCHANGED <<channels, arrived>>

\* The UPDATE of the copy, of a row that is not deleted.
WriteBack(r) ==
  LET row == req[r].row IN
  /\ req[r].at = "write"
  /\ IF Live(req[r].id)
     THEN Write(req[r].id, [posts[req[r].id] EXCEPT !.status = row.status,
                                                    !.marked = row.marked])
     ELSE UNCHANGED <<posts, now>>
  /\ req' = [req EXCEPT ![r] = Idle]
  /\ UNCHANGED <<channels, arrived>>

\* A call fails or the server dies.
WriteFails(r) ==
  /\ req[r].at = "write"
  /\ req' = [req EXCEPT ![r] = Idle]
  /\ UNCHANGED <<channels, posts, arrived, now>>

\* SoftDelete of any of the three tables; their triggers set updated_at.
DeletePost(p) ==
  /\ Arrive
  /\ Live(p)
  /\ Write(p, [posts[p] EXCEPT !.phase = "deleted"])
  /\ UNCHANGED <<channels, req>>

-----------------------------------------------------------------------------
Init ==
  /\ channels = [c \in Channel |-> NoChannel]
  /\ posts = [p \in Post |-> NoPost]
  /\ req = [r \in Request |-> Idle]
  /\ arrived = 0 /\ now = 0

Channels ==
  \E c \in Channel :
    \/ \E a \in Account, p \in Channel \cup {None}, level \in Level :
         CreateChannel(c, a, p, level)
    \/ \E level \in Optional(Level) : UpdateChannel(c, level)
    \/ DeleteChannel(c)

Articles ==
  \E p \in Article :
    \/ \E channel \in Channel \cup {None}, status \in -1 .. 1, marked \in {0, 1} :
         CreateArticle(p, channel, status, marked)
    \/ SaveTemplate(p)
    \/ \E status \in Optional(-1 .. 1), marked \in Optional({0, 1}) :
         UpdateArticle(p, status, marked)

NewsAndRules ==
  \/ \E p \in News, status \in 0 .. 2, marked \in {0, 1} : CreatePost(p, status, marked)
  \/ \E p \in Rule, status \in 0 .. 2 : CreatePost(p, status, 0)
  \/ \E r \in Request :
       \/ \E p \in News, status \in Optional(0 .. 2), marked \in Optional({0, 1}) :
            UpdateNews(r, p, status, marked)
       \/ \E p \in Rule, status \in Optional(0 .. 1) : UpdateReply(r, p, status)
       \/ WriteBack(r) \/ WriteFails(r)

Next == Channels \/ Articles \/ NewsAndRules \/ \E p \in Post : DeletePost(p)

Spec == Init /\ [][Next]_vars

-----------------------------------------------------------------------------
(* Properties *)

TypeOK ==
  /\ channels \in [Channel -> ChannelRow]
  /\ posts \in [Post -> PostRow]
  /\ req \in [Request -> Handler]
  /\ arrived \in Nat /\ now \in Nat

\* The line of a channel: itself, its parent, and so on up.
Line(c) ==
  {d \in Channel : \A S \in SUBSET Channel :
     c \in S /\ (\A e \in S : channels[e].parent \in S \cup {None}) => d \in S}

\* No channel is its own ancestor; an account's tree has the channels whose
\* line is all live and ends in a root of the account; and the answer built
\* from the rows shows every one of them.  A channel may be created under one
\* that is deleted or has subchannels, and none of this is a constraint of the
\* table.
TreeWhole ==
  /\ \A c \in Channel : channels[c].phase # "absent" =>
       \E d \in Line(c) : channels[d].parent = None
  /\ \A a \in Account :
       LET rows == GetChannelTree(a) IN
       /\ rows = {c \in Channel : /\ \A d \in Line(c) : LiveChannel(d)
                                  /\ \E d \in Line(c) : /\ channels[d].parent = None
                                                        /\ channels[d].account = a}
       /\ buildChannelTree(rows) = rows
       /\ AnswerRoots(rows) = Roots(a)

InSomeTree(c) == \E a \in Account : c \in GetChannelTree(a)

\* A channel below a deleted one is live and in no tree, and stays so for good:
\* no request brings a channel back or moves it.
LostForGood ==
  [][\A c \in Channel : LiveChannel(c) /\ ~InSomeTree(c) => ~InSomeTree(c)']_vars

\* An article of a channel that is shown says since when, whatever updates it went
\* through (only a row of SaveTemplate, which has no channel, may be shown without
\* a date, and a negative status keeps it so when it ceases to be a template); a
\* news item is never a draft; and what an update in flight is about to write
\* fits its row, whose status it has read or was sent.
PostSound(p) ==
  /\ posts[p].updated_at <= now
  /\ p \in Article /\ posts[p].status = 1 /\ posts[p].channel # None =>
       posts[p].published_at # 0
  /\ p \in News /\ posts[p].phase # "absent" => posts[p].status # 0

CopySound(h) ==
  h.at = "write" =>
    /\ h.id \in News \cup Rule
    /\ posts[h.id].phase # "absent"
    /\ h.row.updated_at <= posts[h.id].updated_at
    /\ h.id \in News => h.row.status # 0
    /\ h.row.updated_at = posts[h.id].updated_at /\ h.row.status # posts[h.id].status =>
         h.asked = {h.row.status}

PostsSound ==
  /\ TypeOK
  /\ \A p \in Post : PostSound(p)
  /\ \A r \in Request : CopySound(req[r])

\* A news item or a rule that is not shown is shown again only by an update that
\* asks for it, or that read the row before its last change.
HiddenStays ==
  [][\A p \in News \cup Rule :
       Live(p) /\ posts[p].status # 1 /\ posts'[p].status = 1 =>
         \E r \in Request : /\ req[r].id = p /\ req'[r] = Idle
                            /\ \/ req[r].asked = {1}
                               \/ req[r].row.updated_at < posts[p].updated_at]_vars

\* What is deleted stays as it is, though updates that read it before write back.
DeletedStay ==
  [][/\ \A p \in Post : posts[p].phase = "deleted" => posts'[p] = posts[p]
     /\ \A c \in Channel : channels[c].phase = "deleted" => channels'[c] = channels[c]]_vars
=============================================================================
