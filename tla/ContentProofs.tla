--------------------------- MODULE ContentProofs ---------------------------
(***************************************************************************)
(* Proofs about Content: PostsSound is inductive, and with it no update    *)
(* shows again what was hidden unless it was asked to or its copy is out   *)
(* of date, and what is deleted stays as it is.                            *)
(*                                                                         *)
(* Lines and trees are least closed sets.  That every line ends            *)
(* (LinesEnd) is kept because a new channel hangs below one that is there; *)
(* with it the answer of a tree is the tree.                               *)
(***************************************************************************)
EXTENDS Content, TLAPS

-----------------------------------------------------------------------------
(* Helpers *)

\* What is written for a field that may be left out.
LEMMA Given ==
  ASSUME NEW S, NEW sent \in Optional(S), NEW default
  PROVE  /\ sent # {} => GivenOr(sent, default) \in S /\ sent = {GivenOr(sent, default)}
         /\ sent = {} => GivenOr(sent, default) = default
  BY DEF Optional, GivenOr

\* The ids of an article, a news item and a rule differ, and none is None.
LEMMA PostIds ==
  /\ \A p \in Article : p \notin News /\ p \notin Rule
  /\ \A p \in News : p \notin Rule
  /\ None \notin Post
  BY IdAssumption DEF Post

LEMMA Negative ==
  ASSUME NEW sent, NEW old
  PROVE  UnlessNegative(sent, old) = sent \/ UnlessNegative(sent, old) = old
  BY DEF UnlessNegative

LEMMA IdleHandler == Idle \in Handler /\ NoPost \in PostRow
  BY DEF Idle, Handler, NoPost, PostRow, Phase

\* What Write does to the table.
LEMMA WriteRow ==
  ASSUME TypeOK, NEW p \in Post, NEW row \in PostRow, Write(p, row)
  PROVE  /\ now' = now + 1 /\ posts' \in [Post -> PostRow]
         /\ posts'[p].updated_at = now + 1
         /\ posts'[p].phase = row.phase /\ posts'[p].status = row.status
         /\ posts'[p].channel = row.channel /\ posts'[p].published_at = row.published_at
         /\ \A q \in Post \ {p} : posts'[q] = posts[q]
<1> DEFINE new == [row EXCEPT !.updated_at = now + 1]
<1>1. /\ new \in PostRow /\ new.updated_at = now + 1 /\ new.phase = row.phase
      /\ new.status = row.status /\ new.channel = row.channel
      /\ new.published_at = row.published_at
  BY DEF TypeOK, PostRow
<1>2. posts' = [posts EXCEPT ![p] = new] /\ now' = now + 1
  BY DEF Write
<1> HIDE DEF new
<1>3. posts'[p] = new /\ posts' \in [Post -> PostRow]
      /\ \A q \in Post \ {p} : posts'[q] = posts[q]
  BY <1>1, <1>2 DEF TypeOK
<1> QED
  BY <1>1, <1>2, <1>3

\* A write of a sound row: a copy that was read before it is out of date.
LEMMA WriteSound ==
  ASSUME PostsSound, NEW p \in Post, NEW row \in PostRow, Write(p, row),
         row.phase # "absent",
         p \in Article /\ row.status = 1 /\ row.channel # None => row.published_at # 0,
         p \in News => row.status # 0,
         req' \in [Request -> Handler], \A r \in Request : req'[r] = req[r] \/ req'[r] = Idle,
         UNCHANGED channels, arrived' \in Nat
  PROVE  PostsSound'
<1>1. TypeOK /\ now \in Nat /\ posts \in [Post -> PostRow] /\ req \in [Request -> Handler]
  BY DEF PostsSound, TypeOK
<1>2. /\ now' = now + 1 /\ posts' \in [Post -> PostRow]
      /\ posts'[p].updated_at = now + 1
      /\ posts'[p].phase = row.phase /\ posts'[p].status = row.status
      /\ posts'[p].channel = row.channel /\ posts'[p].published_at = row.published_at
      /\ \A q \in Post \ {p} : posts'[q] = posts[q]
  BY <1>1, WriteRow
<1>3. TypeOK'
  BY <1>1, <1>2 DEF TypeOK
<1>4. ASSUME NEW q \in Post
      PROVE  PostSound(q)'
  <2>1. PostSound(q) /\ posts[q].updated_at \in Nat
    BY <1>1 DEF PostsSound, PostRow
  <2>2. CASE q = p
    BY <1>1, <1>2, <2>2 DEF PostSound
  <2>3. CASE q # p
    BY <1>1, <1>2, <2>1, <2>3 DEF PostSound
  <2> QED
    BY <2>2, <2>3
<1>5. ASSUME NEW r \in Request
      PROVE  CopySound(req[r])'
  <2>1. CASE req'[r] = Idle
    BY <2>1 DEF CopySound, Idle
  <2>2. CASE req'[r] = req[r] /\ req[r].at = "write"
    <3>1. CopySound(req[r])
      BY DEF PostsSound
    <3>2. req[r].id \in Post /\ req[r].row.updated_at \in Nat
      BY <1>1, <2>2, <3>1 DEF CopySound, Handler, PostRow, Post
    <3>3. posts[req[r].id].updated_at \in Nat /\ posts[req[r].id].updated_at <= now
      BY <1>1, <3>2 DEF PostsSound, PostSound, PostRow
    <3>4. CASE req[r].id = p
      BY <1>1, <1>2, <2>2, <3>1, <3>2, <3>3, <3>4 DEF CopySound
    <3>5. CASE req[r].id # p
      BY <1>2, <2>2, <3>1, <3>2, <3>5 DEF CopySound
    <3> QED
      BY <3>4, <3>5
  <2>3. CASE req'[r] = req[r] /\ req[r].at # "write"
    BY <2>3 DEF CopySound
  <2> QED
    BY <2>1, <2>2, <2>3
<1> QED
  BY <1>3, <1>4, <1>5 DEF PostsSound

\* A step that leaves the posts alone, and starts at most sound copies.
LEMMA QuietSound ==
  ASSUME PostsSound, UNCHANGED <<posts, now>>,
         channels' \in [Channel -> ChannelRow], arrived' \in Nat,
         req' \in [Request -> Handler],
         \A r \in Request : req'[r] = req[r] \/ CopySound(req'[r])
  PROVE  PostsSound'
<1>1. TypeOK'
  BY DEF PostsSound, TypeOK
<1>2. \A p \in Post : PostSound(p)'
  BY DEF PostsSound, PostSound
<1>3. \A r \in Request : CopySound(req[r])'
  BY DEF PostsSound, CopySound
<1> QED
  BY <1>1, <1>2, <1>3 DEF PostsSound

LEMMA IdleSound == CopySound(Idle)
  BY DEF CopySound, Idle

-----------------------------------------------------------------------------
(* The actions *)

\* An update of a news item or a rule, up to its merge.
LEMMA ReadSound ==
  ASSUME PostsSound, NEW r \in Request, NEW p \in News \cup Rule, NEW row \in PostRow,
         NEW asked \in SUBSET (0 .. 2), Read(r, p, row, asked),
         row.updated_at = posts[p].updated_at,
         p \in News => row.status # 0,
         row.status # posts[p].status => asked = {row.status}
  PROVE  PostsSound'
<1> DEFINE new == [at |-> "write", id |-> p, row |-> row, asked |-> asked]
<1>1. TypeOK /\ p \in Post /\ posts[p] \in PostRow
  BY DEF PostsSound, TypeOK, Post
<1>2. /\ Live(p) /\ req' = [req EXCEPT ![r] = new] /\ arrived' = arrived + 1
      /\ UNCHANGED <<channels, posts, now>>
  BY DEF Read, Arrive
<1>3. new \in Handler /\ new.at = "write" /\ new.id = p /\ new.row = row /\ new.asked = asked
  BY <1>1 DEF Handler
<1>4. CopySound(new)
  BY <1>1, <1>2, <1>3 DEF CopySound, Live, PostRow
<1> HIDE DEF new
<1> QED
  BY <1>1, <1>2, <1>3, <1>4, QuietSound DEF TypeOK

LEMMA UpdateNewsSound ==
  ASSUME PostsSound, NEW r \in Request, NEW p \in News, NEW status \in Optional(0 .. 2),
         NEW marked \in Optional({0, 1}), UpdateNews(r, p, status, marked)
  PROVE  PostsSound'
<1> DEFINE s == IF status \subseteq {0} THEN posts[p].status ELSE GivenOr(status, 0)
           m == GivenOr(marked, 0)
           row == [posts[p] EXCEPT !.status = s, !.marked = m]
<1>1. p \in Post /\ posts[p] \in PostRow /\ PostSound(p)
  BY DEF PostsSound, TypeOK, Post
<1>2. Live(p) /\ Read(r, p, row, status)
  BY DEF UpdateNews, Read
<1>3. posts[p].status # 0
  BY <1>1, <1>2 DEF PostSound, Live
<1>4. s \in -1 .. 2 /\ s # 0 /\ (s # posts[p].status => status = {s})
  <2>1. CASE status \subseteq {0}
    BY <1>1, <1>3, <2>1 DEF PostRow
  <2>2. CASE ~(status \subseteq {0})
    <3>1. status # {} /\ GivenOr(status, 0) \in 0 .. 2 /\ status = {GivenOr(status, 0)}
      BY <2>2, Given
    <3> QED
      BY <2>2, <3>1
  <2> QED
    BY <2>1, <2>2
<1>5. m \in {0, 1}
  BY Given
<1> HIDE DEF s, m
<1>6. /\ row \in PostRow /\ row.status = s
      /\ row.updated_at = posts[p].updated_at
  BY <1>1, <1>4, <1>5 DEF PostRow
<1> HIDE DEF row
<1>7. status \in SUBSET (0 .. 2)
  BY DEF Optional
<1> QED
  BY <1>2, <1>4, <1>6, <1>7, ReadSound

LEMMA UpdateReplySound ==
  ASSUME PostsSound, NEW r \in Request, NEW p \in Rule, NEW status \in Optional(0 .. 1),
         UpdateReply(r, p, status)
  PROVE  PostsSound'
<1> DEFINE s == GivenOr(status, posts[p].status)
           row == [posts[p] EXCEPT !.status = s]
<1>1. p \in Post /\ posts[p] \in PostRow /\ p \notin News
  BY PostIds DEF PostsSound, TypeOK, Post
<1>2. Read(r, p, row, status)
  BY DEF UpdateReply
<1>3. s \in -1 .. 2 /\ (s # posts[p].status => status = {s})
  BY <1>1, Given DEF PostRow
<1> HIDE DEF s
<1>4. row \in PostRow /\ row.status = s /\ row.updated_at = posts[p].updated_at
  BY <1>1, <1>3 DEF PostRow
<1> HIDE DEF row
<1>5. status \in SUBSET (0 .. 2)
  BY DEF Optional
<1> QED
  BY <1>1, <1>2, <1>3, <1>4, <1>5, ReadSound

\* The statement that ends an update.
LEMMA WriteBackSound ==
  ASSUME PostsSound, NEW r \in Request, WriteBack(r)
  PROVE  PostsSound'
<1> DEFINE p == req[r].id
           copy == req[r].row
           row == [posts[p] EXCEPT !.status = copy.status, !.marked = copy.marked]
<1>1. TypeOK /\ CopySound(req[r]) /\ req[r].at = "write"
  BY DEF PostsSound, WriteBack
<1>2. /\ p \in News \cup Rule /\ p \in Post /\ copy \in PostRow /\ p \notin Article
      /\ p \in News => copy.status # 0
  BY <1>1, PostIds DEF CopySound, TypeOK, Handler, Post
<1>3. posts[p] \in PostRow /\ channels' = channels /\ arrived' \in Nat
  BY <1>1, <1>2 DEF TypeOK, WriteBack
<1>4. /\ req' \in [Request -> Handler]
      /\ \A q \in Request : req'[q] = req[q] \/ req'[q] = Idle
  BY <1>1, IdleHandler DEF TypeOK, WriteBack
<1>5. CASE Live(p)
  <2>1. Write(p, row)
    BY <1>5 DEF WriteBack
  <2> HIDE DEF p, copy
  <2>2. row \in PostRow /\ row.status = copy.status /\ row.phase = posts[p].phase
    BY <1>2, <1>3 DEF PostRow
  <2>3. row.phase # "absent"
    BY <1>5, <2>2 DEF Live
  <2> HIDE DEF row
  <2> QED
    BY <1>2, <1>3, <1>4, <2>1, <2>2, <2>3, WriteSound
<1>6. CASE ~Live(p)
  <2>1. UNCHANGED <<posts, now>>
    BY <1>6 DEF WriteBack
  <2> QED
    BY <1>1, <1>3, <1>4, <2>1, QuietSound, IdleSound DEF TypeOK
<1> QED
  BY <1>5, <1>6

LEMMA WriteFailsSound ==
  ASSUME PostsSound, NEW r \in Request, WriteFails(r)
  PROVE  PostsSound'
<1>1. TypeOK
  BY DEF PostsSound
<1>2. /\ req' \in [Request -> Handler]
      /\ \A q \in Request : req'[q] = req[q] \/ req'[q] = Idle
  BY <1>1, IdleHandler DEF TypeOK, WriteFails
<1> QED
  BY <1>1, <1>2, QuietSound, IdleSound DEF TypeOK, WriteFails

LEMMA NewPostRow ==
  ASSUME NEW status \in -1 .. 2, NEW marked \in {0, 1}, NEW channel \in Channel \cup {None},
         NEW at \in Nat
  PROVE  LET row == NewPost(status, marked, channel, at) IN
         /\ row \in PostRow /\ row.phase = "live" /\ row.status = status
         /\ row.channel = channel /\ row.published_at = at
  BY DEF NewPost, PostRow, Phase

LEMMA CreatePostSound ==
  ASSUME PostsSound, NEW p \in News \cup Rule, NEW status \in 0 .. 2, NEW marked \in {0, 1},
         CreatePost(p, status, marked)
  PROVE  PostsSound'
<1> DEFINE s == IF status = 0 THEN 1 ELSE status
           row == NewPost(s, marked, None, 0)
<1>1. TypeOK /\ p \in Post /\ p \notin Article
  BY PostIds DEF PostsSound, Post
<1>2. Write(p, row) /\ arrived' = arrived + 1 /\ UNCHANGED <<channels, req>>
  BY DEF CreatePost, Arrive
<1>3. s \in -1 .. 2 /\ s # 0
  OBVIOUS
<1> HIDE DEF s
<1>4. row \in PostRow /\ row.phase = "live" /\ row.status = s
  BY <1>3, NewPostRow
<1> HIDE DEF row
<1> QED
  BY <1>1, <1>2, <1>3, <1>4, WriteSound DEF TypeOK

LEMMA CreateArticleSound ==
  ASSUME PostsSound, NEW p \in Article, NEW channel \in Channel \cup {None},
         NEW status \in -1 .. 1, NEW marked \in {0, 1}, CreateArticle(p, channel, status, marked)
  PROVE  PostsSound'
<1> DEFINE at == IF status = 1 THEN now + 1 ELSE 0
           row == NewPost(status, marked, channel, at)
<1>1. TypeOK /\ p \in Post /\ p \notin News
  BY PostIds DEF PostsSound, Post
<1>2. Write(p, row) /\ arrived' = arrived + 1 /\ UNCHANGED <<channels, req>>
  BY DEF CreateArticle, Arrive
<1>3. at \in Nat /\ (status = 1 => at # 0)
  BY <1>1 DEF TypeOK
<1> HIDE DEF at
<1>4. /\ row \in PostRow /\ row.phase = "live" /\ row.status = status
      /\ row.published_at = at
  BY <1>3, NewPostRow
<1> HIDE DEF row
<1> QED
  BY <1>1, <1>2, <1>3, <1>4, WriteSound DEF TypeOK

LEMMA SaveTemplateSound ==
  ASSUME PostsSound, NEW p \in Article, SaveTemplate(p)
  PROVE  PostsSound'
<1> DEFINE row == NewPost(1, 1, None, 0)
<1>1. TypeOK /\ p \in Post /\ p \notin News
  BY PostIds DEF PostsSound, Post
<1>2. Write(p, row) /\ arrived' = arrived + 1 /\ UNCHANGED <<channels, req>>
  BY DEF SaveTemplate, Arrive
<1>3. row \in PostRow /\ row.phase = "live" /\ row.channel = None
  BY NewPostRow
<1> HIDE DEF row
<1> QED
  BY <1>1, <1>2, <1>3, WriteSound DEF TypeOK

LEMMA UpdateArticleSound ==
  ASSUME PostsSound, NEW p \in Article, NEW status \in Optional(-1 .. 1),
         NEW marked \in Optional({0, 1}), UpdateArticle(p, status, marked)
  PROVE  PostsSound'
<1> DEFINE sent == GivenOr(status, 0)
           s == UnlessNegative(sent, posts[p].status)
           m == GivenOr(marked, 0)
           at == IF sent = 1 THEN now + 1 ELSE posts[p].published_at
           row == [posts[p] EXCEPT !.status = s, !.marked = m, !.published_at = at]
<1>1. TypeOK /\ p \in Post /\ p \notin News /\ posts[p] \in PostRow /\ now \in Nat /\ PostSound(p)
  BY PostIds DEF PostsSound, Post, TypeOK
<1>2. Live(p) /\ Write(p, row) /\ arrived' = arrived + 1 /\ UNCHANGED <<channels, req>>
  BY DEF UpdateArticle, Arrive
<1>3. sent \in -1 .. 1 /\ m \in {0, 1}
  BY Given
<1> HIDE DEF sent, m
<1>4. s \in -1 .. 2 /\ (s = 1 => sent = 1 \/ posts[p].status = 1)
  BY <1>1, <1>3, Negative DEF PostRow
<1> HIDE DEF s
<1>5. at \in Nat /\ (s = 1 /\ posts[p].channel # None => at # 0)
  BY <1>1, <1>4 DEF PostRow, PostSound
<1> HIDE DEF at
<1>6. /\ row \in PostRow /\ row.phase = posts[p].phase /\ row.status = s
      /\ row.channel = posts[p].channel /\ row.published_at = at
  BY <1>1, <1>3, <1>4, <1>5 DEF PostRow
<1>7. row.phase # "absent"
  BY <1>2, <1>6 DEF Live
<1> HIDE DEF row
<1> QED
  BY <1>1, <1>2, <1>5, <1>6, <1>7, WriteSound DEF TypeOK

LEMMA DeletePostSound ==
  ASSUME PostsSound, NEW p \in Post, DeletePost(p)
  PROVE  PostsSound'
<1> DEFINE row == [posts[p] EXCEPT !.phase = "deleted"]
<1>1. TypeOK /\ posts[p] \in PostRow /\ PostSound(p)
  BY DEF PostsSound, TypeOK
<1>2. Live(p) /\ Write(p, row) /\ arrived' = arrived + 1 /\ UNCHANGED <<channels, req>>
  BY DEF DeletePost, Arrive
<1>3. /\ row \in PostRow /\ row.phase = "deleted" /\ row.status = posts[p].status
      /\ row.channel = posts[p].channel /\ row.published_at = posts[p].published_at
  BY <1>1 DEF PostRow, Phase
<1> HIDE DEF row
<1>4. /\ p \in Article /\ row.status = 1 /\ row.channel # None => row.published_at # 0
      /\ p \in News => row.status # 0
  BY <1>1, <1>2, <1>3 DEF PostSound, Live
<1> QED
  BY <1>1, <1>2, <1>3, <1>4, WriteSound DEF TypeOK

\* The channels, which no post depends on.
LEMMA ChannelsSound ==
  ASSUME PostsSound, Channels
  PROVE  PostsSound' /\ UNCHANGED <<posts, req, now>>
<1>1. TypeOK /\ channels \in [Channel -> ChannelRow]
  BY DEF PostsSound, TypeOK
<1>2. PICK c \in Channel :
        \/ \E a \in Account, p \in Channel \cup {None}, level \in Level :
             CreateChannel(c, a, p, level)
        \/ \E level \in Optional(Level) : UpdateChannel(c, level)
        \/ DeleteChannel(c)
  BY DEF Channels
<1>3. \E row \in ChannelRow : SetChannel(c, row)
  <2>1. CASE \E a \in Account, p \in Channel \cup {None}, level \in Level :
               CreateChannel(c, a, p, level)
    BY <2>1 DEF CreateChannel, ChannelRow, Phase
  <2>2. ASSUME NEW level \in Optional(Level), UpdateChannel(c, level)
        PROVE  \E row \in ChannelRow : SetChannel(c, row)
    <3> DEFINE l == UnlessNegative(GivenOr(level, 0), channels[c].level)
    <3>1. l \in Level
      BY <1>1, Given, Negative, BoundAssumption DEF Level, ChannelRow
    <3>2. SetChannel(c, [channels[c] EXCEPT !.level = l])
      BY <2>2 DEF UpdateChannel
    <3> HIDE DEF l
    <3>3. [channels[c] EXCEPT !.level = l] \in ChannelRow
      BY <1>1, <3>1 DEF ChannelRow
    <3> QED
      BY <3>2, <3>3
  <2>3. CASE DeleteChannel(c)
    <3>1. [channels[c] EXCEPT !.phase = "deleted"] \in ChannelRow
      BY <1>1 DEF ChannelRow, Phase
    <3> QED
      BY <2>3, <3>1 DEF DeleteChannel
  <2> QED
    BY <1>2, <2>1, <2>2, <2>3
<1>4. channels' \in [Channel -> ChannelRow] /\ UNCHANGED <<posts, req, now>>
  BY <1>1, <1>3 DEF SetChannel
<1>5. arrived' = arrived + 1
  BY <1>2 DEF CreateChannel, UpdateChannel, DeleteChannel, Arrive
<1> QED
  BY <1>1, <1>4, <1>5, QuietSound DEF TypeOK

-----------------------------------------------------------------------------
(* Every step *)

LEMMA InitSound == Init => PostsSound
<1> SUFFICES ASSUME Init PROVE PostsSound
  OBVIOUS
<1>1. NoChannel \in ChannelRow
  BY BoundAssumption DEF NoChannel, ChannelRow, Phase, Level
<1>2. TypeOK
  BY <1>1, IdleHandler DEF Init, TypeOK
<1>3. \A p \in Post : PostSound(p)
  BY DEF Init, PostSound, NoPost
<1>4. \A r \in Request : CopySound(req[r])
  BY IdleSound DEF Init
<1> QED
  BY <1>2, <1>3, <1>4 DEF PostsSound

LEMMA NextSound ==
  ASSUME PostsSound, [Next]_vars
  PROVE  PostsSound'
<1>1. CASE Channels
  BY <1>1, ChannelsSound
<1>2. CASE Articles
  BY <1>2, CreateArticleSound, SaveTemplateSound, UpdateArticleSound DEF Articles
<1>3. CASE NewsAndRules
  <2>1. \A p \in News, status \in 0 .. 2, marked \in {0, 1} :
          CreatePost(p, status, marked) => PostsSound'
    BY CreatePostSound
  <2>2. \A p \in Rule, status \in 0 .. 2 : CreatePost(p, status, 0) => PostsSound'
    BY CreatePostSound
  <2> QED
    BY <1>3, <2>1, <2>2, UpdateNewsSound, UpdateReplySound, WriteBackSound, WriteFailsSound
       DEF NewsAndRules
<1>4. CASE \E p \in Post : DeletePost(p)
  BY <1>4, DeletePostSound
<1>5. CASE UNCHANGED vars
  BY <1>5, QuietSound DEF vars, PostsSound, TypeOK
<1> QED
  BY <1>1, <1>2, <1>3, <1>4, <1>5 DEF Next

-----------------------------------------------------------------------------
(* Theorems *)

\* PostsSound: articles of a channel that are shown say since when, no news item is a draft,
\* and what an update is about to write fits its row (cms.go, news.go, reply.go).
THEOREM PostsStaySound == Spec => []PostsSound
<1>1. PostsSound /\ [Next]_vars => PostsSound'
  BY NextSound
<1> QED
  BY <1>1, InitSound, PTL DEF Spec

\* A row changes by its INSERT, or while it is live, and the status of a live
\* news item or rule only by the statement that ends an update.
LEMMA PostChanges ==
  ASSUME PostsSound, Next, NEW p \in Post, posts'[p] # posts[p]
  PROVE  \/ posts[p].phase = "absent"
         \/ /\ Live(p)
            /\ p \in News \cup Rule /\ posts'[p].status # posts[p].status =>
                 \E r \in Request : WriteBack(r) /\ req[r].id = p
<1>1. TypeOK /\ posts \in [Post -> PostRow]
  BY DEF PostsSound, TypeOK
<1>2. ASSUME NEW q \in Post, NEW row, Write(q, row)
      PROVE  q = p
  BY <1>1, <1>2 DEF Write
<1>3. CASE Channels
  BY <1>3, ChannelsSound
<1>4. CASE Articles
  <2>1. PICK q \in Article :
          \/ \E channel \in Channel \cup {None}, status \in -1 .. 1, marked \in {0, 1} :
               CreateArticle(q, channel, status, marked)
          \/ SaveTemplate(q)
          \/ \E status \in Optional(-1 .. 1), marked \in Optional({0, 1}) :
               UpdateArticle(q, status, marked)
    BY <1>4 DEF Articles
  <2>2. /\ posts[q].phase = "absent" \/ Live(q)
        /\ \E row : Write(q, row)
    BY <2>1 DEF CreateArticle, SaveTemplate, UpdateArticle
  <2> QED
    BY <1>2, <2>2, PostIds DEF Post
<1>5. CASE NewsAndRules
  <2>1. ASSUME NEW q \in News \cup Rule, NEW status, NEW marked, CreatePost(q, status, marked)
        PROVE  posts[p].phase = "absent"
    BY <1>2, <2>1 DEF CreatePost, Post
  <2>2. ASSUME NEW r \in Request, WriteBack(r)
        PROVE  Live(p) /\ req[r].id = p
    <3>1. req[r].id \in Post
      BY <1>1, <2>2 DEF PostsSound, CopySound, WriteBack, Post
    <3> QED
      BY <1>2, <2>2, <3>1 DEF WriteBack
  <2>3. \A r \in Request : ~WriteFails(r)
    BY DEF WriteFails
  <2>4. \A r \in Request : \A q, status, marked :
          ~UpdateNews(r, q, status, marked) /\ ~UpdateReply(r, q, status)
    BY DEF UpdateNews, UpdateReply, Read
  <2> QED
    BY <1>5, <2>1, <2>2, <2>3, <2>4 DEF NewsAndRules
<1>6. CASE \E q \in Post : DeletePost(q)
  <2>1. Live(p) /\ Write(p, [posts[p] EXCEPT !.phase = "deleted"])
    BY <1>2, <1>6 DEF DeletePost
  <2>2. [posts[p] EXCEPT !.phase = "deleted"] \in PostRow
    BY <1>1 DEF PostRow, Phase
  <2>3. posts'[p].status = posts[p].status
    BY <1>1, <2>1, <2>2, WriteRow DEF PostRow
  <2> QED
    BY <2>1, <2>3
<1> QED
  BY <1>3, <1>4, <1>5, <1>6 DEF Next

\* A channel changes by its INSERT or while it is live.
LEMMA ChannelChanges ==
  ASSUME TypeOK, Next, NEW c \in Channel, channels'[c] # channels[c]
  PROVE  channels[c].phase = "absent" \/ LiveChannel(c)
<1>1. CASE Channels
  <2>1. PICK d \in Channel :
          \/ \E a \in Account, p \in Channel \cup {None}, level \in Level :
               CreateChannel(d, a, p, level)
          \/ \E level \in Optional(Level) : UpdateChannel(d, level)
          \/ DeleteChannel(d)
    BY <1>1 DEF Channels
  <2>2. /\ channels[d].phase = "absent" \/ LiveChannel(d)
        /\ \E row : SetChannel(d, row)
    BY <2>1 DEF CreateChannel, UpdateChannel, DeleteChannel
  <2> QED
    BY <2>2 DEF SetChannel, TypeOK
<1>2. CASE ~Channels
  BY <1>2 DEF Next, Articles, CreateArticle, SaveTemplate, UpdateArticle, NewsAndRules,
              CreatePost, UpdateNews, UpdateReply, Read, WriteBack, WriteFails, DeletePost
<1> QED
  BY <1>1, <1>2

\* What is deleted stays as it is, though updates that read it before write back.
THEOREM DeletedForGood == Spec => DeletedStay
<1> DEFINE Stay ==
      /\ \A p \in Post : posts[p].phase = "deleted" => posts'[p] = posts[p]
      /\ \A c \in Channel : channels[c].phase = "deleted" => channels'[c] = channels[c]
<1>1. PostsSound /\ [Next]_vars => Stay
  <2> SUFFICES ASSUME PostsSound, [Next]_vars PROVE Stay
    OBVIOUS
  <2>1. CASE Next
    BY <2>1, PostChanges, ChannelChanges DEF Live, LiveChannel, PostsSound
  <2>2. CASE UNCHANGED vars
    BY <2>2 DEF vars
  <2> QED
    BY <2>1, <2>2
<1> QED
  BY <1>1, PostsStaySound, PTL DEF Spec, DeletedStay

\* A news item or a rule that is hidden is shown again only by an update that
\* asks for it or whose copy is out of date.
THEOREM HiddenUntilAsked == Spec => HiddenStays
<1> DEFINE Stays ==
      \A p \in News \cup Rule :
        Live(p) /\ posts[p].status # 1 /\ posts'[p].status = 1 =>
          \E r \in Request : /\ req[r].id = p /\ req'[r] = Idle
                             /\ \/ req[r].asked = {1}
                                \/ req[r].row.updated_at < posts[p].updated_at
<1>1. PostsSound /\ [Next]_vars => Stays
  <2> SUFFICES ASSUME PostsSound, [Next]_vars, NEW p \in News \cup Rule, Live(p),
                      posts[p].status # 1, posts'[p].status = 1
               PROVE  \E r \in Request :
                        /\ req[r].id = p /\ req'[r] = Idle
                        /\ \/ req[r].asked = {1}
                           \/ req[r].row.updated_at < posts[p].updated_at
    OBVIOUS
  <2>1. TypeOK /\ p \in Post /\ posts[p] \in PostRow
    BY DEF PostsSound, TypeOK, Post
  <2>2. Next
    BY DEF vars
  <2>3. PICK r \in Request : WriteBack(r) /\ req[r].id = p
    BY <2>1, <2>2, PostChanges DEF Live
  <2>4. req'[r] = Idle
    BY <2>1, <2>3 DEF WriteBack, TypeOK
  <2>5. CopySound(req[r]) /\ req[r].at = "write" /\ req[r].row \in PostRow
    BY <2>1, <2>3 DEF PostsSound, WriteBack, TypeOK, Handler
  <2>6. posts'[p].status = req[r].row.status
    <3> DEFINE copy == req[r].row
               row == [posts[p] EXCEPT !.status = copy.status, !.marked = copy.marked]
    <3>1. Write(p, row)
      BY <2>3 DEF WriteBack
    <3> HIDE DEF copy
    <3>2. row \in PostRow /\ row.status = copy.status
      BY <2>1, <2>5 DEF PostRow, copy
    <3> HIDE DEF row
    <3>3. posts'[p].status = row.status
      BY <2>1, <3>1, <3>2, WriteRow
    <3> QED
      BY <3>2, <3>3 DEF copy
  <2>7. \/ req[r].asked = {1}
        \/ req[r].row.updated_at < posts[p].updated_at
    BY <2>1, <2>3, <2>5, <2>6 DEF CopySound, PostRow
  <2> QED
    BY <2>3, <2>4, <2>7
<1> QED
  BY <1>1, PostsStaySound, PTL DEF Spec, HiddenStays

-----------------------------------------------------------------------------
(* Lines and trees, of a table R of channels *)

LineIn(R, c) ==
  {d \in Channel : \A S \in SUBSET Channel :
     c \in S /\ (\A e \in S : R[e].parent \in S \cup {None}) => d \in S}

RootsIn(R, a) == {c \in Channel : R[c].phase = "live" /\ R[c].account = a /\ R[c].parent = None}
BelowIn(R, S) == {c \in Channel : R[c].phase = "live" /\ R[c].parent \in S}
TreeIn(R, a) ==
  {c \in Channel : \A S \in SUBSET Channel : RootsIn(R, a) \cup BelowIn(R, S) \subseteq S => c \in S}

LEMMA TreesOf ==
  /\ \A c : Line(c) = LineIn(channels, c) /\ Line(c)' = LineIn(channels', c)
  /\ \A a : Roots(a) = RootsIn(channels, a)
  /\ \A a : GetChannelTree(a) = TreeIn(channels, a) /\ GetChannelTree(a)' = TreeIn(channels', a)
  /\ \A S : ChildrenIn(S) = BelowIn(channels, S)
  BY DEF Line, LineIn, Roots, RootsIn, ChildrenIn, BelowIn, GetChannelTree, TreeIn, LiveChannel

\* A line goes up to the parent, and is the smallest set that does.
LEMMA LineGoesUp ==
  ASSUME NEW R \in [Channel -> ChannelRow], NEW c \in Channel
  PROVE  /\ LineIn(R, c) \subseteq Channel /\ c \in LineIn(R, c)
         /\ \A d \in LineIn(R, c) : R[d].parent \in LineIn(R, c) \cup {None}
<1>1. ASSUME NEW d \in LineIn(R, c), R[d].parent # None
      PROVE  R[d].parent \in LineIn(R, c)
  <2>1. R[d].parent \in Channel
    BY <1>1 DEF ChannelRow, LineIn
  <2>2. ASSUME NEW S \in SUBSET Channel, c \in S, \A e \in S : R[e].parent \in S \cup {None}
        PROVE  R[d].parent \in S
    BY <1>1, <2>2 DEF LineIn
  <2> QED
    BY <2>1, <2>2 DEF LineIn
<1>2. LineIn(R, c) \subseteq Channel /\ c \in LineIn(R, c)
  BY DEF LineIn
<1> QED
  BY <1>1, <1>2

LEMMA LineSmallest ==
  ASSUME NEW R, NEW c, NEW S \in SUBSET Channel, c \in S, \A e \in S : R[e].parent \in S \cup {None}
  PROVE  LineIn(R, c) \subseteq S
  BY DEF LineIn

\* The line of a channel is the channel and the line of its parent.
LEMMA LineOfParent ==
  ASSUME NEW R \in [Channel -> ChannelRow], NEW c \in Channel
  PROVE  /\ R[c].parent = None => LineIn(R, c) = {c}
         /\ R[c].parent # None => LineIn(R, c) = {c} \cup LineIn(R, R[c].parent)
<1>1. ASSUME R[c].parent = None
      PROVE  LineIn(R, c) = {c}
  <2> DEFINE S == {c}
  <2>1. S \in SUBSET Channel /\ c \in S /\ \A e \in S : R[e].parent \in S \cup {None}
    BY <1>1
  <2> HIDE DEF S
  <2>2. LineIn(R, c) \subseteq S
    BY <2>1, LineSmallest
  <2> QED
    BY <2>2, LineGoesUp DEF S
<1>2. ASSUME R[c].parent # None
      PROVE  LineIn(R, c) = {c} \cup LineIn(R, R[c].parent)
  <2> DEFINE p == R[c].parent
             S == {c} \cup LineIn(R, p)
  <2>1. p \in Channel
    BY <1>2 DEF ChannelRow
  <2>2. /\ LineIn(R, p) \subseteq Channel /\ p \in LineIn(R, p)
        /\ \A d \in LineIn(R, p) : R[d].parent \in LineIn(R, p) \cup {None}
    BY <2>1, LineGoesUp
  <2>3. LineIn(R, c) \subseteq S
    <3>1. S \in SUBSET Channel /\ c \in S /\ \A e \in S : R[e].parent \in S \cup {None}
      BY <2>2
    <3> HIDE DEF S
    <3> QED
      BY <3>1, LineSmallest
  <2>4. LineIn(R, p) \subseteq LineIn(R, c)
    <3>1. /\ LineIn(R, c) \in SUBSET Channel /\ c \in LineIn(R, c)
          /\ \A d \in LineIn(R, c) : R[d].parent \in LineIn(R, c) \cup {None}
      BY LineGoesUp
    <3>2. p \in LineIn(R, c)
      BY <1>2, <3>1
    <3> HIDE DEF p
    <3> QED
      BY <3>1, <3>2, LineSmallest
  <2>5. c \in LineIn(R, c)
    BY LineGoesUp
  <2> QED
    BY <2>3, <2>4, <2>5
<1> QED
  BY <1>1, <1>2

\* A table that agrees on a line has the same line.
LEMMA SameLine ==
  ASSUME NEW R \in [Channel -> ChannelRow], NEW T \in [Channel -> ChannelRow], NEW c \in Channel,
         \A d \in LineIn(R, c) : T[d].parent = R[d].parent
  PROVE  LineIn(T, c) = LineIn(R, c)
<1>1. /\ LineIn(R, c) \in SUBSET Channel /\ c \in LineIn(R, c)
      /\ \A d \in LineIn(R, c) : T[d].parent \in LineIn(R, c) \cup {None}
  BY LineGoesUp
<1>2. LineIn(T, c) \subseteq LineIn(R, c)
  BY <1>1, LineSmallest
<1>3. /\ LineIn(T, c) \in SUBSET Channel /\ c \in LineIn(T, c)
      /\ \A d \in LineIn(T, c) : R[d].parent \in LineIn(T, c) \cup {None}
  BY <1>2, LineGoesUp
<1>4. LineIn(R, c) \subseteq LineIn(T, c)
  BY <1>3, LineSmallest
<1> QED
  BY <1>2, <1>4

\* The same of trees: what the recursive query starts with and goes on to, and no more.
LEMMA TreeGoesDown ==
  ASSUME NEW R, NEW a
  PROVE  /\ TreeIn(R, a) \subseteq Channel
         /\ RootsIn(R, a) \cup BelowIn(R, TreeIn(R, a)) \subseteq TreeIn(R, a)
<1>1. ASSUME NEW c \in BelowIn(R, TreeIn(R, a)), NEW S \in SUBSET Channel,
             RootsIn(R, a) \cup BelowIn(R, S) \subseteq S
      PROVE  c \in S
  <2>1. R[c].parent \in S /\ c \in Channel /\ R[c].phase = "live"
    BY <1>1 DEF BelowIn, TreeIn
  <2> QED
    BY <1>1, <2>1 DEF BelowIn
<1>2. BelowIn(R, TreeIn(R, a)) \subseteq Channel /\ RootsIn(R, a) \subseteq Channel
  BY DEF BelowIn, RootsIn
<1> QED
  BY <1>1, <1>2 DEF TreeIn

LEMMA TreeSmallest ==
  ASSUME NEW R, NEW a, NEW S \in SUBSET Channel, RootsIn(R, a) \cup BelowIn(R, S) \subseteq S
  PROVE  TreeIn(R, a) \subseteq S
  BY DEF TreeIn

\* The tree has the channels whose line is live and ends in a root of the account.
InLine(R, a, c) ==
  /\ \A d \in LineIn(R, c) : R[d].phase = "live"
  /\ \E d \in LineIn(R, c) : R[d].parent = None /\ R[d].account = a

LEMMA TreeByLines ==
  ASSUME NEW R \in [Channel -> ChannelRow], NEW a
  PROVE  TreeIn(R, a) = {c \in Channel : InLine(R, a, c)}
<1> DEFINE Q == {c \in Channel : InLine(R, a, c)}
<1>1. TreeIn(R, a) \subseteq Q
  <2>1. ASSUME NEW c \in RootsIn(R, a)
        PROVE  c \in Q
    <3>1. c \in Channel /\ LineIn(R, c) = {c}
      BY LineOfParent DEF RootsIn
    <3> QED
      BY <3>1 DEF RootsIn, InLine
  <2>2. ASSUME NEW c \in BelowIn(R, Q)
        PROVE  c \in Q
    <3>1. c \in Channel /\ R[c].phase = "live" /\ R[c].parent \in Q /\ R[c].parent # None
      BY IdAssumption DEF BelowIn
    <3>2. LineIn(R, c) = {c} \cup LineIn(R, R[c].parent)
      BY <3>1, LineOfParent
    <3> QED
      BY <3>1, <3>2 DEF InLine
  <2>3. Q \in SUBSET Channel /\ RootsIn(R, a) \cup BelowIn(R, Q) \subseteq Q
    BY <2>1, <2>2
  <2> HIDE DEF Q
  <2> QED
    BY <2>3, TreeSmallest
<1>2. ASSUME NEW c \in Q
      PROVE  c \in TreeIn(R, a)
  <2>1. SUFFICES ASSUME NEW S \in SUBSET Channel, RootsIn(R, a) \cup BelowIn(R, S) \subseteq S,
                        c \notin S
                 PROVE  FALSE
    BY DEF TreeIn
  <2>2. /\ LineIn(R, c) \in SUBSET Channel /\ c \in LineIn(R, c)
        /\ \A d \in LineIn(R, c) : R[d].parent \in LineIn(R, c) \cup {None}
    BY LineGoesUp
  <2>3. /\ \A d \in LineIn(R, c) : R[d].phase = "live"
        /\ \E d \in LineIn(R, c) : R[d].parent = None /\ R[d].account = a
    BY DEF InLine
  <2> DEFINE Z == LineIn(R, c) \ S
  <2>4. \A e \in Z : R[e].parent \in Z \cup {None}
    <3> SUFFICES ASSUME NEW e \in Z, R[e].parent \in S
                 PROVE  FALSE
      BY <2>2
    <3>1. e \in BelowIn(R, S)
      BY <2>2, <2>3 DEF BelowIn
    <3> QED
      BY <2>1, <3>1
  <2>5. LineIn(R, c) \subseteq Z
    <3>1. Z \in SUBSET Channel /\ c \in Z
      BY <2>1, <2>2
    <3> HIDE DEF Z
    <3> QED
      BY <2>4, <3>1, LineSmallest
  <2>6. PICK d \in LineIn(R, c) : R[d].parent = None /\ R[d].account = a
    BY <2>3
  <2>7. d \in RootsIn(R, a)
    BY <2>2, <2>3, <2>6 DEF RootsIn
  <2> QED
    BY <2>1, <2>5, <2>7
<1> QED
  BY <1>1, <1>2

\* The answer shows all rows of the query, from the roots of the account.
LEMMA AnswerWhole ==
  ASSUME channels \in [Channel -> ChannelRow], NEW a
  PROVE  LET rows == GetChannelTree(a) IN
         AnswerRoots(rows) = Roots(a) /\ buildChannelTree(rows) = rows
<1> DEFINE rows == GetChannelTree(a)
<1>1. /\ rows \subseteq Channel /\ Roots(a) \cup ChildrenIn(rows) \subseteq rows
      /\ \A S \in SUBSET Channel : Roots(a) \cup ChildrenIn(S) \subseteq S => rows \subseteq S
  BY TreesOf, TreeGoesDown, TreeSmallest
<1>2. rows \subseteq Roots(a) \cup ChildrenIn(rows)
  <2> DEFINE S == Roots(a) \cup ChildrenIn(rows)
  <2>1. S \in SUBSET Channel /\ S \subseteq rows
    BY <1>1 DEF Roots, ChildrenIn
  <2>2. ChildrenIn(S) \subseteq ChildrenIn(rows)
    BY <2>1 DEF ChildrenIn
  <2>3. Roots(a) \cup ChildrenIn(S) \subseteq S
    BY <2>2
  <2> HIDE DEF S, rows
  <2>4. rows \subseteq S
    BY <1>1, <2>1, <2>3
  <2> QED
    BY <2>4 DEF S
<1> HIDE DEF rows
<1>3. AnswerRoots(rows) = Roots(a)
  <2>1. ASSUME NEW c \in AnswerRoots(rows)
        PROVE  c \in Roots(a)
    BY <1>2 DEF AnswerRoots, ChildrenIn
  <2>2. ASSUME NEW c \in Roots(a)
        PROVE  c \in AnswerRoots(rows)
    BY <1>1, IdAssumption DEF AnswerRoots, Roots
  <2> QED
    BY <2>1, <2>2
<1>4. buildChannelTree(rows) = rows
  <2>1. ASSUME NEW S \in SUBSET rows, AnswerRoots(rows) \cup AnswerChildren(rows, S) \subseteq S
        PROVE  rows \subseteq S
    <3>1. ChildrenIn(S) \subseteq ChildrenIn(rows)
      BY DEF ChildrenIn
    <3>2. ChildrenIn(S) \subseteq AnswerChildren(rows, S)
      BY <1>1, <3>1 DEF ChildrenIn, AnswerChildren
    <3>3. Roots(a) \cup ChildrenIn(S) \subseteq S /\ S \in SUBSET Channel
      BY <1>1, <1>3, <2>1, <3>2
    <3> QED
      BY <1>1, <3>3
  <2> QED
    BY <2>1 DEF buildChannelTree
<1> QED
  BY <1>3, <1>4 DEF rows

-----------------------------------------------------------------------------
(* The table of channels only grows *)

\* A channel keeps its parent and its account and is not brought back; a new one
\* hangs below a channel that is there.
ChannelsGrow(R, T) ==
  /\ \A c \in Channel : R[c].phase # "absent" =>
       /\ T[c].phase # "absent" /\ T[c].parent = R[c].parent /\ T[c].account = R[c].account
       /\ T[c].phase = "live" => R[c].phase = "live"
  /\ \A c \in Channel : R[c].phase = "absent" /\ T[c].phase # "absent" /\ T[c].parent # None =>
       R[T[c].parent].phase # "absent"

LEMMA ChannelsOnlyGrow ==
  ASSUME TypeOK, [Next]_vars
  PROVE  ChannelsGrow(channels, channels')
<1>1. channels \in [Channel -> ChannelRow]
  BY DEF TypeOK
<1>2. CASE Channels
  <2>1. PICK c \in Channel :
          \/ \E a \in Account, p \in Channel \cup {None}, level \in Level :
               CreateChannel(c, a, p, level)
          \/ \E level \in Optional(Level) : UpdateChannel(c, level)
          \/ DeleteChannel(c)
    BY <1>2 DEF Channels
  <2>2. PICK row : SetChannel(c, row)
    BY <2>1 DEF CreateChannel, UpdateChannel, DeleteChannel
  <2>3. channels'[c] = row /\ \A d \in Channel \ {c} : channels'[d] = channels[d]
    BY <1>1, <2>2 DEF SetChannel
  <2>4. CASE \E a \in Account, p \in Channel \cup {None}, level \in Level :
               CreateChannel(c, a, p, level)
    <3>1. PICK a \in Account, p \in Channel \cup {None}, level \in Level :
                 CreateChannel(c, a, p, level)
      BY <2>4
    <3>2. /\ channels[c].phase = "absent" /\ (p # None => channels[p].phase # "absent")
          /\ channels'[c].parent = p
      BY <1>1, <3>1 DEF CreateChannel, SetChannel
    <3> QED
      BY <2>3, <3>2 DEF ChannelsGrow
  <2>5. CASE \E level \in Optional(Level) : UpdateChannel(c, level)
    <3>1. /\ channels[c].phase = "live" /\ channels'[c].phase = "live"
          /\ channels'[c].parent = channels[c].parent /\ channels'[c].account = channels[c].account
      BY <1>1, <2>5 DEF UpdateChannel, SetChannel, LiveChannel, ChannelRow
    <3> QED
      BY <2>3, <3>1 DEF ChannelsGrow
  <2>6. CASE DeleteChannel(c)
    <3>1. /\ channels[c].phase = "live" /\ channels'[c].phase = "deleted"
          /\ channels'[c].parent = channels[c].parent /\ channels'[c].account = channels[c].account
      BY <1>1, <2>6 DEF DeleteChannel, SetChannel, LiveChannel, ChannelRow
    <3> QED
      BY <2>3, <3>1 DEF ChannelsGrow
  <2> QED
    BY <2>1, <2>4, <2>5, <2>6
<1>3. CASE ~Channels
  <2>1. UNCHANGED channels
    BY <1>3 DEF Next, vars, Articles, CreateArticle, SaveTemplate, UpdateArticle, NewsAndRules,
                CreatePost, UpdateNews, UpdateReply, Read, WriteBack, WriteFails, DeletePost
  <2> QED
    BY <2>1 DEF ChannelsGrow
<1> QED
  BY <1>2, <1>3

\* Every line has its channels in the table and ends in a root.
LinesEnd(R) ==
  \A c \in Channel : R[c].phase # "absent" =>
    /\ R[c].parent # None => R[R[c].parent].phase # "absent"
    /\ \E d \in LineIn(R, c) : R[d].parent = None

LEMMA LineExists ==
  ASSUME NEW R \in [Channel -> ChannelRow], LinesEnd(R), NEW c \in Channel, R[c].phase # "absent"
  PROVE  \A d \in LineIn(R, c) : R[d].phase # "absent"
<1> DEFINE S == {d \in Channel : R[d].phase # "absent"}
<1>1. S \in SUBSET Channel /\ c \in S
  OBVIOUS
<1>2. \A e \in S : R[e].parent \in S \cup {None}
  BY DEF LinesEnd, ChannelRow
<1>3. LineIn(R, c) \subseteq S
  <2> HIDE DEF S
  <2> QED
    BY <1>1, <1>2, LineSmallest
<1> QED
  BY <1>3

\* The line of a channel that is there never changes.
LEMMA LineStays ==
  ASSUME NEW R \in [Channel -> ChannelRow], NEW T \in [Channel -> ChannelRow], LinesEnd(R),
         ChannelsGrow(R, T), NEW c \in Channel, R[c].phase # "absent"
  PROVE  LineIn(T, c) = LineIn(R, c)
<1>1. \A d \in LineIn(R, c) : d \in Channel /\ R[d].phase # "absent"
  BY LineExists, LineGoesUp
<1>2. \A d \in LineIn(R, c) : T[d].parent = R[d].parent
  BY <1>1 DEF ChannelsGrow
<1> QED
  BY <1>2, SameLine

LEMMA LinesStillEnd ==
  ASSUME NEW R \in [Channel -> ChannelRow], NEW T \in [Channel -> ChannelRow], LinesEnd(R),
         ChannelsGrow(R, T)
  PROVE  LinesEnd(T)
<1>1. ASSUME NEW c \in Channel, R[c].phase # "absent"
      PROVE  /\ T[c].parent # None => T[T[c].parent].phase # "absent"
             /\ \E d \in LineIn(T, c) : T[d].parent = None
  <2>1. T[c].parent = R[c].parent /\ T[c].parent \in Channel \cup {None}
    BY <1>1 DEF ChannelsGrow, ChannelRow
  <2>2. T[c].parent # None => T[T[c].parent].phase # "absent"
    BY <1>1, <2>1 DEF ChannelsGrow, LinesEnd
  <2>3. PICK d \in LineIn(R, c) : R[d].parent = None
    BY <1>1 DEF LinesEnd
  <2>4. d \in Channel /\ R[d].phase # "absent"
    BY <1>1, LineExists, LineGoesUp
  <2>5. d \in LineIn(T, c) /\ T[d].parent = None
    BY <1>1, <2>3, <2>4, LineStays DEF ChannelsGrow
  <2> QED
    BY <2>2, <2>5
<1>2. ASSUME NEW c \in Channel, R[c].phase = "absent", T[c].phase # "absent"
      PROVE  /\ T[c].parent # None => T[T[c].parent].phase # "absent"
             /\ \E d \in LineIn(T, c) : T[d].parent = None
  <2>1. CASE T[c].parent = None
    BY <2>1, LineGoesUp
  <2>2. CASE T[c].parent # None
    <3> DEFINE p == T[c].parent
    <3>1. p \in Channel /\ R[p].phase # "absent"
      BY <1>2, <2>2 DEF ChannelsGrow, ChannelRow
    <3>2. T[p].phase # "absent"
      BY <3>1 DEF ChannelsGrow
    <3>3. \E d \in LineIn(T, p) : T[d].parent = None
      BY <1>1, <3>1
    <3>4. LineIn(T, c) = {c} \cup LineIn(T, p)
      BY <2>2, LineOfParent
    <3> QED
      BY <3>2, <3>3, <3>4
  <2> QED
    BY <2>1, <2>2
<1> QED
  BY <1>1, <1>2 DEF LinesEnd

\* The whole of TreeWhole follows from where the lines end.
LEMMA TreesWhole ==
  ASSUME TypeOK, LinesEnd(channels)
  PROVE  TreeWhole
<1>1. channels \in [Channel -> ChannelRow]
  BY DEF TypeOK
<1>2. \A c \in Channel : channels[c].phase # "absent" =>
        \E d \in Line(c) : channels[d].parent = None
  BY TreesOf DEF LinesEnd
<1>3. ASSUME NEW a \in Account
      PROVE  GetChannelTree(a) = {c \in Channel : /\ \A d \in Line(c) : LiveChannel(d)
                                                  /\ \E d \in Line(c) : /\ channels[d].parent = None
                                                                        /\ channels[d].account = a}
  <2>1. \A c : Line(c) = LineIn(channels, c)
    BY TreesOf
  <2>2. GetChannelTree(a) = {c \in Channel : InLine(channels, a, c)}
    BY <1>1, TreesOf, TreeByLines
  <2> QED
    BY <2>1, <2>2 DEF InLine, LiveChannel
<1> QED
  BY <1>1, <1>2, <1>3, AnswerWhole DEF TreeWhole

\* A channel whose line is live in the later table has had it live in the earlier.
LEMMA TreesLose ==
  ASSUME NEW R \in [Channel -> ChannelRow], NEW T \in [Channel -> ChannelRow], LinesEnd(R),
         ChannelsGrow(R, T), NEW a, NEW c \in Channel, R[c].phase # "absent", c \in TreeIn(T, a)
  PROVE  c \in TreeIn(R, a)
<1>1. LineIn(T, c) = LineIn(R, c)
  BY LineStays
<1>2. \A d \in LineIn(R, c) : d \in Channel /\ R[d].phase # "absent"
  BY LineExists, LineGoesUp
<1>3. InLine(T, a, c)
  BY TreeByLines
<1>4. InLine(R, a, c)
  BY <1>1, <1>2, <1>3 DEF InLine, ChannelsGrow
<1> QED
  BY <1>4, TreeByLines

LEMMA LinesInv ==
  /\ Init => LinesEnd(channels)
  /\ TypeOK /\ TypeOK' /\ LinesEnd(channels) /\ [Next]_vars => LinesEnd(channels)'
<1>1. Init => LinesEnd(channels)
  BY DEF Init, NoChannel, LinesEnd
<1>2. ASSUME TypeOK, TypeOK', LinesEnd(channels), [Next]_vars
      PROVE  LinesEnd(channels)'
  <2>1. channels \in [Channel -> ChannelRow] /\ channels' \in [Channel -> ChannelRow]
    BY <1>2 DEF TypeOK
  <2>2. LinesEnd(channels')
    BY <1>2, <2>1, ChannelsOnlyGrow, LinesStillEnd
  <2> QED
    BY <2>2 DEF LinesEnd, LineIn
<1> QED
  BY <1>1, <1>2

\* From every channel the chain of parents ends in a root: no handler closes a
\* cycle, since a channel's parent is given once, before anything refers to it
\* (cms.go, CreateChannel).
THEOREM LinesAlwaysEnd == Spec => []LinesEnd(channels)
<1>1. PostsSound => TypeOK
  BY DEF PostsSound
<1> QED
  BY <1>1, LinesInv, PostsStaySound, PTL DEF Spec

\* No channel is its own ancestor, an account's tree has what hangs live below
\* its roots, and the answer shows all of it (cms.go, GetChannelTree and
\* buildChannelTree).
THEOREM TreesStayWhole == Spec => []TreeWhole
<1>1. PostsSound /\ LinesEnd(channels) => TreeWhole
  BY TreesWhole DEF PostsSound
<1> QED
  BY <1>1, LinesAlwaysEnd, PostsStaySound, PTL

\* A channel below a deleted one is in no tree for good (cms.go, DeleteChannel).
THEOREM LostStaysLost == Spec => LostForGood
<1> DEFINE Lost == \A c \in Channel : LiveChannel(c) /\ ~InSomeTree(c) => ~InSomeTree(c)'
<1>1. PostsSound /\ PostsSound' /\ LinesEnd(channels) /\ [Next]_vars => Lost
  <2> SUFFICES ASSUME PostsSound, PostsSound', LinesEnd(channels), [Next]_vars,
                      NEW c \in Channel, LiveChannel(c), InSomeTree(c)'
               PROVE  InSomeTree(c)
    OBVIOUS
  <2>1. /\ channels \in [Channel -> ChannelRow] /\ channels' \in [Channel -> ChannelRow]
        /\ ChannelsGrow(channels, channels')
    BY ChannelsOnlyGrow DEF PostsSound, TypeOK
  <2>2. PICK a \in Account : c \in GetChannelTree(a)'
    BY DEF InSomeTree
  <2>3. c \in TreeIn(channels', a)
    BY <2>2, TreesOf
  <2>4. c \in TreeIn(channels, a)
    BY <2>1, <2>3, TreesLose DEF LiveChannel
  <2> QED
    BY <2>4, TreesOf DEF InSomeTree
<1> QED
  BY <1>1, LinesAlwaysEnd, PostsStaySound, PTL DEF Spec, LostForGood

=============================================================================
