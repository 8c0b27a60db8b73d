------------------------------- MODULE Voting -------------------------------
(***************************************************************************)
(* Votes, their options and the votes cast (internal/handler/api/vote.go,  *)
(* tables votes, vote_options and vote_records).                           *)
(*                                                                         *)
(* No handler uses a transaction: an action is one SQL statement of one    *)
(* request.  A voter (an openid) may have several submissions in flight,   *)
(* and votes are edited meanwhile.  start_time and end_time only refuse    *)
(* submissions, as any submission here may come too late to be made; a     *)
(* vote's columns that no handler tests are left out.                      *)
(***************************************************************************)
EXTENDS Naturals, Sequences, FiniteSets

CONSTANTS
  Vote, NoVote,  \* ids of votes
  Option,        \* ids of options
  Voter,         \* openids
  Slot,          \* submissions a voter has in flight at once
  Editor,        \* requests of administrators in flight at once
  MaxVotes,         \* values given for max_votes; 0 stands for a negative one, no limit
  MaxChoices,       \* values given for max_choices, likewise (1 for a single-choice vote)
  Ballot,        \* the option_ids of a submission
  MaxEdit,       \* bound on the edits
  MaxFaults      \* bound on the statements that fail: a lost client or database

ASSUME IdAssumption ==
  NoVote \notin Vote /\ IsFiniteSet(Option) /\ IsFiniteSet(Voter) /\ IsFiniteSet(Slot)
ASSUME InputAssumption ==
  /\ MaxVotes \subseteq Nat
  /\ MaxChoices \subseteq Nat
  /\ Ballot \subseteq Seq(Option) \ {<<>>}
  /\ MaxEdit \in Nat
  /\ MaxFaults \in Nat

VARIABLES
  vote,      \* rows of votes
  optionOf,  \* vote_id of the rows of vote_options, NoVote when there is none
  used,      \* ids of options given out so far
  count,     \* vote_count of the options
  records,   \* number of vote_records by vote, option and voter
  submit,    \* SubmitVote requests
  edit,      \* CreateVote and UpdateVote requests
  edits,     \* edits so far
  faults     \* statements that failed so far

vars == <<vote, optionOf, used, count, records, submit, edit, edits, faults>>

\* A row of votes (exists is 0 once it is deleted, and before); status is
\* 0 for a draft, 1 while running, 2 when ended.
Row == [exists: {0, 1}, status: 0 .. 2, max_votes: Nat, choices: Nat, total: Nat]

NoRow == [exists |-> 0, status |-> 0, max_votes |-> 0, choices |-> 0, total |-> 0]

Steps == {"idle", "count", "insert", "option", "total"}
Submission == [at: Steps, vote: Vote \cup {NoVote}, options: Seq(Option), max_votes: Nat]
NoSubmission == [at |-> "idle", vote |-> NoVote, options |-> <<>>, max_votes |-> 0]

Edit == [at: {"idle", "delete", "create"}, vote: Vote \cup {NoVote}, left: Nat]
NoEdit == [at |-> "idle", vote |-> NoVote, left |-> 0]

OptionsOf(v) == {o \in Option : optionOf[o] = v}

\* The rows of vote_records for some votes, options and voters.
Rows(V, O, W) ==
  UNION {{<<v, o, w>>} \X (1 .. records[v][o][w]) : v \in V, o \in O, w \in W}

CountVotesByUser(v, w) == Cardinality(Rows({v}, Option, {w}))

RecordsOfOption(o) == Cardinality(Rows(Vote, {o}, Voter))

Fails == faults < MaxFaults /\ faults' = faults + 1

\* A statement that the database refuses when there is a reason to, or that fails.
RefusedIf(reason) == (reason /\ UNCHANGED faults) \/ Fails

-----------------------------------------------------------------------------
(* Administrators *)

\* CreateVote, the row; its options follow.
CreateVote(e, v, status, limit, choices, n) ==
  /\ edit[e].at = "idle" /\ edits < MaxEdit
  /\ vote[v] = NoRow
  /\ vote' = [vote EXCEPT ![v] = [exists |-> 1, status |-> status, max_votes |-> limit,
                                  choices |-> choices, total |-> 0]]
  /\ edit' = [edit EXCEPT ![e] = [at |-> "create", vote |-> v, left |-> n]]
  /\ edits' = edits + 1
  /\ UNCHANGED <<optionOf, used, count, records, submit, faults>>

\* UpdateVote, the row: max_votes and max_choices keep their values unless
\* given, the status of an omitted field is 0, a draft.  The options, when
\* some are given, are deleted and created anew.
UpdateVote(e, v, status, limit, choices, n) ==
  /\ edit[e].at = "idle" /\ edits < MaxEdit
  /\ vote[v].exists = 1
  /\ vote' = [vote EXCEPT ![v] = [@ EXCEPT !.status = status, !.max_votes = limit,
                                          !.choices = choices]]
  /\ edit' = [edit EXCEPT ![e] =
                IF n = 0 THEN NoEdit ELSE [at |-> "delete", vote |-> v, left |-> n]]
  /\ edits' = edits + 1
  /\ UNCHANGED <<optionOf, used, count, records, submit, faults>>

\* Mutant of DeleteOptionsByVoteID: the foreign key of vote_records cascades.
DeleteOptionsCascade(e) ==
  LET v == edit[e].vote IN
  /\ edit[e].at = "delete"
  /\ optionOf' = [o \in Option |-> IF optionOf[o] = v THEN NoVote ELSE optionOf[o]]
  /\ count' = [o \in Option |-> IF optionOf[o] = v THEN 0 ELSE count[o]]
  /\ edit' = [edit EXCEPT ![e].at = "create"]
  /\ UNCHANGED <<vote, used, records, submit, edits, faults>>

Referenced(o) == \E v \in Vote, w \in Voter : records[v][o][w] > 0

\* One DELETE: it fails as a whole when a record refers to one of the options
\* (fk_vote_records_option), and the handler does not look at the error.
DeleteOptionsByVoteID(e) ==
  LET v == edit[e].vote IN
  /\ edit[e].at = "delete"
  /\ \/ /\ \A o \in OptionsOf(v) : ~Referenced(o)
        /\ optionOf' = [o \in Option |-> IF optionOf[o] = v THEN NoVote ELSE optionOf[o]]
        /\ count' = [o \in Option |-> IF optionOf[o] = v THEN 0 ELSE count[o]]
        /\ UNCHANGED faults
     \/ /\ RefusedIf(\E o \in OptionsOf(v) : Referenced(o))
        /\ UNCHANGED <<optionOf, count>>
  /\ edit' = [edit EXCEPT ![e].at = "create"]
  /\ UNCHANGED <<vote, used, records, submit, edits>>

OptionCreated(r) == IF r.left = 1 THEN NoEdit ELSE [r EXCEPT !.left = @ - 1]

\* The next option of an edit; a failure is not looked at either.
CreateOption(e) ==
  /\ edit[e].at = "create"
  /\ \/ \E o \in Option \ used :
          /\ optionOf' = [optionOf EXCEPT ![o] = edit[e].vote]
          /\ used' = used \cup {o}
          /\ UNCHANGED faults
     \/ /\ Fails
        /\ UNCHANGED <<optionOf, used>>
  /\ edit' = [edit EXCEPT ![e] = OptionCreated(@)]
  /\ UNCHANGED <<vote, count, records, submit, edits>>

DeleteVote(v) ==
  /\ vote[v].exists = 1 /\ edits < MaxEdit
  /\ vote' = [vote EXCEPT ![v] = [@ EXCEPT !.exists = 0]]
  /\ edits' = edits + 1
  /\ UNCHANGED <<optionOf, used, count, records, submit, edit, faults>>

-----------------------------------------------------------------------------
(* SubmitVote *)

Request(w, s, rec) == submit' = [submit EXCEPT ![w][s] = rec]

\* GetVote and the checks on the row it read.
ReadVote(w, s, v, ballot) ==
  /\ submit[w][s].at = "idle"
  /\ vote[v].exists = 1 /\ vote[v].status = 1
  /\ vote[v].choices > 0 => Len(ballot) <= vote[v].choices
  /\ Request(w, s, [at |-> "count", vote |-> v, options |-> ballot,
                    max_votes |-> vote[v].max_votes])
  /\ UNCHANGED <<vote, optionOf, used, count, records, edit, edits, faults>>

\* Mutant of WithinLimit: one more than the limit.
WithinLimitOrAt(r, w) == r.max_votes > 0 => CountVotesByUser(r.vote, w) <= r.max_votes

WithinLimit(r, w) == r.max_votes > 0 => CountVotesByUser(r.vote, w) < r.max_votes

\* CountVotesByUser against the limit read before.  Without a limit the query is
\* not made, and its failure stands for that of the first INSERT.
CheckMaxVotes(w, s) ==
  LET r == submit[w][s] IN
  /\ r.at = "count"
  /\ \/ /\ WithinLimit(r, w)
        /\ Request(w, s, [r EXCEPT !.at = "insert"])
        /\ UNCHANGED faults
     \/ /\ RefusedIf(~WithinLimit(r, w))
        /\ Request(w, s, NoSubmission)
  /\ UNCHANGED <<vote, optionOf, used, count, records, edit, edits>>

\* Mutant of InsertRecord: the option is not checked.
InsertAnyRecord(w, s) ==
  LET r == submit[w][s]
      o == Head(r.options) IN
  /\ r.at = "insert"
  /\ records' = [records EXCEPT ![r.vote][o][w] = @ + 1]
  /\ Request(w, s, [r EXCEPT !.at = "option"])
  /\ UNCHANGED <<vote, optionOf, used, count, edit, edits, faults>>

\* INSERT INTO vote_records: the option must exist, of whichever vote.
InsertRecord(w, s) ==
  LET r == submit[w][s]
      o == Head(r.options) IN
  /\ r.at = "insert"
  /\ \/ /\ optionOf[o] # NoVote
        /\ records' = [records EXCEPT ![r.vote][o][w] = @ + 1]
        /\ Request(w, s, [r EXCEPT !.at = "option"])
        /\ UNCHANGED faults
     \/ /\ RefusedIf(optionOf[o] = NoVote)
        /\ Request(w, s, NoSubmission)
        /\ UNCHANGED records
  /\ UNCHANGED <<vote, optionOf, used, count, edit, edits>>

\* Mutant of CountOption: vote_count is computed from the records.
CountOptionAnew(w, s) ==
  LET r == submit[w][s]
      o == Head(r.options) IN
  /\ r.at = "option"
  /\ count' = [count EXCEPT ![o] = RecordsOfOption(o)]
  /\ Request(w, s, [r EXCEPT !.at = "total"])
  /\ UNCHANGED <<vote, optionOf, used, records, edit, edits, faults>>

\* vote_count = vote_count + 1: an error is dropped.
CountOption(w, s) ==
  LET r == submit[w][s] IN
  /\ r.at = "option"
  /\ \/ count' = [count EXCEPT ![Head(r.options)] = @ + 1] /\ UNCHANGED faults
     \/ Fails /\ UNCHANGED count
  /\ Request(w, s, [r EXCEPT !.at = "total"])
  /\ UNCHANGED <<vote, optionOf, used, records, edit, edits>>

Totalled(row) == [row EXCEPT !.total = @ + 1]

\* total_votes = total_votes + 1, and on to the next option.
CountTotal(w, s) ==
  LET r == submit[w][s] IN
  /\ r.at = "total"
  /\ \/ vote' = [vote EXCEPT ![r.vote] = Totalled(@)] /\ UNCHANGED faults
     \/ Fails /\ UNCHANGED vote
  /\ Request(w, s, IF Len(r.options) = 1 THEN NoSubmission
                   ELSE [r EXCEPT !.at = "insert", !.options = Tail(@)])
  /\ UNCHANGED <<optionOf, used, count, records, edit, edits>>

-----------------------------------------------------------------------------
Init ==
  /\ vote = [v \in Vote |-> NoRow]
  /\ optionOf = [o \in Option |-> NoVote]
  /\ used = {}
  /\ count = [o \in Option |-> 0]
  /\ records = [v \in Vote |-> [o \in Option |-> [w \in Voter |-> 0]]]
  /\ submit = [w \in Voter |-> [s \in Slot |-> NoSubmission]]
  /\ edit = [e \in Editor |-> NoEdit]
  /\ edits = 0
  /\ faults = 0

Administrate ==
  \/ \E e \in Editor, v \in Vote, status \in 0 .. 2, limit \in MaxVotes, choices \in MaxChoices,
        n \in 0 .. Cardinality(Option) :
       \/ n > 0 /\ CreateVote(e, v, status, limit, choices, n)
       \/ UpdateVote(e, v, status, limit, choices, n)
  \/ \E e \in Editor : DeleteOptionsByVoteID(e) \/ CreateOption(e)
  \/ \E v \in Vote : DeleteVote(v)

SubmitVote(w, s) ==
  \/ \E v \in Vote, ballot \in Ballot : ReadVote(w, s, v, ballot)
  \/ CheckMaxVotes(w, s) \/ InsertRecord(w, s) \/ CountOption(w, s) \/ CountTotal(w, s)

Next == Administrate \/ \E w \in Voter, s \in Slot : SubmitVote(w, s)

Spec == Init /\ [][Next]_vars

-----------------------------------------------------------------------------
(* Properties *)

TypeOK ==
  /\ vote \in [Vote -> Row]
  /\ optionOf \in [Option -> Vote \cup {NoVote}]
  /\ used \in SUBSET Option
  /\ count \in [Option -> Nat]
  /\ records \in [Vote -> [Option -> [Voter -> Nat]]]
  /\ submit \in [Voter -> [Slot -> Submission]]
  /\ edit \in [Editor -> Edit]
  /\ edits \in Nat
  /\ faults \in Nat

\* What makes VotesNeverLost hold: a counter above zero and a submission that
\* is about to count are backed by a record, and an option with a record
\* exists, so that the foreign key keeps it.
CounterBacked(o) == count[o] > 0 => Referenced(o)

OptionSound(o) ==
  /\ Referenced(o) => optionOf[o] # NoVote
  /\ optionOf[o] # NoVote => o \in used

SubmissionSound(w, r) ==
  /\ r.at # "idle" => r.vote \in Vote /\ r.options # <<>>
  /\ r.at = "option" => records[r.vote][Head(r.options)][w] > 0

EditSound(r) == r.at # "idle" => r.vote \in Vote /\ r.left > 0

VotesBacked ==
  /\ \A o \in Option : CounterBacked(o) /\ OptionSound(o)
  /\ \A w \in Voter, s \in Slot : SubmissionSound(w, submit[w][s])
  /\ \A e \in Editor : EditSound(edit[e])

VInv == TypeOK /\ VotesBacked

InFlight == Voter \X Slot

\* The submissions that have written their record and not yet counted it.
Uncounted(o) == {x \in InFlight : LET r == submit[x[1]][x[2]] IN
                   r.at = "option" /\ Head(r.options) = o}
Untotalled(v) == {x \in InFlight : LET r == submit[x[1]][x[2]] IN
                   r.at \in {"option", "total"} /\ r.vote = v}

RecordsOfVote(v) == Cardinality(Rows({v}, Option, Voter))

\* The two redundant counters follow the records: they are never ahead of
\* them, and without a failed statement they are behind only by what is being
\* counted, whatever submissions and edits run at once.
CountersFollowRecords ==
  /\ \A o \in Option :
       /\ count[o] + Cardinality(Uncounted(o)) <= RecordsOfOption(o)
       /\ faults = 0 => count[o] + Cardinality(Uncounted(o)) = RecordsOfOption(o)
  /\ \A v \in Vote :
       /\ vote[v].total + Cardinality(Untotalled(v)) <= RecordsOfVote(v)
       /\ faults = 0 => vote[v].total + Cardinality(Untotalled(v)) = RecordsOfVote(v)

\* With a fixed limit: the submissions of a voter that run at once may all be
\* let through by the same count, and take the records beyond max_votes by
\* the choices of each, but the next ones are refused.
RecordsLimited ==
  \A v \in Vote, w \in Voter :
    CountVotesByUser(v, w) > 0 /\ vote[v].max_votes > 0 /\ vote[v].choices > 0 =>
      CountVotesByUser(v, w) < vote[v].max_votes + vote[v].choices * Cardinality(Slot)

\* A vote that has been counted stays: its option is not deleted and its
\* counter does not fall, however votes are edited meanwhile.
VotesNeverLost ==
  [][\A o \in Option : count[o] > 0 => optionOf'[o] = optionOf[o] /\ count'[o] >= count[o]]_vars

\* The tables as BallotBox sees them: the requests in flight left out.
voteTotals == [v \in Vote |-> vote[v].total]

Box == INSTANCE BallotBox WITH
  offered <- optionOf, given <- used, cast <- Rows(Vote, Option, Voter),
  counted <- count, totals <- voteTotals

\* Whatever submissions, edits and failing statements interleave, the tables
\* behave as BallotBox says: each statement of vote.go is one of its steps, or
\* changes nothing that it promises.
ImplementsBallotBox == Box!Spec
=============================================================================
