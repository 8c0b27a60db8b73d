---------------------------- MODULE VotingProofs ----------------------------
(***************************************************************************)
(* A vote that was counted is never lost, whatever submissions and edits   *)
(* run at once and whichever statements fail: proofs about Voting.         *)
(*                                                                         *)
(* The argument is the foreign key's.  An option's counter is above zero   *)
(* only with a record of the option behind it (VotesBacked), records are   *)
(* never deleted, and DeleteOptionsByVoteID deletes nothing when one of    *)
(* the options is referenced.                                              *)
(*                                                                         *)
(* The counters are compared with the rows of vote_records as a set: each  *)
(* insert adds one row and one submission that has it to count (CInv).     *)
(* So a submission that counts has a row its counter has not got yet, and  *)
(* each statement is a step of BallotBox or a stutter.                     *)
(* For the limit, what the submissions that were let through may still     *)
(* write is counted with what is there (LInv).                             *)
(***************************************************************************)
EXTENDS Voting, FiniteSetTheorems, SequenceTheorems, TLAPS

\* The initial state has no record and no counter.
LEMMA InitVInv == Init => VInv
<1> SUFFICES ASSUME Init PROVE VInv
  OBVIOUS
<1>1. TypeOK
  BY InputAssumption DEF Init, TypeOK, Row, NoRow, Submission, NoSubmission, Steps, Edit, NoEdit
<1>2. VotesBacked
  BY DEF Init, VotesBacked, CounterBacked, OptionSound, SubmissionSound, EditSound, Referenced,
         NoSubmission, NoEdit
<1> QED
  BY <1>1, <1>2 DEF VInv

-----------------------------------------------------------------------------
(* What the assignments do *)

\* Failures are counted.
LEMMA FaultType ==
  ASSUME VInv, UNCHANGED faults \/ Fails
  PROVE  faults' \in Nat
  BY DEF VInv, TypeOK, Fails

\* Request replaces one submission.
LEMMA RequestEffect ==
  ASSUME TypeOK, NEW w \in Voter, NEW s \in Slot, NEW r \in Submission, Request(w, s, r)
  PROVE  /\ submit' \in [Voter -> [Slot -> Submission]]
         /\ submit'[w][s] = r
         /\ \A x \in Voter, t \in Slot : ~(x = w /\ t = s) => submit'[x][t] = submit[x][t]
  BY DEF TypeOK, Request

\* An edit goes on with a row of its own.
LEMMA EditEffect ==
  ASSUME TypeOK, VotesBacked, NEW e \in Editor, NEW r \in Edit, EditSound(r),
         edit' = [edit EXCEPT ![e] = r]
  PROVE  edit' \in [Editor -> Edit] /\ \A f \in Editor : EditSound(edit'[f])
<1>1. edit' \in [Editor -> Edit] /\ edit'[e] = r /\ \A f \in Editor : f # e => edit'[f] = edit[f]
  BY DEF TypeOK
<1> QED
  BY <1>1 DEF VotesBacked

\* While no record is written, the submissions stay sound if the new one is.
LEMMA SubmissionsStaySound ==
  ASSUME TypeOK, VotesBacked, NEW w \in Voter, NEW s \in Slot, NEW r \in Submission,
         Request(w, s, r), UNCHANGED records, SubmissionSound(w, r)
  PROVE  \A x \in Voter, t \in Slot : SubmissionSound(x, submit[x][t])'
<1> SUFFICES ASSUME NEW x \in Voter, NEW t \in Slot
             PROVE  SubmissionSound(x, submit[x][t])'
  OBVIOUS
<1>1. CASE x = w /\ t = s
  BY <1>1, RequestEffect DEF SubmissionSound
<1>2. CASE ~(x = w /\ t = s)
  BY <1>2, RequestEffect DEF SubmissionSound, VotesBacked
<1> QED
  BY <1>1, <1>2

\* Without a change to records, options and counters.
LEMMA OptionsStaySound ==
  ASSUME VotesBacked, UNCHANGED <<records, optionOf, used, count>>
  PROVE  \A o \in Option : CounterBacked(o)' /\ OptionSound(o)'
  BY DEF VotesBacked, CounterBacked, OptionSound, Referenced

\* With a record of one option that exists.
LEMMA OneMoreReferenced ==
  ASSUME VotesBacked, NEW o \in Option, optionOf[o] # NoVote,
         UNCHANGED <<optionOf, used, count>>,
         \A p \in Option : /\ Referenced(p) => Referenced(p)'
                           /\ Referenced(p)' => Referenced(p) \/ p = o
  PROVE  \A p \in Option : CounterBacked(p)' /\ OptionSound(p)'
  BY DEF VotesBacked, CounterBacked, OptionSound

LEMMA SubmissionsUntouched ==
  ASSUME VotesBacked, UNCHANGED <<records, submit>>
  PROVE  \A w \in Voter, s \in Slot : SubmissionSound(w, submit[w][s])'
  BY DEF VotesBacked, SubmissionSound

\* The vote and the option a submission is at, while it is under way.
LEMMA CurrentOption ==
  ASSUME VInv, NEW w \in Voter, NEW s \in Slot, submit[w][s].at # "idle"
  PROVE  /\ submit[w][s] \in Submission
         /\ submit[w][s].vote \in Vote
         /\ submit[w][s].options \in Seq(Option) \ {<<>>}
         /\ Head(submit[w][s].options) \in Option
<1>1. submit[w][s] \in Submission
  BY DEF VInv, TypeOK
<1>2. SubmissionSound(w, submit[w][s])
  BY DEF VInv, VotesBacked
<1> QED
  BY <1>1, <1>2 DEF Submission, SubmissionSound

-----------------------------------------------------------------------------
(* Administrators: the records stay, so a referenced option stays one *)

LEMMA CreateVoteVInv ==
  ASSUME VInv, NEW e \in Editor, NEW v \in Vote, NEW status \in 0 .. 2,
         NEW limit \in MaxVotes, NEW choices \in MaxChoices, NEW n \in Nat, n > 0,
         CreateVote(e, v, status, limit, choices, n)
  PROVE  VInv'
<1> DEFINE r == [at |-> "create", vote |-> v, left |-> n]
<1>1. r \in Edit /\ EditSound(r)
  BY DEF Edit, EditSound
<1>2. edit' \in [Editor -> Edit] /\ \A f \in Editor : EditSound(edit'[f])
  BY <1>1, EditEffect DEF VInv, CreateVote
<1>3. vote' \in [Vote -> Row] /\ edits' \in Nat
  BY InputAssumption DEF VInv, TypeOK, CreateVote, Row
<1>4. UNCHANGED <<optionOf, used, count, records, submit, faults>>
  BY DEF CreateVote
<1> QED
  BY <1>2, <1>3, <1>4, OptionsStaySound, SubmissionsUntouched
     DEF VInv, TypeOK, VotesBacked, EditSound

LEMMA UpdateVoteVInv ==
  ASSUME VInv, NEW e \in Editor, NEW v \in Vote, NEW status \in 0 .. 2,
         NEW limit \in MaxVotes, NEW choices \in MaxChoices, NEW n \in Nat,
         UpdateVote(e, v, status, limit, choices, n)
  PROVE  VInv'
<1> DEFINE r == IF n = 0 THEN NoEdit ELSE [at |-> "delete", vote |-> v, left |-> n]
<1>1. r \in Edit /\ EditSound(r)
  BY DEF Edit, EditSound, NoEdit
<1>2. edit' \in [Editor -> Edit] /\ \A f \in Editor : EditSound(edit'[f])
  BY <1>1, EditEffect DEF VInv, UpdateVote
<1> DEFINE row == [vote[v] EXCEPT !.status = status, !.max_votes = limit, !.choices = choices]
<1>3. vote \in [Vote -> Row] /\ edits \in Nat
  BY DEF VInv, TypeOK
<1>4. row \in Row
  BY <1>3, InputAssumption DEF Row
<1>5. vote' \in [Vote -> Row] /\ edits' \in Nat
  BY <1>3, <1>4 DEF UpdateVote
<1>6. UNCHANGED <<optionOf, used, count, records, submit, faults>>
  BY DEF UpdateVote
<1> QED
  BY <1>2, <1>5, <1>6, OptionsStaySound, SubmissionsUntouched
     DEF VInv, TypeOK, VotesBacked, EditSound

LEMMA DeleteVoteVInv ==
  ASSUME VInv, NEW v \in Vote, DeleteVote(v)
  PROVE  VInv'
<1>1. vote \in [Vote -> Row] /\ edits \in Nat
  BY DEF VInv, TypeOK
<1>2. [vote[v] EXCEPT !.exists = 0] \in Row
  BY <1>1 DEF Row
<1>3. vote' \in [Vote -> Row] /\ edits' \in Nat
  BY <1>1, <1>2 DEF DeleteVote
<1>4. UNCHANGED <<optionOf, used, count, records, submit, edit, faults>>
  BY DEF DeleteVote
<1> QED
  BY <1>3, <1>4, OptionsStaySound, SubmissionsUntouched
     DEF VInv, TypeOK, VotesBacked, EditSound

LEMMA DeleteOptionsVInv ==
  ASSUME VInv, NEW e \in Editor, DeleteOptionsByVoteID(e)
  PROVE  VInv'
<1> DEFINE r == [edit[e] EXCEPT !.at = "create"]
<1>1. r \in Edit /\ EditSound(r) /\ edit' = [edit EXCEPT ![e] = r]
  BY DEF VInv, TypeOK, VotesBacked, Edit, EditSound, DeleteOptionsByVoteID, RefusedIf
<1>2. edit' \in [Editor -> Edit] /\ \A f \in Editor : EditSound(edit'[f])
  BY <1>1, EditEffect DEF VInv
<1>3. UNCHANGED <<vote, used, records, submit, edits>> /\ faults' \in Nat
  BY FaultType DEF DeleteOptionsByVoteID, RefusedIf
<1>4. optionOf \in [Option -> Vote \cup {NoVote}] /\ count \in [Option -> Nat]
  BY DEF VInv, TypeOK
<1>5. optionOf' \in [Option -> Vote \cup {NoVote}] /\ count' \in [Option -> Nat]
  BY <1>4 DEF DeleteOptionsByVoteID, RefusedIf
<1>6. \A o \in Option : /\ count'[o] > 0 => count[o] > 0
                        /\ Referenced(o) => optionOf'[o] = optionOf[o]
                        /\ optionOf'[o] # NoVote => optionOf[o] # NoVote
  BY DEF VInv, TypeOK, DeleteOptionsByVoteID, RefusedIf, OptionsOf
<1>7. \A o \in Option : Referenced(o)' = Referenced(o)
  BY <1>3 DEF Referenced
<1>8. \A o \in Option : CounterBacked(o)' /\ OptionSound(o)'
  BY <1>3, <1>6, <1>7 DEF VInv, VotesBacked, CounterBacked, OptionSound
<1> QED
  BY <1>2, <1>3, <1>5, <1>8, SubmissionsUntouched DEF VInv, TypeOK, VotesBacked, EditSound

LEMMA CreateOptionVInv ==
  ASSUME VInv, NEW e \in Editor, CreateOption(e)
  PROVE  VInv'
<1> DEFINE r == OptionCreated(edit[e])
<1>1. edit[e] \in Edit /\ edit[e].vote \in Vote /\ edit[e].left > 0
  BY DEF VInv, TypeOK, VotesBacked, EditSound, CreateOption
<1>2. r \in Edit /\ EditSound(r) /\ edit' = [edit EXCEPT ![e] = r]
  <2>1. edit' = [edit EXCEPT ![e] = r]
    BY DEF CreateOption
  <2>2. CASE edit[e].left = 1
    BY <2>1, <2>2 DEF Edit, EditSound, NoEdit, OptionCreated
  <2>3. CASE edit[e].left # 1
    BY <1>1, <2>1, <2>3 DEF Edit, EditSound, OptionCreated
  <2> QED
    BY <2>2, <2>3
<1>3. edit' \in [Editor -> Edit] /\ \A f \in Editor : EditSound(edit'[f])
  BY <1>2, EditEffect DEF VInv
<1>4. UNCHANGED <<vote, count, records, submit, edits>> /\ faults' \in Nat
  BY FaultType DEF CreateOption
<1>5. optionOf' \in [Option -> Vote \cup {NoVote}] /\ used' \in SUBSET Option
  BY <1>1 DEF VInv, TypeOK, CreateOption
<1>6. \A o \in Option : /\ optionOf[o] # NoVote => optionOf'[o] # NoVote
                        /\ optionOf'[o] # NoVote => optionOf[o] # NoVote \/ o \in used'
                        /\ o \in used => o \in used'
  BY <1>1, IdAssumption DEF VInv, TypeOK, CreateOption
<1>7. \A o \in Option : Referenced(o)' = Referenced(o)
  BY <1>4 DEF Referenced
<1>8. \A o \in Option : CounterBacked(o)' /\ OptionSound(o)'
  BY <1>4, <1>6, <1>7 DEF VInv, VotesBacked, CounterBacked, OptionSound
<1> QED
  BY <1>3, <1>4, <1>5, <1>8, SubmissionsUntouched DEF VInv, TypeOK, VotesBacked, EditSound

-----------------------------------------------------------------------------
(* Submissions: a record is written before its counter is *)

LEMMA ReadVoteVInv ==
  ASSUME VInv, NEW w \in Voter, NEW s \in Slot, NEW v \in Vote, NEW ballot \in Ballot,
         ReadVote(w, s, v, ballot)
  PROVE  VInv'
<1> DEFINE r == [at |-> "count", vote |-> v, options |-> ballot, max_votes |-> vote[v].max_votes]
<1>1. r \in Submission /\ SubmissionSound(w, r)
  BY InputAssumption DEF VInv, TypeOK, Row, Submission, SubmissionSound, Steps
<1>2. Request(w, s, r) /\ UNCHANGED <<vote, optionOf, used, count, records, edit, edits, faults>>
  BY DEF ReadVote
<1> QED
  BY <1>1, <1>2, RequestEffect, SubmissionsStaySound, OptionsStaySound
     DEF VInv, TypeOK, VotesBacked, EditSound

LEMMA CheckMaxVotesVInv ==
  ASSUME VInv, NEW w \in Voter, NEW s \in Slot, CheckMaxVotes(w, s)
  PROVE  VInv'
<1>1. PICK r \in {NoSubmission, [submit[w][s] EXCEPT !.at = "insert"]} : Request(w, s, r)
  BY DEF CheckMaxVotes, RefusedIf
<1>2. r \in Submission /\ SubmissionSound(w, r)
  <2>1. /\ submit[w][s] \in Submission
        /\ submit[w][s].vote \in Vote
        /\ submit[w][s].options # <<>>
    BY CurrentOption DEF CheckMaxVotes, RefusedIf
  <2>2. CASE r = NoSubmission
    BY <2>2 DEF Submission, NoSubmission, SubmissionSound, Steps
  <2>3. CASE r = [submit[w][s] EXCEPT !.at = "insert"]
    BY <2>1, <2>3 DEF Submission, SubmissionSound, Steps
  <2> QED
    BY <1>1, <2>2, <2>3
<1>3. UNCHANGED <<vote, optionOf, used, count, records, edit, edits>> /\ faults' \in Nat
  BY FaultType DEF CheckMaxVotes, RefusedIf
<1> QED
  BY <1>1, <1>2, <1>3, RequestEffect, SubmissionsStaySound, OptionsStaySound
     DEF VInv, TypeOK, VotesBacked, EditSound

LEMMA InsertRecordVInv ==
  ASSUME VInv, NEW w \in Voter, NEW s \in Slot, InsertRecord(w, s)
  PROVE  VInv'
<1> DEFINE q == submit[w][s]
           o == Head(q.options)
<1>1. q \in Submission /\ q.vote \in Vote /\ q.options # <<>> /\ o \in Option
  BY CurrentOption DEF InsertRecord, RefusedIf
<1>2. UNCHANGED <<vote, optionOf, used, count, edit, edits>> /\ faults' \in Nat
  BY FaultType DEF InsertRecord, RefusedIf
<1>3. CASE /\ optionOf[o] # NoVote
           /\ records' = [records EXCEPT ![q.vote][o][w] = @ + 1]
           /\ Request(w, s, [q EXCEPT !.at = "option"])
  <2> DEFINE r == [q EXCEPT !.at = "option"]
  <2>1. Request(w, s, r)
    BY <1>3
  <2>2. r \in Submission
    BY <1>1 DEF Submission, Steps
  <2>3. /\ submit'[w][s] = r
        /\ \A x \in Voter, t \in Slot : ~(x = w /\ t = s) => submit'[x][t] = submit[x][t]
    BY <2>1, <2>2, RequestEffect DEF VInv
  <2>4. records \in [Vote -> [Option -> [Voter -> Nat]]]
    BY DEF VInv, TypeOK
  <2>5. records[q.vote] \in [Option -> [Voter -> Nat]] /\ records[q.vote][o] \in [Voter -> Nat]
    BY <1>1, <2>4
  <2> DEFINE inner == [records[q.vote][o] EXCEPT ![w] = @ + 1]
             outer == [records[q.vote] EXCEPT ![o] = inner]
  <2>6. inner \in [Voter -> Nat]
    <3> HIDE DEF q, o
    <3>1. \A x \in Voter : inner[x] = IF x = w THEN records[q.vote][o][w] + 1
                                      ELSE records[q.vote][o][x]
      BY <2>5
    <3> QED
      BY <2>5, <3>1
  <2>7. outer \in [Option -> [Voter -> Nat]]
    BY <2>5, <2>6
  <2>8. records' = [records EXCEPT ![q.vote] = outer]
    BY <1>3
  <2>9. \A v \in Vote, p \in Option, x \in Voter :
          records'[v][p][x] = IF v = q.vote /\ p = o /\ x = w THEN records[v][p][x] + 1
                              ELSE records[v][p][x]
    <3>1. \A x \in Voter : inner[x] = IF x = w THEN records[q.vote][o][x] + 1
                                      ELSE records[q.vote][o][x]
      BY <2>5
    <3>2. \A p \in Option : outer[p] = IF p = o THEN inner ELSE records[q.vote][p]
      BY <2>5
    <3>3. \A v \in Vote : records'[v] = IF v = q.vote THEN outer ELSE records[v]
      BY <2>4, <2>8
    <3> HIDE DEF inner, outer, q, o
    <3> QED
      BY <3>1, <3>2, <3>3
  <2>10. records' \in [Vote -> [Option -> [Voter -> Nat]]]
    BY <2>4, <2>7, <2>8
  <2>11. records'[q.vote][o][w] > 0
    <3>1. records[q.vote][o][w] \in Nat
      BY <2>5
    <3>2. records'[q.vote][o][w] = records[q.vote][o][w] + 1
      <4> HIDE DEF q, o
      <4> QED
        BY <1>1, <2>9
    <3> HIDE DEF q, o
    <3> QED
      BY <3>1, <3>2
  <2>12. \A v \in Vote, p \in Option, x \in Voter :
          /\ records[v][p][x] > 0 => records'[v][p][x] > 0
          /\ p # o => records'[v][p][x] = records[v][p][x]
    BY <2>4, <2>9
  <2>13. \A p \in Option : /\ Referenced(p) => Referenced(p)'
                           /\ Referenced(p)' => Referenced(p) \/ p = o
    BY <2>12 DEF Referenced
  <2>14. optionOf[o] # NoVote
    BY <1>3
  <2>15. \A p \in Option : CounterBacked(p)' /\ OptionSound(p)'
    BY <1>1, <1>2, <2>13, <2>14, OneMoreReferenced DEF VInv
  <2>16. ASSUME NEW x \in Voter, NEW t \in Slot PROVE SubmissionSound(x, submit[x][t])'
    <3>1. CASE x = w /\ t = s
      <4>1. submit'[x][t] = r
        BY <2>3, <3>1
      <4> QED
        BY <1>1, <2>11, <3>1, <4>1 DEF SubmissionSound, Submission
    <3>2. CASE ~(x = w /\ t = s)
      <4>1. submit'[x][t] = submit[x][t]
        BY <2>3, <3>2
      <4>2. SubmissionSound(x, submit[x][t])
        BY DEF VInv, VotesBacked
      <4> QED
        BY <2>12, <4>1, <4>2, CurrentOption DEF SubmissionSound
    <3> QED
      BY <3>1, <3>2
  <2> QED
    BY <1>2, <1>3, <2>2, <2>10, <2>15, <2>16, RequestEffect DEF VInv, TypeOK, VotesBacked, EditSound
<1>4. CASE Request(w, s, NoSubmission) /\ UNCHANGED records
  <2>1. NoSubmission \in Submission /\ SubmissionSound(w, NoSubmission)
    BY DEF Submission, NoSubmission, SubmissionSound, Steps
  <2> QED
    BY <1>2, <1>4, <2>1, RequestEffect, SubmissionsStaySound, OptionsStaySound
       DEF VInv, TypeOK, VotesBacked, EditSound
<1> QED
  BY <1>3, <1>4 DEF InsertRecord, RefusedIf

LEMMA CountOptionVInv ==
  ASSUME VInv, NEW w \in Voter, NEW s \in Slot, CountOption(w, s)
  PROVE  VInv'
<1> DEFINE q == submit[w][s]
           o == Head(q.options)
           r == [q EXCEPT !.at = "total"]
<1>1. q \in Submission /\ q.vote \in Vote /\ q.options # <<>> /\ o \in Option
  BY CurrentOption DEF CountOption
<1>2. r \in Submission /\ SubmissionSound(w, r)
  BY <1>1 DEF Submission, SubmissionSound, Steps
<1>3. /\ Request(w, s, r) /\ UNCHANGED <<vote, optionOf, used, records, edit, edits>>
      /\ faults' \in Nat
  BY FaultType DEF CountOption
<1>4. Referenced(o)
  BY <1>1 DEF VInv, VotesBacked, SubmissionSound, CountOption, Referenced
<1>5. /\ count' \in [Option -> Nat]
      /\ \A p \in Option : count'[p] > 0 => count[p] > 0 \/ p = o
  <2>1. count \in [Option -> Nat]
    BY DEF VInv, TypeOK
  <2>2. CASE count' = [count EXCEPT ![o] = @ + 1]
    BY <1>1, <2>1, <2>2
  <2>3. CASE count' = count
    BY <2>1, <2>3
  <2> QED
    BY <2>2, <2>3 DEF CountOption
<1>6. \A p \in Option : Referenced(p)' = Referenced(p)
  BY <1>3 DEF Referenced
<1>7. \A p \in Option : CounterBacked(p)' /\ OptionSound(p)'
  BY <1>3, <1>4, <1>5, <1>6 DEF VInv, VotesBacked, CounterBacked, OptionSound
<1> QED
  BY <1>2, <1>3, <1>5, <1>7, RequestEffect, SubmissionsStaySound
     DEF VInv, TypeOK, VotesBacked, EditSound

LEMMA CountTotalVInv ==
  ASSUME VInv, NEW w \in Voter, NEW s \in Slot, CountTotal(w, s)
  PROVE  VInv'
<1> DEFINE q == submit[w][s]
           r == IF Len(q.options) = 1 THEN NoSubmission
                ELSE [q EXCEPT !.at = "insert", !.options = Tail(@)]
<1>1. q \in Submission /\ q.vote \in Vote /\ q.options \in Seq(Option) \ {<<>>}
  BY CurrentOption DEF CountTotal
<1>2. ASSUME Len(q.options) # 1 PROVE Tail(q.options) \in Seq(Option) \ {<<>>}
  <2>1. Len(q.options) \in Nat /\ Len(q.options) # 0
    BY <1>1, EmptySeq, LenProperties
  <2>2. Tail(q.options) \in Seq(Option) /\ Len(Tail(q.options)) = Len(q.options) - 1
    BY <1>1, HeadTailProperties
  <2> QED
    <3>1. Len(Tail(q.options)) # 0
      BY <1>2, <2>1, <2>2
    <3>2. Tail(q.options) # <<>>
      BY <3>1, EmptySeq
    <3> QED
      BY <2>2, <3>2
<1>3. r \in Submission /\ SubmissionSound(w, r)
  <2>1. CASE Len(q.options) = 1
    BY <2>1 DEF Submission, NoSubmission, SubmissionSound, Steps
  <2>2. CASE Len(q.options) # 1
    BY <1>1, <1>2, <2>2 DEF Submission, SubmissionSound, Steps
  <2> QED
    BY <2>1, <2>2
<1>4. /\ Request(w, s, r) /\ UNCHANGED <<records, count, optionOf, used, edit, edits>>
      /\ faults' \in Nat
  BY FaultType DEF CountTotal
<1>5. vote \in [Vote -> Row]
  BY DEF VInv, TypeOK
<1>6. vote[q.vote] \in Row
  BY <1>1, <1>5
<1>7. Totalled(vote[q.vote]) \in Row
  BY <1>6 DEF Row, Totalled
<1>8. vote' \in [Vote -> Row]
  <2>1. \/ vote' = [vote EXCEPT ![q.vote] = Totalled(vote[q.vote])]
        \/ vote' = vote
    BY DEF CountTotal
  <2> QED
    BY <1>1, <1>5, <1>7, <2>1
<1> QED
  BY <1>3, <1>4, <1>8, RequestEffect, SubmissionsStaySound, OptionsStaySound
     DEF VInv, TypeOK, VotesBacked, EditSound

LEMMA StutterVInv == VInv /\ UNCHANGED vars => VInv'
  BY OptionsStaySound, SubmissionsUntouched DEF VInv, TypeOK, VotesBacked, EditSound, vars

-----------------------------------------------------------------------------

\* Every state of every behaviour: types, and every counter and every
\* submission backed by its record.
THEOREM VotesStayBacked == Spec => []VInv
<1>1. Init => VInv
  BY InitVInv
<1>2. VInv /\ [Next]_vars => VInv'
  <2> SUFFICES ASSUME VInv, [Next]_vars
               PROVE  VInv'
    OBVIOUS
  <2>1. \A n \in 0 .. Cardinality(Option) : n \in Nat
    BY FS_CardinalityType
  <2>2. CASE Administrate
    BY <2>1, <2>2, CreateVoteVInv, UpdateVoteVInv, DeleteOptionsVInv, CreateOptionVInv,
       DeleteVoteVInv DEF Administrate
  <2>3. CASE \E w \in Voter, s \in Slot : SubmitVote(w, s)
    BY <2>3, ReadVoteVInv, CheckMaxVotesVInv, InsertRecordVInv, CountOptionVInv,
       CountTotalVInv DEF SubmitVote
  <2>4. CASE UNCHANGED vars
    BY <2>4, StutterVInv
  <2> QED
    BY <2>2, <2>3, <2>4 DEF Next
<1> QED
  BY <1>1, <1>2, PTL DEF Spec

\* No step takes away a vote that was counted: its option stays, and its
\* counter does not fall.
THEOREM CountedVotesStay == Spec => VotesNeverLost
<1> DEFINE Kept == \A o \in Option : count[o] > 0 =>
                     optionOf'[o] = optionOf[o] /\ count'[o] >= count[o]
<1>1. VInv /\ [Next]_vars => [Kept]_vars
  <2> SUFFICES ASSUME VInv, Next
               PROVE  Kept
    OBVIOUS
  <2>1. ASSUME NEW e \in Editor, DeleteOptionsByVoteID(e) PROVE Kept
    <3>1. \A o \in Option : count[o] > 0 => Referenced(o)
      BY DEF VInv, VotesBacked, CounterBacked
    <3> QED
      BY <2>1, <3>1 DEF VInv, TypeOK, DeleteOptionsByVoteID, RefusedIf, OptionsOf
  <2>2. ASSUME NEW e \in Editor, CreateOption(e) PROVE Kept
    <3>1. \A o \in Option : count[o] > 0 => o \in used
      BY DEF VInv, VotesBacked, CounterBacked, OptionSound
    <3> QED
      BY <2>2, <3>1 DEF VInv, TypeOK, CreateOption
  <2>3. ASSUME NEW w \in Voter, NEW s \in Slot, CountOption(w, s) PROVE Kept
    <3>1. Head(submit[w][s].options) \in Option
      BY <2>3, CurrentOption DEF CountOption
    <3> QED
      BY <2>3, <3>1 DEF VInv, TypeOK, CountOption
  <2>4. ASSUME UNCHANGED <<optionOf, count>> PROVE Kept
    BY <2>4 DEF VInv, TypeOK
  <2>5. \A e \in Editor, v \in Vote, status \in 0 .. 2, limit \in MaxVotes,
           choices \in MaxChoices, n \in 0 .. Cardinality(Option) :
          \/ CreateVote(e, v, status, limit, choices, n)
          \/ UpdateVote(e, v, status, limit, choices, n)
          \/ DeleteVote(v)
          => UNCHANGED <<optionOf, count>>
    BY DEF CreateVote, UpdateVote, DeleteVote
  <2>6. \A v \in Vote : DeleteVote(v) => UNCHANGED <<optionOf, count>>
    BY DEF DeleteVote
  <2>7. \A w \in Voter, s \in Slot :
          /\ \A v \in Vote, b \in Ballot : ReadVote(w, s, v, b) => UNCHANGED <<optionOf, count>>
          /\ CheckMaxVotes(w, s) \/ InsertRecord(w, s) \/ CountTotal(w, s)
             => UNCHANGED <<optionOf, count>>
    <3> SUFFICES ASSUME NEW w \in Voter, NEW s \in Slot
                 PROVE  /\ \A v \in Vote, b \in Ballot :
                             ReadVote(w, s, v, b) => UNCHANGED <<optionOf, count>>
                        /\ CheckMaxVotes(w, s) => UNCHANGED <<optionOf, count>>
                        /\ InsertRecord(w, s) => UNCHANGED <<optionOf, count>>
                        /\ CountTotal(w, s) => UNCHANGED <<optionOf, count>>
      OBVIOUS
    <3>1. \A v \in Vote, b \in Ballot : ReadVote(w, s, v, b) => UNCHANGED <<optionOf, count>>
      BY DEF ReadVote
    <3>2. CheckMaxVotes(w, s) => UNCHANGED <<optionOf, count>>
      BY DEF CheckMaxVotes, RefusedIf
    <3>3. InsertRecord(w, s) => UNCHANGED <<optionOf, count>>
      BY DEF InsertRecord, RefusedIf
    <3>4. CountTotal(w, s) => UNCHANGED <<optionOf, count>>
      BY DEF CountTotal
    <3> QED
      BY <3>1, <3>2, <3>3, <3>4
  <2> QED
    BY <2>1, <2>2, <2>3, <2>4, <2>5, <2>6, <2>7 DEF Next, Administrate, SubmitVote
<1> QED
  BY <1>1, VotesStayBacked, PTL DEF Spec, VotesNeverLost

-----------------------------------------------------------------------------
(* Counting rows *)

\* Sets that differ in one element at most.
LEMMA OneApart ==
  ASSUME NEW S, NEW T, NEW x, IsFiniteSet(S), IsFiniteSet(T), S \ {x} = T \ {x}
  PROVE  /\ Cardinality(S) \in Nat /\ Cardinality(T) \in Nat
         /\ (x \in S <=> x \in T) => Cardinality(T) = Cardinality(S)
         /\ x \in S /\ x \notin T => Cardinality(T) = Cardinality(S) - 1
         /\ x \notin S /\ x \in T => Cardinality(T) = Cardinality(S) + 1
<1>1. /\ Cardinality(S) \in Nat /\ Cardinality(T) \in Nat
      /\ Cardinality(S \ {x}) = IF x \in S THEN Cardinality(S) - 1 ELSE Cardinality(S)
      /\ Cardinality(T \ {x}) = IF x \in T THEN Cardinality(T) - 1 ELSE Cardinality(T)
  BY FS_RemoveElement, FS_CardinalityType
<1> QED
  BY <1>1

\* What a row of vote_records is, with R for the numbers of rows.
RowsIn(R, V, O, W) ==
  UNION {{<<v, o, w>>} \X (1 .. R[v][o][w]) : v \in V, o \in O, w \in W}

LEMMA RowsMember ==
  ASSUME NEW R, NEW V, NEW O, NEW W, NEW y
  PROVE  y \in RowsIn(R, V, O, W)
           <=> \E v \in V, o \in O, w \in W, i \in Nat :
                 i \in 1 .. R[v][o][w] /\ y = <<<<v, o, w>>, i>>
<1> DEFINE A(v, o, w) == {<<v, o, w>>} \X (1 .. R[v][o][w])
<1>1. \A v, o, w : y \in A(v, o, w)
                     <=> \E i \in Nat : i \in 1 .. R[v][o][w] /\ y = <<<<v, o, w>>, i>>
  <2> SUFFICES ASSUME NEW v, NEW o, NEW w
               PROVE  y \in A(v, o, w)
                        <=> \E i \in Nat : i \in 1 .. R[v][o][w] /\ y = <<<<v, o, w>>, i>>
    OBVIOUS
  <2> DEFINE t == <<v, o, w>>
             I == 1 .. R[v][o][w]
  <2>1. I \subseteq Nat
    OBVIOUS
  <2> HIDE DEF t, I
  <2>2. y \in {t} \X I <=> \E i \in I : y = <<t, i>>
    OBVIOUS
  <2> QED
    BY <2>1, <2>2 DEF t, I
<1> HIDE DEF A
<1>2. y \in UNION {A(v, o, w) : v \in V, o \in O, w \in W}
        <=> \E v \in V, o \in O, w \in W : y \in A(v, o, w)
  OBVIOUS
<1>3. y \in UNION {A(v, o, w) : v \in V, o \in O, w \in W}
        <=> \E v \in V, o \in O, w \in W : \E i \in Nat :
              i \in 1 .. R[v][o][w] /\ y = <<<<v, o, w>>, i>>
  BY <1>1, <1>2
<1> QED
  BY <1>3 DEF A, RowsIn

\* The tables have finitely many rows.
RowsFinite == IsFiniteSet(Rows(Vote, Option, Voter))

LEMMA SomeRows ==
  ASSUME RowsFinite, NEW V, NEW O, NEW W, V \subseteq Vote, O \subseteq Option, W \subseteq Voter
  PROVE  IsFiniteSet(Rows(V, O, W)) /\ Cardinality(Rows(V, O, W)) \in Nat
<1>1. Rows(V, O, W) \subseteq Rows(Vote, Option, Voter)
  BY DEF Rows
<1> QED
  BY <1>1, FS_Subset, FS_CardinalityType DEF RowsFinite

\* A new record is one more row where its vote, option and voter are counted.
Recorded(v, o, w) == records' = [records EXCEPT ![v][o][w] = @ + 1]

LEMMA RecordedEffect ==
  ASSUME TypeOK, NEW v \in Vote, NEW o \in Option, NEW w \in Voter, Recorded(v, o, w)
  PROVE  /\ records[v][o][w] \in Nat /\ records'[v][o][w] = records[v][o][w] + 1
         /\ \A u \in Vote, p \in Option, x \in Voter :
              <<u, p, x>> # <<v, o, w>> => records'[u][p][x] = records[u][p][x]
<1>1. records \in [Vote -> [Option -> [Voter -> Nat]]]
  BY DEF TypeOK
<1>2. records[v] \in [Option -> [Voter -> Nat]] /\ records[v][o] \in [Voter -> Nat]
  BY <1>1
<1> DEFINE inner == [records[v][o] EXCEPT ![w] = @ + 1]
           outer == [records[v] EXCEPT ![o] = inner]
<1>3. records' = [records EXCEPT ![v] = outer]
  BY DEF Recorded
<1>4. inner[w] = records[v][o][w] + 1 /\ \A x \in Voter \ {w} : inner[x] = records[v][o][x]
  BY <1>2
<1>5. outer[o] = inner /\ \A p \in Option \ {o} : outer[p] = records[v][p]
  BY <1>2
<1>6. records'[v] = outer /\ \A u \in Vote \ {v} : records'[u] = records[u]
  BY <1>1, <1>3
<1> HIDE DEF inner, outer
<1> QED
  BY <1>2, <1>4, <1>5, <1>6

NewRow(v, o, w) == <<<<v, o, w>>, records[v][o][w] + 1>>

\* Where its vote, option and voter are counted the new row is the only new one.
LEMMA RowAdded ==
  ASSUME TypeOK, NEW v \in Vote, NEW o \in Option, NEW w \in Voter, Recorded(v, o, w),
         NEW V, NEW O, NEW W, V \subseteq Vote, O \subseteq Option, W \subseteq Voter,
         v \in V, o \in O, w \in W
  PROVE  /\ NewRow(v, o, w) \notin Rows(V, O, W)
         /\ RowsIn(records', V, O, W) = Rows(V, O, W) \cup {NewRow(v, o, w)}
<1> DEFINE S == Rows(V, O, W)
           T == RowsIn(records', V, O, W)
           n == records[v][o][w]
           new == <<<<v, o, w>>, n + 1>>
<1>1. /\ n \in Nat /\ records'[v][o][w] = n + 1
      /\ \A u \in Vote, p \in Option, x \in Voter :
           <<u, p, x>> # <<v, o, w>> => records'[u][p][x] = records[u][p][x]
  BY RecordedEffect
<1>2. \A y : y \in S <=> \E u \in V, p \in O, x \in W, i \in Nat :
                          i \in 1 .. records[u][p][x] /\ y = <<<<u, p, x>>, i>>
  <2>1. S = RowsIn(records, V, O, W)
    BY DEF Rows, RowsIn
  <2> QED
    BY <2>1, RowsMember
<1>3. \A y : y \in T <=> \E u \in V, p \in O, x \in W, i \in Nat :
                          i \in 1 .. records'[u][p][x] /\ y = <<<<u, p, x>>, i>>
  BY RowsMember
<1>4. ASSUME NEW u \in V, NEW p \in O, NEW x \in W, NEW i \in Nat
      PROVE  i \in 1 .. records'[u][p][x]
               <=> i \in 1 .. records[u][p][x] \/ <<<<u, p, x>>, i>> = new
  <2>1. CASE <<u, p, x>> = <<v, o, w>>
    <3>1. u = v /\ p = o /\ x = w
      BY <2>1
    <3>2. i \in 1 .. n + 1 <=> i \in 1 .. n \/ i = n + 1
      BY <1>1
    <3> QED
      BY <1>1, <3>1, <3>2
  <2>2. CASE <<u, p, x>> # <<v, o, w>>
    BY <1>1, <2>2
  <2> QED
    BY <2>1, <2>2
<1>5. new \in T
  <2>1. n + 1 \in Nat /\ n + 1 \in 1 .. records'[v][o][w]
    BY <1>1
  <2> QED
    BY <1>3, <2>1
<1>6. new \notin S
  <2>1. ASSUME NEW u \in V, NEW p \in O, NEW x \in W, NEW i \in Nat,
               i \in 1 .. records[u][p][x], new = <<<<u, p, x>>, i>>
        PROVE  FALSE
    <3>1. u = v /\ p = o /\ x = w /\ i = n + 1
      BY <2>1
    <3> QED
      BY <1>1, <2>1, <3>1
  <2> QED
    BY <1>2, <2>1
<1>7. T = S \cup {new}
  <2> HIDE DEF S, T, new
  <2>1. \A y \in T : y \in S \/ y = new
    BY <1>2, <1>3, <1>4
  <2>2. \A y \in S : y \in T
    BY <1>2, <1>3, <1>4
  <2> QED
    BY <1>5, <2>1, <2>2
<1> QED
  BY <1>6, <1>7 DEF NewRow

LEMMA RowRecorded ==
  ASSUME TypeOK, RowsFinite, NEW v \in Vote, NEW o \in Option, NEW w \in Voter, Recorded(v, o, w),
         NEW V, NEW O, NEW W, V \subseteq Vote, O \subseteq Option, W \subseteq Voter
  PROVE  /\ IsFiniteSet(RowsIn(records', V, O, W))
         /\ Cardinality(RowsIn(records', V, O, W)) = IF v \in V /\ o \in O /\ w \in W
                                 THEN Cardinality(Rows(V, O, W)) + 1
                                 ELSE Cardinality(Rows(V, O, W))
<1> DEFINE S == Rows(V, O, W)
           T == RowsIn(records', V, O, W)
           n == records[v][o][w]
           new == NewRow(v, o, w)
<1>1. /\ n \in Nat /\ records'[v][o][w] = n + 1
      /\ \A u \in Vote, p \in Option, x \in Voter :
           <<u, p, x>> # <<v, o, w>> => records'[u][p][x] = records[u][p][x]
  BY RecordedEffect
<1>2. IsFiniteSet(S) /\ Cardinality(S) \in Nat
  BY SomeRows
<1>3. \A y : y \in S <=> \E u \in V, p \in O, x \in W, i \in Nat :
                          i \in 1 .. records[u][p][x] /\ y = <<<<u, p, x>>, i>>
  <2>1. S = RowsIn(records, V, O, W)
    BY DEF Rows, RowsIn
  <2> QED
    BY <2>1, RowsMember
<1>4. \A y : y \in T <=> \E u \in V, p \in O, x \in W, i \in Nat :
                          i \in 1 .. records'[u][p][x] /\ y = <<<<u, p, x>>, i>>
  BY RowsMember
<1>5. CASE v \in V /\ o \in O /\ w \in W
  <2>1. new \notin S /\ T = S \cup {new}
    BY <1>5, RowAdded
  <2> HIDE DEF S, T, new
  <2>2. IsFiniteSet(T) /\ Cardinality(T) = Cardinality(S) + 1
    BY <1>2, <2>1, FS_AddElement
  <2> QED
    BY <1>5, <2>2 DEF S, T
<1>6. CASE ~(v \in V /\ o \in O /\ w \in W)
  <2>1. \A u \in V, p \in O, x \in W : records'[u][p][x] = records[u][p][x]
    BY <1>1, <1>6
  <2>2. T = S
    <3> HIDE DEF S, T, new
    <3>1. \A y \in T : y \in S
      <4> SUFFICES ASSUME NEW y \in T PROVE y \in S
        OBVIOUS
      <4>1. PICK u \in V, p \in O, x \in W, i \in Nat :
              i \in 1 .. records'[u][p][x] /\ y = <<<<u, p, x>>, i>>
        BY <1>4
      <4>2. i \in 1 .. records[u][p][x]
        BY <2>1, <4>1
      <4> QED
        BY <1>3, <4>1, <4>2
    <3>2. \A y \in S : y \in T
      <4> SUFFICES ASSUME NEW y \in S PROVE y \in T
        OBVIOUS
      <4>1. PICK u \in V, p \in O, x \in W, i \in Nat :
              i \in 1 .. records[u][p][x] /\ y = <<<<u, p, x>>, i>>
        BY <1>3
      <4>2. i \in 1 .. records'[u][p][x]
        BY <2>1, <4>1
      <4> QED
        BY <1>4, <4>1, <4>2
    <3> QED
      BY <3>1, <3>2
  <2> HIDE DEF S, T
  <2> QED
    BY <1>2, <1>6, <2>2 DEF S, T
<1> QED
  BY <1>5, <1>6

-----------------------------------------------------------------------------
(* The counters and the records *)

CInv == RowsFinite /\ CountersFollowRecords

LEMMA FlightsFinite ==
  /\ \A o : /\ IsFiniteSet(Uncounted(o)) /\ Cardinality(Uncounted(o)) \in Nat
            /\ IsFiniteSet(Uncounted(o)') /\ Cardinality(Uncounted(o)') \in Nat
  /\ \A v : /\ IsFiniteSet(Untotalled(v)) /\ Cardinality(Untotalled(v)) \in Nat
            /\ IsFiniteSet(Untotalled(v)') /\ Cardinality(Untotalled(v)') \in Nat
<1>1. IsFiniteSet(InFlight)
  BY IdAssumption, FS_Product DEF InFlight
<1>2. \A S : S \subseteq InFlight => IsFiniteSet(S) /\ Cardinality(S) \in Nat
  BY <1>1, FS_Subset, FS_CardinalityType
<1>3. \A o : Uncounted(o) \subseteq InFlight /\ Uncounted(o)' \subseteq InFlight
  BY DEF Uncounted, InFlight
<1>4. \A v : Untotalled(v) \subseteq InFlight /\ Untotalled(v)' \subseteq InFlight
  BY DEF Untotalled, InFlight
<1> QED
  BY <1>2, <1>3, <1>4

\* A submission that is at r counts for the option it is at, and for its vote.
IsUncounted(r, o) == r.at = "option" /\ Head(r.options) = o
IsUntotalled(r, v) == r.at \in {"option", "total"} /\ r.vote = v

LEMMA FlightMoves ==
  ASSUME TypeOK, NEW w \in Voter, NEW s \in Slot, NEW r \in Submission, Request(w, s, r)
  PROVE  /\ \A o : Cardinality(Uncounted(o)') =
                     Cardinality(Uncounted(o)) + (IF IsUncounted(r, o) THEN 1 ELSE 0)
                       - (IF IsUncounted(submit[w][s], o) THEN 1 ELSE 0)
         /\ \A v : Cardinality(Untotalled(v)') =
                     Cardinality(Untotalled(v)) + (IF IsUntotalled(r, v) THEN 1 ELSE 0)
                       - (IF IsUntotalled(submit[w][s], v) THEN 1 ELSE 0)
<1> DEFINE x == <<w, s>>
<1>1. /\ x \in InFlight /\ submit'[w][s] = r
      /\ \A y \in InFlight \ {x} : submit'[y[1]][y[2]] = submit[y[1]][y[2]]
  BY RequestEffect DEF InFlight
<1>2. ASSUME NEW o
      PROVE  Cardinality(Uncounted(o)') =
               Cardinality(Uncounted(o)) + (IF IsUncounted(r, o) THEN 1 ELSE 0)
                 - (IF IsUncounted(submit[w][s], o) THEN 1 ELSE 0)
  <2> DEFINE S == Uncounted(o)
             T == Uncounted(o)'
  <2>1. S \ {x} = T \ {x}
    BY <1>1 DEF Uncounted, InFlight
  <2>2. x \in S <=> IsUncounted(submit[w][s], o)
    BY <1>1 DEF Uncounted, IsUncounted
  <2>3. x \in T <=> IsUncounted(r, o)
    BY <1>1 DEF Uncounted, IsUncounted, InFlight
  <2>4. IsFiniteSet(S) /\ IsFiniteSet(T)
    BY FlightsFinite
  <2> HIDE DEF S, T, x
  <2>5. /\ Cardinality(S) \in Nat /\ Cardinality(T) \in Nat
        /\ (x \in S <=> x \in T) => Cardinality(T) = Cardinality(S)
        /\ x \in S /\ x \notin T => Cardinality(T) = Cardinality(S) - 1
        /\ x \notin S /\ x \in T => Cardinality(T) = Cardinality(S) + 1
    BY <2>1, <2>4, OneApart
  <2>6. Cardinality(T) = Cardinality(S) + (IF IsUncounted(r, o) THEN 1 ELSE 0)
                           - (IF IsUncounted(submit[w][s], o) THEN 1 ELSE 0)
    BY <2>2, <2>3, <2>5
  <2> QED
    BY <2>6 DEF S, T
<1>3. ASSUME NEW v
      PROVE  Cardinality(Untotalled(v)') =
               Cardinality(Untotalled(v)) + (IF IsUntotalled(r, v) THEN 1 ELSE 0)
                 - (IF IsUntotalled(submit[w][s], v) THEN 1 ELSE 0)
  <2> DEFINE S == Untotalled(v)
             T == Untotalled(v)'
  <2>1. S \ {x} = T \ {x}
    BY <1>1 DEF Untotalled, InFlight
  <2>2. x \in S <=> IsUntotalled(submit[w][s], v)
    BY <1>1 DEF Untotalled, IsUntotalled
  <2>3. x \in T <=> IsUntotalled(r, v)
    BY <1>1 DEF Untotalled, IsUntotalled, InFlight
  <2>4. IsFiniteSet(S) /\ IsFiniteSet(T)
    BY FlightsFinite
  <2> HIDE DEF S, T, x
  <2>5. /\ Cardinality(S) \in Nat /\ Cardinality(T) \in Nat
        /\ (x \in S <=> x \in T) => Cardinality(T) = Cardinality(S)
        /\ x \in S /\ x \notin T => Cardinality(T) = Cardinality(S) - 1
        /\ x \notin S /\ x \in T => Cardinality(T) = Cardinality(S) + 1
    BY <2>1, <2>4, OneApart
  <2>6. Cardinality(T) = Cardinality(S) + (IF IsUntotalled(r, v) THEN 1 ELSE 0)
                           - (IF IsUntotalled(submit[w][s], v) THEN 1 ELSE 0)
    BY <2>2, <2>3, <2>5
  <2> QED
    BY <2>6 DEF S, T
<1> QED
  BY <1>2, <1>3

\* A counter with what is being counted: it may fall behind with a failure only.
Ahead(o) == count[o] + Cardinality(Uncounted(o))
AheadTotal(v) == vote[v].total + Cardinality(Untotalled(v))

LEMMA CountersStep ==
  ASSUME VInv, CInv, UNCHANGED records, faults' = faults \/ faults' = faults + 1,
         \A o \in Option : /\ Ahead(o)' \in Nat /\ Ahead(o)' <= Ahead(o)
                           /\ faults' = faults => Ahead(o)' = Ahead(o),
         \A v \in Vote : /\ AheadTotal(v)' \in Nat /\ AheadTotal(v)' <= AheadTotal(v)
                         /\ faults' = faults => AheadTotal(v)' = AheadTotal(v)
  PROVE  CInv'
<1>1. /\ RowsFinite' = RowsFinite
      /\ \A o : RecordsOfOption(o)' = RecordsOfOption(o)
      /\ \A v : RecordsOfVote(v)' = RecordsOfVote(v)
  BY DEF RowsFinite, RecordsOfOption, RecordsOfVote, Rows
<1>2. faults \in Nat /\ (faults' = 0 => faults = 0 /\ faults' = faults)
  BY DEF VInv, TypeOK
<1>3. ASSUME NEW o \in Option
      PROVE  /\ Ahead(o)' <= RecordsOfOption(o)'
             /\ faults' = 0 => Ahead(o)' = RecordsOfOption(o)'
  <2>1. Ahead(o) \in Nat /\ RecordsOfOption(o) \in Nat
    BY FlightsFinite, SomeRows DEF VInv, TypeOK, Ahead, CInv, RecordsOfOption
  <2>2. Ahead(o) <= RecordsOfOption(o) /\ (faults = 0 => Ahead(o) = RecordsOfOption(o))
    BY DEF CInv, CountersFollowRecords, Ahead
  <2> QED
    BY <1>1, <1>2, <2>1, <2>2
<1>4. ASSUME NEW v \in Vote
      PROVE  /\ AheadTotal(v)' <= RecordsOfVote(v)'
             /\ faults' = 0 => AheadTotal(v)' = RecordsOfVote(v)'
  <2>1. AheadTotal(v) \in Nat /\ RecordsOfVote(v) \in Nat
    BY FlightsFinite, SomeRows DEF VInv, TypeOK, AheadTotal, CInv, RecordsOfVote, Row
  <2>2. AheadTotal(v) <= RecordsOfVote(v) /\ (faults = 0 => AheadTotal(v) = RecordsOfVote(v))
    BY DEF CInv, CountersFollowRecords, AheadTotal
  <2> QED
    BY <1>1, <1>2, <2>1, <2>2
<1> QED
  BY <1>1, <1>3, <1>4 DEF CInv, CountersFollowRecords, Ahead, AheadTotal

LEMMA AheadType ==
  ASSUME VInv
  PROVE  /\ \A o \in Option : Ahead(o) \in Nat /\ count[o] \in Nat
         /\ \A v \in Vote : AheadTotal(v) \in Nat /\ vote[v].total \in Nat
<1>1. /\ \A o \in Option : count[o] \in Nat
      /\ \A v \in Vote : vote[v].total \in Nat
  BY DEF VInv, TypeOK, Row
<1> QED
  BY <1>1, FlightsFinite DEF Ahead, AheadTotal

\* The edits change neither submissions nor records, and the counters keep their values.
LEMMA EditCounters ==
  ASSUME VInv, CInv, UNCHANGED <<records, submit>>, UNCHANGED faults \/ Fails,
         \A o \in Option : count'[o] = count[o],
         \A v \in Vote : vote'[v].total = vote[v].total
  PROVE  CInv'
<1>1. \A o : Uncounted(o)' = Uncounted(o)
  BY DEF Uncounted
<1>2. \A v : Untotalled(v)' = Untotalled(v)
  BY DEF Untotalled
<1>3. /\ \A o \in Option : Ahead(o)' = Ahead(o)
      /\ \A v \in Vote : AheadTotal(v)' = AheadTotal(v)
  BY <1>1, <1>2 DEF Ahead, AheadTotal
<1>4. /\ \A o \in Option : Ahead(o) <= Ahead(o) /\ Ahead(o) \in Nat
      /\ \A v \in Vote : AheadTotal(v) <= AheadTotal(v) /\ AheadTotal(v) \in Nat
  BY AheadType
<1> QED
  BY <1>3, <1>4, CountersStep DEF Fails

\* A submission that neither writes a record nor a counter.
LEMMA RequestCounters ==
  ASSUME VInv, CInv, NEW w \in Voter, NEW s \in Slot, NEW r \in Submission, Request(w, s, r),
         UNCHANGED <<records, count, vote>>, UNCHANGED faults \/ Fails,
         r.at \notin {"option", "total"}, submit[w][s].at \notin {"option", "total"}
  PROVE  CInv'
<1>1. /\ \A o : ~IsUncounted(r, o) /\ ~IsUncounted(submit[w][s], o)
      /\ \A v : ~IsUntotalled(r, v) /\ ~IsUntotalled(submit[w][s], v)
  BY DEF IsUncounted, IsUntotalled
<1>2. /\ \A o : Cardinality(Uncounted(o)') = Cardinality(Uncounted(o))
      /\ \A v : Cardinality(Untotalled(v)') = Cardinality(Untotalled(v))
  BY <1>1, FlightMoves, FlightsFinite DEF VInv
<1>3. /\ \A o \in Option : Ahead(o)' = Ahead(o)
      /\ \A v \in Vote : AheadTotal(v)' = AheadTotal(v)
  BY <1>2 DEF Ahead, AheadTotal
<1>4. /\ \A o \in Option : Ahead(o) <= Ahead(o) /\ Ahead(o) \in Nat
      /\ \A v \in Vote : AheadTotal(v) <= AheadTotal(v) /\ AheadTotal(v) \in Nat
  BY AheadType
<1> QED
  BY <1>3, <1>4, CountersStep DEF Fails

LEMMA NoSubmissionType ==
  NoSubmission \in Submission /\ NoSubmission.at = "idle"
  BY DEF Submission, NoSubmission, Steps

LEMMA InsertRecordCounters ==
  ASSUME VInv, CInv, NEW w \in Voter, NEW s \in Slot, InsertRecord(w, s)
  PROVE  CInv'
<1> DEFINE q == submit[w][s]
           o == Head(q.options)
           v == q.vote
           r == [q EXCEPT !.at = "option"]
<1>1. q \in Submission /\ v \in Vote /\ q.options # <<>> /\ o \in Option /\ q.at = "insert"
  BY CurrentOption DEF InsertRecord, RefusedIf
<1>2. CASE Recorded(v, o, w) /\ Request(w, s, r) /\ UNCHANGED <<vote, count, faults>>
  <2>1. /\ r \in Submission /\ r.at = "option" /\ r.options = q.options /\ r.vote = v
    BY <1>1 DEF Submission, Steps
  <2>2. /\ \A p : IsUncounted(r, p) <=> p = o
        /\ \A p : ~IsUncounted(q, p)
        /\ \A u : IsUntotalled(r, u) <=> u = v
        /\ \A u : ~IsUntotalled(q, u)
    BY <1>1, <2>1 DEF IsUncounted, IsUntotalled
  <2> HIDE DEF r, q
  <2>3. ASSUME NEW p
        PROVE  Cardinality(Uncounted(p)') = Cardinality(Uncounted(p)) + (IF p = o THEN 1 ELSE 0)
    <3>1. Cardinality(Uncounted(p)') =
            Cardinality(Uncounted(p)) + (IF IsUncounted(r, p) THEN 1 ELSE 0)
              - (IF IsUncounted(q, p) THEN 1 ELSE 0)
      BY <1>2, <2>1, FlightMoves DEF VInv, q
    <3> QED
      BY <2>2, <3>1, FlightsFinite
  <2>4. ASSUME NEW u
        PROVE  Cardinality(Untotalled(u)') = Cardinality(Untotalled(u)) + (IF u = v THEN 1 ELSE 0)
    <3>1. Cardinality(Untotalled(u)') =
            Cardinality(Untotalled(u)) + (IF IsUntotalled(r, u) THEN 1 ELSE 0)
              - (IF IsUntotalled(q, u) THEN 1 ELSE 0)
      BY <1>2, <2>1, FlightMoves DEF VInv, q
    <3> QED
      BY <2>2, <3>1, FlightsFinite
  <2> HIDE DEF o, v
  <2>5. RowsFinite'
    <3>1. IsFiniteSet(RowsIn(records', Vote, Option, Voter))
      BY <1>1, <1>2, RowRecorded DEF VInv, CInv
    <3>2. Rows(Vote, Option, Voter)' = RowsIn(records', Vote, Option, Voter)
      BY DEF Rows, RowsIn
    <3> QED
      BY <3>1, <3>2 DEF RowsFinite
  <2>6. ASSUME NEW p \in Option
        PROVE  /\ RecordsOfOption(p) \in Nat
               /\ RecordsOfOption(p)' = RecordsOfOption(p) + (IF p = o THEN 1 ELSE 0)
    <3>1. Rows(Vote, {p}, Voter)' = RowsIn(records', Vote, {p}, Voter)
      BY DEF Rows, RowsIn
    <3>2. Cardinality(RowsIn(records', Vote, {p}, Voter)) =
            IF v \in Vote /\ o \in {p} /\ w \in Voter
            THEN Cardinality(Rows(Vote, {p}, Voter)) + 1 ELSE Cardinality(Rows(Vote, {p}, Voter))
      BY <1>1, <1>2, RowRecorded DEF VInv, CInv
    <3>3. Cardinality(Rows(Vote, {p}, Voter)) \in Nat
      BY SomeRows DEF CInv
    <3> QED
      BY <1>1, <3>1, <3>2, <3>3 DEF RecordsOfOption
  <2>7. ASSUME NEW u \in Vote
        PROVE  /\ RecordsOfVote(u) \in Nat
               /\ RecordsOfVote(u)' = RecordsOfVote(u) + (IF u = v THEN 1 ELSE 0)
    <3>1. Rows({u}, Option, Voter)' = RowsIn(records', {u}, Option, Voter)
      BY DEF Rows, RowsIn
    <3>2. Cardinality(RowsIn(records', {u}, Option, Voter)) =
            IF v \in {u} /\ o \in Option /\ w \in Voter
            THEN Cardinality(Rows({u}, Option, Voter)) + 1 ELSE Cardinality(Rows({u}, Option, Voter))
      BY <1>1, <1>2, RowRecorded DEF VInv, CInv
    <3>3. Cardinality(Rows({u}, Option, Voter)) \in Nat
      BY SomeRows DEF CInv
    <3> QED
      BY <1>1, <3>1, <3>2, <3>3 DEF RecordsOfVote
  <2>8. ASSUME NEW p \in Option
        PROVE  /\ Ahead(p)' <= RecordsOfOption(p)'
               /\ faults' = 0 => Ahead(p)' = RecordsOfOption(p)'
    <3>1. Ahead(p) <= RecordsOfOption(p) /\ (faults = 0 => Ahead(p) = RecordsOfOption(p))
      BY DEF CInv, CountersFollowRecords, Ahead
    <3>2. Ahead(p) \in Nat /\ Ahead(p)' = Ahead(p) + (IF p = o THEN 1 ELSE 0)
      BY <1>2, <2>3, AheadType, FlightsFinite DEF Ahead
    <3> QED
      BY <1>2, <2>6, <3>1, <3>2
  <2>9. ASSUME NEW u \in Vote
         PROVE  /\ AheadTotal(u)' <= RecordsOfVote(u)'
                /\ faults' = 0 => AheadTotal(u)' = RecordsOfVote(u)'
    <3>1. AheadTotal(u) <= RecordsOfVote(u) /\ (faults = 0 => AheadTotal(u) = RecordsOfVote(u))
      BY DEF CInv, CountersFollowRecords, AheadTotal
    <3>2. AheadTotal(u) \in Nat /\ AheadTotal(u)' = AheadTotal(u) + (IF u = v THEN 1 ELSE 0)
      BY <1>2, <2>4, AheadType, FlightsFinite DEF AheadTotal
    <3> QED
      BY <1>2, <2>7, <3>1, <3>2
  <2> QED
    BY <2>5, <2>8, <2>9 DEF CInv, CountersFollowRecords, Ahead, AheadTotal
<1>3. CASE /\ Request(w, s, NoSubmission) /\ UNCHANGED <<records, vote, count>>
           /\ UNCHANGED faults \/ Fails
  BY <1>1, <1>3, NoSubmissionType, RequestCounters
<1> QED
  BY <1>2, <1>3 DEF InsertRecord, RefusedIf, Recorded

LEMMA CountOptionCounters ==
  ASSUME VInv, CInv, NEW w \in Voter, NEW s \in Slot, CountOption(w, s)
  PROVE  CInv'
<1> DEFINE q == submit[w][s]
           o == Head(q.options)
           r == [q EXCEPT !.at = "total"]
<1>1. q \in Submission /\ q.vote \in Vote /\ o \in Option /\ q.at = "option"
  BY CurrentOption DEF CountOption
<1>2. r \in Submission /\ r.at = "total" /\ r.vote = q.vote
  BY <1>1 DEF Submission, Steps
<1>3. /\ Request(w, s, r) /\ UNCHANGED <<vote, records>> /\ count \in [Option -> Nat]
      /\ \/ count' = [count EXCEPT ![o] = @ + 1] /\ UNCHANGED faults
         \/ UNCHANGED count /\ Fails
  BY DEF CountOption, VInv, TypeOK
<1>4. /\ \A p : ~IsUncounted(r, p)
      /\ \A p : IsUncounted(q, p) <=> p = o
      /\ \A u : IsUntotalled(r, u) <=> IsUntotalled(q, u)
  BY <1>1, <1>2 DEF IsUncounted, IsUntotalled
<1> HIDE DEF r, q
<1>5. ASSUME NEW p \in Option
      PROVE  /\ Ahead(p)' \in Nat /\ Ahead(p)' <= Ahead(p)
             /\ faults' = faults => Ahead(p)' = Ahead(p)
  <2>1. Cardinality(Uncounted(p)') =
            Cardinality(Uncounted(p)) + (IF IsUncounted(r, p) THEN 1 ELSE 0)
              - (IF IsUncounted(q, p) THEN 1 ELSE 0)
    BY <1>2, <1>3, FlightMoves DEF VInv, q
  <2>2. Cardinality(Uncounted(p)') = Cardinality(Uncounted(p)) - (IF p = o THEN 1 ELSE 0)
    BY <1>4, <2>1, FlightsFinite
  <2>3. faults \in Nat
    BY DEF VInv, TypeOK
  <2>4. CASE count' = [count EXCEPT ![o] = @ + 1] /\ UNCHANGED faults
    <3>1. count'[p] = count[p] + (IF p = o THEN 1 ELSE 0) /\ count[p] \in Nat
      BY <1>3, <2>4
    <3> HIDE DEF o
    <3>2. Ahead(p)' = Ahead(p)
      BY <2>2, <3>1, FlightsFinite DEF Ahead
    <3> QED
      BY <3>2, AheadType
  <2>5. CASE UNCHANGED count /\ Fails
    <3> HIDE DEF o
    <3>1. Ahead(p)' = Ahead(p) - (IF p = o THEN 1 ELSE 0)
      BY <2>2, <2>5, AheadType, FlightsFinite DEF Ahead
    <3>2. Ahead(p)' \in Nat
      BY <2>5, AheadType, FlightsFinite DEF Ahead
    <3>3. faults' # faults
      BY <2>3, <2>5 DEF Fails
    <3> QED
      BY <3>1, <3>2, <3>3, AheadType
  <2> QED
    BY <1>3, <2>4, <2>5
<1>6. ASSUME NEW u \in Vote
      PROVE  /\ AheadTotal(u)' \in Nat /\ AheadTotal(u)' <= AheadTotal(u)
             /\ faults' = faults => AheadTotal(u)' = AheadTotal(u)
  <2>1. Cardinality(Untotalled(u)') =
            Cardinality(Untotalled(u)) + (IF IsUntotalled(r, u) THEN 1 ELSE 0)
              - (IF IsUntotalled(q, u) THEN 1 ELSE 0)
    BY <1>2, <1>3, FlightMoves DEF VInv, q
  <2>2. Cardinality(Untotalled(u)') = Cardinality(Untotalled(u))
    BY <1>4, <2>1, FlightsFinite
  <2>3. AheadTotal(u)' = AheadTotal(u)
    BY <1>3, <2>2 DEF AheadTotal
  <2> QED
    BY <2>3, AheadType
<1> QED
  BY <1>3, <1>5, <1>6, CountersStep DEF Fails

LEMMA CountTotalCounters ==
  ASSUME VInv, CInv, NEW w \in Voter, NEW s \in Slot, CountTotal(w, s)
  PROVE  CInv'
<1> DEFINE q == submit[w][s]
           v == q.vote
           r == IF Len(q.options) = 1 THEN NoSubmission
                ELSE [q EXCEPT !.at = "insert", !.options = Tail(@)]
<1>1. q \in Submission /\ v \in Vote /\ q.options \in Seq(Option) \ {<<>>} /\ q.at = "total"
  BY CurrentOption DEF CountTotal
<1>2. r \in Submission /\ r.at \in {"idle", "insert"}
  <2>1. CASE Len(q.options) = 1
    BY <2>1, NoSubmissionType
  <2>2. CASE Len(q.options) # 1
    <3>1. Tail(q.options) \in Seq(Option)
      BY <1>1, HeadTailProperties
    <3> QED
      BY <1>1, <2>2, <3>1 DEF Submission, Steps
  <2> QED
    BY <2>1, <2>2
<1>3. /\ Request(w, s, r) /\ UNCHANGED <<count, records>>
      /\ \/ vote' = [vote EXCEPT ![v] = Totalled(vote[v])] /\ UNCHANGED faults
         \/ UNCHANGED vote /\ Fails
  BY DEF CountTotal
<1>4. /\ \A p : ~IsUncounted(r, p) /\ ~IsUncounted(q, p)
      /\ \A u : IsUntotalled(q, u) <=> u = v
      /\ \A u : ~IsUntotalled(r, u)
  BY <1>1, <1>2 DEF IsUncounted, IsUntotalled
<1>5. ASSUME vote' = [vote EXCEPT ![v] = Totalled(vote[v])], NEW u \in Vote
      PROVE  vote'[u].total = vote[u].total + (IF u = v THEN 1 ELSE 0)
  <2>1. vote \in [Vote -> Row] /\ vote[v] \in Row /\ vote[u] \in Row
    BY <1>1 DEF VInv, TypeOK
  <2>2. Totalled(vote[v]).total = vote[v].total + 1
    BY <2>1 DEF Totalled, Row
  <2>3. vote[u].total \in Nat
    BY <2>1 DEF Row
  <2> QED
    BY <1>1, <1>5, <2>1, <2>2, <2>3
<1> HIDE DEF r, q
<1>6. ASSUME NEW p \in Option
      PROVE  /\ Ahead(p)' \in Nat /\ Ahead(p)' <= Ahead(p)
             /\ faults' = faults => Ahead(p)' = Ahead(p)
  <2>1. Cardinality(Uncounted(p)') =
            Cardinality(Uncounted(p)) + (IF IsUncounted(r, p) THEN 1 ELSE 0)
              - (IF IsUncounted(q, p) THEN 1 ELSE 0)
    BY <1>2, <1>3, FlightMoves DEF VInv, q
  <2>2. Cardinality(Uncounted(p)') = Cardinality(Uncounted(p))
    BY <1>4, <2>1, FlightsFinite
  <2>3. Ahead(p)' = Ahead(p)
    BY <1>3, <2>2 DEF Ahead
  <2> QED
    BY <2>3, AheadType
<1>7. ASSUME NEW u \in Vote
      PROVE  /\ AheadTotal(u)' \in Nat /\ AheadTotal(u)' <= AheadTotal(u)
             /\ faults' = faults => AheadTotal(u)' = AheadTotal(u)
  <2>1. Cardinality(Untotalled(u)') =
            Cardinality(Untotalled(u)) + (IF IsUntotalled(r, u) THEN 1 ELSE 0)
              - (IF IsUntotalled(q, u) THEN 1 ELSE 0)
    BY <1>2, <1>3, FlightMoves DEF VInv, q
  <2>2. Cardinality(Untotalled(u)') = Cardinality(Untotalled(u)) - (IF u = v THEN 1 ELSE 0)
    BY <1>4, <2>1, FlightsFinite
  <2>3. faults \in Nat
    BY DEF VInv, TypeOK
  <2> HIDE DEF v
  <2>4. CASE vote' = [vote EXCEPT ![v] = Totalled(vote[v])] /\ UNCHANGED faults
    <3>1. AheadTotal(u)' = AheadTotal(u)
      BY <1>5, <2>2, <2>4, FlightsFinite, AheadType DEF AheadTotal
    <3> QED
      BY <3>1, AheadType
  <2>5. CASE UNCHANGED vote /\ Fails
    <3>1. AheadTotal(u)' = AheadTotal(u) - (IF u = v THEN 1 ELSE 0)
      BY <2>2, <2>5, AheadType, FlightsFinite DEF AheadTotal
    <3>2. AheadTotal(u)' \in Nat
      BY <2>5, AheadType, FlightsFinite DEF AheadTotal
    <3>3. faults' # faults
      BY <2>3, <2>5 DEF Fails
    <3> QED
      BY <3>1, <3>2, <3>3, AheadType
  <2> QED
    BY <1>3, <2>4, <2>5
<1> QED
  BY <1>3, <1>6, <1>7, CountersStep DEF Fails

LEMMA AdministrateCounters ==
  ASSUME VInv, CInv, Administrate
  PROVE  CInv'
<1>1. /\ vote \in [Vote -> Row] /\ count \in [Option -> Nat]
      /\ \A v \in Vote : vote[v].total \in Nat
  BY DEF VInv, TypeOK, Row
<1>2. ASSUME NEW e \in Editor, NEW v \in Vote, NEW status, NEW limit, NEW choices, NEW n,
             CreateVote(e, v, status, limit, choices, n)
      PROVE  CInv'
  <2>1. \A u \in Vote : vote'[u].total = vote[u].total
    BY <1>1, <1>2 DEF CreateVote, NoRow
  <2> QED
    BY <1>2, <2>1, EditCounters DEF CreateVote
<1>3. ASSUME NEW e \in Editor, NEW v \in Vote, NEW status, NEW limit, NEW choices, NEW n,
             UpdateVote(e, v, status, limit, choices, n)
      PROVE  CInv'
  <2>1. \A u \in Vote : vote'[u].total = vote[u].total
    BY <1>1, <1>3 DEF UpdateVote, Row
  <2> QED
    BY <1>3, <2>1, EditCounters DEF UpdateVote
<1>4. ASSUME NEW v \in Vote, DeleteVote(v)
      PROVE  CInv'
  <2>1. \A u \in Vote : vote'[u].total = vote[u].total
    BY <1>1, <1>4 DEF DeleteVote, Row
  <2> QED
    BY <1>4, <2>1, EditCounters DEF DeleteVote
<1>5. ASSUME NEW e \in Editor, DeleteOptionsByVoteID(e)
      PROVE  CInv'
  <2>1. \A o \in Option : count'[o] = count[o]
    <3>1. \A o \in Option : ~Referenced(o) => count[o] = 0
      BY <1>1 DEF VInv, VotesBacked, CounterBacked
    <3> QED
      BY <1>1, <1>5, <3>1 DEF DeleteOptionsByVoteID, RefusedIf, OptionsOf
  <2>2. UNCHANGED <<vote, records, submit>> /\ (UNCHANGED faults \/ Fails)
    BY <1>5 DEF DeleteOptionsByVoteID, RefusedIf
  <2> QED
    BY <2>1, <2>2, EditCounters
<1>6. ASSUME NEW e \in Editor, CreateOption(e)
      PROVE  CInv'
  <2>1. UNCHANGED <<vote, count, records, submit>> /\ (UNCHANGED faults \/ Fails)
    BY <1>6 DEF CreateOption
  <2> QED
    BY <2>1, EditCounters
<1> QED
  BY <1>2, <1>3, <1>4, <1>5, <1>6 DEF Administrate

LEMMA CountersNext ==
  ASSUME VInv, CInv, [Next]_vars
  PROVE  CInv'
<1>1. ASSUME NEW w \in Voter, NEW s \in Slot, NEW v \in Vote, NEW ballot \in Ballot,
             ReadVote(w, s, v, ballot)
      PROVE  CInv'
  <2> DEFINE r == [at |-> "count", vote |-> v, options |-> ballot, max_votes |-> vote[v].max_votes]
  <2>1. r \in Submission
    BY InputAssumption DEF VInv, TypeOK, Row, Submission, Steps
  <2>2. /\ Request(w, s, r) /\ UNCHANGED <<records, count, vote, faults>>
        /\ r.at = "count" /\ submit[w][s].at = "idle"
    BY <1>1 DEF ReadVote
  <2> HIDE DEF r
  <2> QED
    BY <2>1, <2>2, RequestCounters
<1>2. ASSUME NEW w \in Voter, NEW s \in Slot, CheckMaxVotes(w, s)
      PROVE  CInv'
  <2>1. PICK r \in {NoSubmission, [submit[w][s] EXCEPT !.at = "insert"]} : Request(w, s, r)
    BY <1>2 DEF CheckMaxVotes, RefusedIf
  <2>2. r \in Submission /\ r.at \in {"idle", "insert"}
    <3>1. submit[w][s] \in Submission
      BY DEF VInv, TypeOK
    <3>2. CASE r = NoSubmission
      BY <3>2, NoSubmissionType
    <3>3. CASE r = [submit[w][s] EXCEPT !.at = "insert"]
      BY <3>1, <3>3 DEF Submission, Steps
    <3> QED
      BY <2>1, <3>2, <3>3
  <2>3. /\ UNCHANGED <<records, count, vote>> /\ (UNCHANGED faults \/ Fails)
        /\ submit[w][s].at = "count"
    BY <1>2 DEF CheckMaxVotes, RefusedIf
  <2> QED
    BY <2>1, <2>2, <2>3, RequestCounters
<1>3. CASE UNCHANGED vars
  BY <1>3, EditCounters DEF vars
<1> QED
  BY <1>1, <1>2, <1>3, AdministrateCounters, InsertRecordCounters, CountOptionCounters,
     CountTotalCounters DEF Next, SubmitVote

LEMMA InitRows ==
  ASSUME Init, NEW V, NEW O, NEW W, V \subseteq Vote, O \subseteq Option, W \subseteq Voter
  PROVE  Rows(V, O, W) = {}
<1>1. \A v \in V, o \in O, w \in W : records[v][o][w] = 0
  BY DEF Init
<1>2. \A y : y \notin RowsIn(records, V, O, W)
  <2>1. \A i \in Nat : i \notin 1 .. 0
    OBVIOUS
  <2> QED
    BY <1>1, <2>1, RowsMember
<1>3. Rows(V, O, W) = RowsIn(records, V, O, W)
  BY DEF Rows, RowsIn
<1> QED
  BY <1>2, <1>3

LEMMA InitCounters == Init => CInv
<1> SUFFICES ASSUME Init PROVE CInv
  OBVIOUS
<1>1. ASSUME NEW V, NEW O, NEW W, V \subseteq Vote, O \subseteq Option, W \subseteq Voter
      PROVE  Rows(V, O, W) = {}
  BY <1>1, InitRows
<1>2. /\ RowsFinite
      /\ \A o \in Option : RecordsOfOption(o) = 0
      /\ \A v \in Vote : RecordsOfVote(v) = 0
  BY <1>1, FS_EmptySet DEF RowsFinite, RecordsOfOption, RecordsOfVote
<1>3. /\ \A o : Uncounted(o) = {}
      /\ \A v : Untotalled(v) = {}
  BY DEF Init, Uncounted, Untotalled, InFlight, NoSubmission
<1>4. CountersFollowRecords
  <2>1. \A o \in Option : count[o] = 0 /\ Cardinality(Uncounted(o)) = 0
    BY <1>3, FS_EmptySet DEF Init
  <2>2. \A v \in Vote : vote[v].total = 0 /\ Cardinality(Untotalled(v)) = 0
    BY <1>3, FS_EmptySet DEF Init, NoRow
  <2> QED
    BY <1>2, <2>1, <2>2 DEF CountersFollowRecords
<1> QED
  BY <1>2, <1>4 DEF CInv

\* vote_count and total_votes never run ahead of the records, and fall behind
\* only by what is being counted and by statements that failed (vote.go, SubmitVote).
THEOREM CountersKeepUp == Spec => []CountersFollowRecords
<1>1. VInv /\ CInv /\ [Next]_vars => CInv'
  BY CountersNext
<1>2. CInv => CountersFollowRecords
  BY DEF CInv
<1> QED
  BY <1>1, <1>2, InitCounters, VotesStayBacked, PTL DEF Spec

-----------------------------------------------------------------------------
(* Voting implements BallotBox *)

LEMMA SameCardinality == \A S : Box!Cardinality(S) = Cardinality(S)
BY DEF Box!Cardinality, Cardinality

\* The slips of the box are the rows of vote_records.
LEMMA SlipsAreRows ==
  ASSUME NEW V, NEW O, NEW W, V \subseteq Vote, O \subseteq Option, W \subseteq Voter
  PROVE  Box!Slips(V, O, W) = Rows(V, O, W)
<1> DEFINE All == Rows(Vote, Option, Voter)
           S == Rows(V, O, W)
<1>0. All = RowsIn(records, Vote, Option, Voter) /\ S = RowsIn(records, V, O, W)
  BY DEF Rows, RowsIn
<1>1. \A y : y \in All <=> \E v \in Vote, o \in Option, w \in Voter, i \in Nat :
                            i \in 1 .. records[v][o][w] /\ y = <<<<v, o, w>>, i>>
  BY <1>0, RowsMember
<1>2. \A y : y \in S <=> \E v \in V, o \in O, w \in W, i \in Nat :
                          i \in 1 .. records[v][o][w] /\ y = <<<<v, o, w>>, i>>
  BY <1>0, RowsMember
<1>3. Box!Slips(V, O, W) = {y \in All : y[1][1] \in V /\ y[1][2] \in O /\ y[1][3] \in W}
  BY DEF Box!Slips
<1> HIDE DEF All, S
<1>4. ASSUME NEW y \in S
      PROVE  y \in All /\ y[1][1] \in V /\ y[1][2] \in O /\ y[1][3] \in W
  <2>1. PICK v \in V, o \in O, w \in W, i \in Nat :
          i \in 1 .. records[v][o][w] /\ y = <<<<v, o, w>>, i>>
    BY <1>2
  <2>2. y \in All
    BY <1>1, <2>1
  <2> QED
    BY <2>1, <2>2
<1>5. ASSUME NEW y \in All, y[1][1] \in V, y[1][2] \in O, y[1][3] \in W
      PROVE  y \in S
  <2>1. PICK v \in Vote, o \in Option, w \in Voter, i \in Nat :
          i \in 1 .. records[v][o][w] /\ y = <<<<v, o, w>>, i>>
    BY <1>1
  <2>2. v \in V /\ o \in O /\ w \in W
    BY <1>5, <2>1
  <2> QED
    BY <1>2, <2>1, <2>2
<1> QED
  BY <1>3, <1>4, <1>5 DEF S

\* A voter's records for an option of a vote have as many rows as they say.
LEMMA RowsOfOne ==
  ASSUME TypeOK, NEW v \in Vote, NEW o \in Option, NEW w \in Voter
  PROVE  Cardinality(Rows({v}, {o}, {w})) = records[v][o][w]
<1> DEFINE n == records[v][o][w]
           I == 1 .. n
           t == <<v, o, w>>
<1>1. n \in Nat
  BY DEF TypeOK
<1>2. \A y : y \in Rows({v}, {o}, {w}) <=> \E i \in I : y = <<t, i>>
  <2>1. Rows({v}, {o}, {w}) = RowsIn(records, {v}, {o}, {w})
    BY DEF Rows, RowsIn
  <2>2. I \subseteq Nat
    OBVIOUS
  <2>3. \A y : y \in RowsIn(records, {v}, {o}, {w}) <=>
              \E u \in {v}, p \in {o}, x \in {w}, i \in Nat :
                i \in 1 .. records[u][p][x] /\ y = <<<<u, p, x>>, i>>
    BY RowsMember
  <2> QED
    BY <2>1, <2>2, <2>3
<1>3. IsFiniteSet(I) /\ Cardinality(I) = n
  <2> HIDE DEF n
  <2>1. 1 \in Int /\ n \in Int /\ (1 > n <=> n = 0) /\ n - 1 + 1 = n
    BY <1>1
  <2> QED
    BY <2>1, FS_Interval
<1>4. IsFiniteSet({t}) /\ Cardinality({t}) = 1
  BY FS_Singleton
<1> HIDE DEF n, I, t
<1>5. Cardinality({t} \X I) = 1 * n
  BY <1>3, <1>4, FS_Product
<1>6. Rows({v}, {o}, {w}) = {t} \X I
  <2> DEFINE S == Rows({v}, {o}, {w})
             T == {t} \X I
  <2>1. \A y : y \in T <=> \E i \in I : y = <<t, i>>
    OBVIOUS
  <2> HIDE DEF S, T
  <2>2. \A y : y \in S <=> y \in T
    BY <1>2, <2>1 DEF S
  <2> QED
    BY <2>2 DEF S, T
<1>7. 1 * n = n
  BY <1>1
<1>8. Cardinality(Rows({v}, {o}, {w})) = n
  BY <1>5, <1>6, <1>7
<1> QED
  BY <1>8 DEF n

\* Options without a record have no slips.
LEMMA NoSlips ==
  ASSUME TypeOK, NEW O, O \subseteq Option, \A o \in O : ~Referenced(o)
  PROVE  Rows(Vote, O, Voter) = {}
<1>1. ASSUME NEW v \in Vote, NEW o \in O, NEW w \in Voter, NEW i \in Nat
      PROVE  i \notin 1 .. records[v][o][w]
  <2>1. records[v][o][w] \in Nat /\ ~(records[v][o][w] > 0)
    BY DEF TypeOK, Referenced
  <2> QED
    BY <2>1
<1>2. \A y : y \notin RowsIn(records, Vote, O, Voter)
  BY <1>1, RowsMember
<1> QED
  BY <1>2 DEF Rows, RowsIn

\* The submission that counts has a record its counter has not got yet.
LEMMA CounterBehind ==
  ASSUME VInv, CInv, NEW w \in Voter, NEW s \in Slot
  PROVE  /\ \A o \in Option : submit[w][s].at = "option" /\ Head(submit[w][s].options) = o
              => count[o] < RecordsOfOption(o)
         /\ \A v \in Vote : submit[w][s].at = "total" /\ submit[w][s].vote = v
              => vote[v].total < RecordsOfVote(v)
<1>1. ASSUME NEW S, IsFiniteSet(S), <<w, s>> \in S
      PROVE  Cardinality(S) \in Nat \ {0}
  BY <1>1, FS_CardinalityType, FS_EmptySet
<1>2. ASSUME NEW o \in Option, submit[w][s].at = "option", Head(submit[w][s].options) = o
      PROVE  count[o] < RecordsOfOption(o)
  <2>1. <<w, s>> \in Uncounted(o)
    BY <1>2 DEF Uncounted, InFlight
  <2>2. Cardinality(Uncounted(o)) \in Nat \ {0}
    BY <1>1, <2>1, FlightsFinite
  <2>3. count[o] \in Nat /\ RecordsOfOption(o) \in Nat
    BY SomeRows, AheadType DEF CInv, RecordsOfOption
  <2>4. count[o] + Cardinality(Uncounted(o)) <= RecordsOfOption(o)
    BY DEF CInv, CountersFollowRecords
  <2> QED
    BY <2>2, <2>3, <2>4
<1>3. ASSUME NEW v \in Vote, submit[w][s].at = "total", submit[w][s].vote = v
      PROVE  vote[v].total < RecordsOfVote(v)
  <2>1. <<w, s>> \in Untotalled(v)
    BY <1>3 DEF Untotalled, InFlight
  <2>2. Cardinality(Untotalled(v)) \in Nat \ {0}
    BY <1>1, <2>1, FlightsFinite
  <2>3. vote[v].total \in Nat /\ RecordsOfVote(v) \in Nat
    BY SomeRows, AheadType DEF CInv, RecordsOfVote
  <2>4. vote[v].total + Cardinality(Untotalled(v)) <= RecordsOfVote(v)
    BY DEF CInv, CountersFollowRecords
  <2> QED
    BY <2>2, <2>3, <2>4
<1> QED
  BY <1>2, <1>3

\* A statement that leaves the tables alone, or writes of a vote only what its
\* handlers test, leaves the box alone.
LEMMA BoxStays ==
  ASSUME VInv, UNCHANGED <<optionOf, used, count, records>>,
         \A v \in Vote : vote'[v].total = vote[v].total
  PROVE  UNCHANGED Box!box
<1>1. Rows(Vote, Option, Voter)' = Rows(Vote, Option, Voter)
  BY DEF Rows
<1>2. voteTotals' = voteTotals
  BY DEF voteTotals
<1> QED
  BY <1>1, <1>2 DEF Box!box

LEMMA AdministrateRefines ==
  ASSUME VInv, Administrate
  PROVE  [Box!Next]_Box!box
<1>1. /\ vote \in [Vote -> Row] /\ optionOf \in [Option -> Vote \cup {NoVote}]
      /\ count \in [Option -> Nat] /\ TypeOK
  BY DEF VInv, TypeOK
<1>2. ASSUME NEW e \in Editor, NEW v \in Vote, NEW status, NEW limit, NEW choices, NEW n,
             \/ CreateVote(e, v, status, limit, choices, n)
             \/ UpdateVote(e, v, status, limit, choices, n)
      PROVE  UNCHANGED Box!box
  <2>1. \A u \in Vote : vote'[u].total = vote[u].total
    <3>1. CASE CreateVote(e, v, status, limit, choices, n)
      BY <1>1, <3>1 DEF CreateVote, NoRow
    <3>2. CASE UpdateVote(e, v, status, limit, choices, n)
      BY <1>1, <3>2 DEF UpdateVote, Row
    <3> QED
      BY <1>2, <3>1, <3>2
  <2>2. UNCHANGED <<optionOf, used, count, records>>
    BY <1>2 DEF CreateVote, UpdateVote
  <2> QED
    BY <2>1, <2>2, BoxStays
<1>3. ASSUME NEW v \in Vote, DeleteVote(v)
      PROVE  UNCHANGED Box!box
  <2>1. \A u \in Vote : vote'[u].total = vote[u].total
    BY <1>1, <1>3 DEF DeleteVote, Row
  <2> QED
    BY <1>3, <2>1, BoxStays DEF DeleteVote
<1>4. ASSUME NEW e \in Editor, DeleteOptionsByVoteID(e)
      PROVE  [Box!Next]_Box!box
  <2> DEFINE v == edit[e].vote
  <2>1. v \in Vote
    BY <1>4 DEF VInv, VotesBacked, EditSound, DeleteOptionsByVoteID
  <2>2. CASE UNCHANGED <<optionOf, count>>
    BY <1>4, <2>2, BoxStays DEF DeleteOptionsByVoteID
  <2>3. ASSUME \A o \in OptionsOf(v) : ~Referenced(o),
               optionOf' = [o \in Option |-> IF optionOf[o] = v THEN NoVote ELSE optionOf[o]],
               count' = [o \in Option |-> IF optionOf[o] = v THEN 0 ELSE count[o]]
        PROVE  Box!Withdraw(v)
    <3>1. UNCHANGED <<vote, used, records>>
      BY <1>4 DEF DeleteOptionsByVoteID
    <3>2. UNCHANGED <<Rows(Vote, Option, Voter), voteTotals>>
      BY <3>1 DEF Rows, voteTotals
    <3>3. count' = count
      <4>1. \A o \in Option : optionOf[o] = v => count[o] = 0
        BY <1>1, <2>3 DEF VInv, VotesBacked, CounterBacked, OptionsOf
      <4> QED
        BY <1>1, <2>3, <4>1
    <3>4. Box!Slips(Vote, OptionsOf(v), Voter) = {}
      BY <1>1, <2>3, NoSlips, SlipsAreRows DEF OptionsOf
    <3>5. optionOf' = [o \in Option |-> IF o \in OptionsOf(v) THEN NoVote ELSE optionOf[o]]
      BY <2>3 DEF OptionsOf
    <3> HIDE DEF v
    <3> QED
      BY <3>1, <3>2, <3>3, <3>4, <3>5 DEF Box!Withdraw, OptionsOf
  <2> QED
    BY <1>4, <2>1, <2>2, <2>3 DEF DeleteOptionsByVoteID, Box!Next
<1>5. ASSUME NEW e \in Editor, CreateOption(e)
      PROVE  [Box!Next]_Box!box
  <2>1. edit[e].vote \in Vote
    BY <1>5 DEF VInv, VotesBacked, EditSound, CreateOption
  <2>2. UNCHANGED <<vote, count, records>>
    BY <1>5 DEF CreateOption
  <2>3. UNCHANGED <<Rows(Vote, Option, Voter), voteTotals>>
    BY <2>2 DEF Rows, voteTotals
  <2>4. CASE UNCHANGED <<optionOf, used>>
    BY <2>2, <2>4, BoxStays
  <2>5. ASSUME NEW o \in Option \ used, optionOf' = [optionOf EXCEPT ![o] = edit[e].vote],
               used' = used \cup {o}
        PROVE  Box!Offer(o, edit[e].vote)
    BY <2>2, <2>3, <2>5 DEF Box!Offer
  <2> QED
    BY <1>5, <2>1, <2>4, <2>5 DEF CreateOption, Box!Next
<1> QED
  BY <1>2, <1>3, <1>4, <1>5 DEF Administrate

LEMMA SubmitRefines ==
  ASSUME VInv, CInv, NEW w \in Voter, NEW s \in Slot, SubmitVote(w, s)
  PROVE  [Box!Next]_Box!box
<1> DEFINE q == submit[w][s]
           o == Head(q.options)
           v == q.vote
<1>1. TypeOK /\ vote \in [Vote -> Row] /\ count \in [Option -> Nat] /\ optionOf \in [Option -> Vote \cup {NoVote}]
  BY DEF VInv, TypeOK
<1>2. q.at # "idle" => v \in Vote /\ o \in Option
  BY CurrentOption
<1>3. ASSUME UNCHANGED <<vote, optionOf, used, count, records>>
      PROVE  UNCHANGED Box!box
  BY <1>3, BoxStays
<1>4. ASSUME NEW u \in Vote, NEW ballot \in Ballot, ReadVote(w, s, u, ballot)
      PROVE  UNCHANGED Box!box
  BY <1>3, <1>4 DEF ReadVote
<1>5. CASE CheckMaxVotes(w, s)
  BY <1>3, <1>5 DEF CheckMaxVotes
<1>6. CASE InsertRecord(w, s)
  <2>1. UNCHANGED <<vote, optionOf, used, count>> /\ v \in Vote /\ o \in Option
    BY <1>2, <1>6 DEF InsertRecord
  <2>2. CASE UNCHANGED records
    BY <1>3, <2>1, <2>2
  <2>3. ASSUME optionOf[o] # NoVote, Recorded(v, o, w)
        PROVE  Box!Cast(v, o, w)
    <3> HIDE DEF o, v
    <3>1. Rows(Vote, Option, Voter)' = RowsIn(records', Vote, Option, Voter)
      BY DEF Rows, RowsIn
    <3>2. RowsIn(records', Vote, Option, Voter) = Rows(Vote, Option, Voter) \cup {NewRow(v, o, w)}
      BY <1>1, <2>1, <2>3, RowAdded
    <3>3. Box!Cardinality(Box!Slips({v}, {o}, {w})) = records[v][o][w]
      <4>1. {v} \subseteq Vote /\ {o} \subseteq Option /\ {w} \subseteq Voter
        BY <2>1
      <4>2. Box!Slips({v}, {o}, {w}) = Rows({v}, {o}, {w})
        BY <4>1, SlipsAreRows
      <4>3. Cardinality(Rows({v}, {o}, {w})) = records[v][o][w]
        BY <1>1, <2>1, RowsOfOne
      <4> QED
        BY <4>2, <4>3, SameCardinality
    <3>4. voteTotals' = voteTotals
      BY <2>1 DEF voteTotals
    <3> QED
      BY <2>1, <2>3, <3>1, <3>2, <3>3, <3>4 DEF Box!Cast, NewRow
  <2>4. \/ UNCHANGED records
        \/ optionOf[o] # NoVote /\ Recorded(v, o, w)
    BY <1>6 DEF InsertRecord, Recorded
  <2> QED
    BY <2>1, <2>2, <2>3, <2>4 DEF Box!Next
<1>7. CASE CountOption(w, s)
  <2>1. UNCHANGED <<vote, optionOf, used, records>> /\ q.at = "option" /\ o \in Option
    BY <1>2, <1>7 DEF CountOption
  <2>2. CASE UNCHANGED count
    BY <1>3, <2>1, <2>2
  <2>3. ASSUME count' = [count EXCEPT ![o] = @ + 1]
        PROVE  Box!Count(o)
    <3>1. count[o] < RecordsOfOption(o)
      BY <2>1, CounterBehind
    <3> HIDE DEF o
    <3>2. Box!Slips(Vote, {o}, Voter) = Rows(Vote, {o}, Voter)
      BY <2>1, SlipsAreRows
    <3>3. UNCHANGED <<Rows(Vote, Option, Voter), voteTotals>>
      BY <2>1 DEF Rows, voteTotals
    <3> QED
      BY <2>1, <2>3, <3>1, <3>2, <3>3, SameCardinality DEF Box!Count, RecordsOfOption
  <2> QED
    BY <1>7, <2>1, <2>2, <2>3 DEF CountOption, Box!Next
<1>8. CASE CountTotal(w, s)
  <2>1. UNCHANGED <<optionOf, used, count, records>> /\ q.at = "total" /\ v \in Vote
    BY <1>2, <1>8 DEF CountTotal
  <2>2. CASE UNCHANGED vote
    BY <1>3, <2>1, <2>2
  <2>3. ASSUME vote' = [vote EXCEPT ![v] = Totalled(@)]
        PROVE  Box!Total(v)
    <3>1. vote[v].total < RecordsOfVote(v)
      BY <2>1, CounterBehind
    <3> HIDE DEF v
    <3>2. Box!Slips({v}, Option, Voter) = Rows({v}, Option, Voter)
      BY <2>1, SlipsAreRows
    <3>3. UNCHANGED Rows(Vote, Option, Voter)
      BY <2>1 DEF Rows
    <3>4. voteTotals' = [voteTotals EXCEPT ![v] = @ + 1]
      <4>1. Totalled(vote[v]).total = vote[v].total + 1
        BY <1>1, <2>1 DEF Totalled, Row
      <4>2. /\ vote'[v] = Totalled(vote[v])
            /\ \A u \in Vote \ {v} : vote'[u] = vote[u]
        BY <1>1, <2>1, <2>3
      <4> QED
        BY <2>1, <4>1, <4>2 DEF voteTotals
    <3>5. voteTotals[v] < Box!Cardinality(Box!Slips({v}, Option, Voter))
      BY <2>1, <3>1, <3>2, SameCardinality DEF voteTotals, RecordsOfVote
    <3> QED
      BY <2>1, <3>3, <3>4, <3>5 DEF Box!Total
  <2> QED
    BY <1>8, <2>1, <2>2, <2>3 DEF CountTotal, Box!Next
<1> QED
  BY <1>4, <1>5, <1>6, <1>7, <1>8 DEF SubmitVote

\* Voting implements BallotBox: whatever submissions, edits and failing
\* statements interleave, slips stay, options with slips stay, and the counters
\* of vote.go only grow, up to the slips.
THEOREM VotesFollowBallotBox == Spec => ImplementsBallotBox
<1>1. Init => Box!Init
  <2> SUFFICES ASSUME Init PROVE Box!Init
    OBVIOUS
  <2>1. Rows(Vote, Option, Voter) = {}
    BY InitRows
  <2>2. voteTotals = [v \in Vote |-> 0]
    BY DEF Init, voteTotals, NoRow
  <2> QED
    BY <2>1, <2>2 DEF Init, Box!Init
<1>2. VInv /\ CInv /\ [Next]_vars => [Box!Next]_Box!box
  <2>1. ASSUME VInv, UNCHANGED vars
        PROVE  UNCHANGED Box!box
    BY <2>1, BoxStays DEF vars
  <2> QED
    BY <2>1, AdministrateRefines, SubmitRefines DEF Next
<1>3. VInv /\ CInv /\ [Next]_vars => CInv'
  BY CountersNext
<1> QED
  BY <1>1, <1>2, <1>3, InitCounters, VotesStayBacked, PTL DEF Spec, ImplementsBallotBox, Box!Spec

-----------------------------------------------------------------------------
(* The limit: L and C bound what is given for max_votes and max_choices *)

RowGiven(v) == vote[v].max_votes \in MaxVotes /\ vote[v].choices \in MaxChoices

\* Whatever is recorded or under way is of a vote that was created.
RowsGiven ==
  /\ \A v \in Vote : vote[v].exists = 1 => RowGiven(v)
  /\ \A v \in Vote, o \in Option, w \in Voter : records[v][o][w] > 0 => RowGiven(v)
  /\ \A w \in Voter, s \in Slot, v \in Vote :
       submit[w][s].at # "idle" /\ submit[w][s].vote = v => RowGiven(v)

BallotsLimited(L, C) ==
  \A w \in Voter, s \in Slot :
    submit[w][s].at # "idle" => submit[w][s].max_votes \in 1 .. L /\ Len(submit[w][s].options) <= C

\* The records a submission that was let through may still write.
ToWrite(r) == IF r.at = "insert" THEN Len(r.options)
              ELSE IF r.at \in {"option", "total"} THEN Len(r.options) - 1 ELSE 0

Pending(v, w, C) ==
  {x \in Slot \X (1 .. C) : submit[w][x[1]].vote = v /\ x[2] <= ToWrite(submit[w][x[1]])}

PendingLimited(L, C) ==
  \A v \in Vote, w \in Voter :
    CountVotesByUser(v, w) + Cardinality(Pending(v, w, C)) < L + C * Cardinality(Slot)

LInv(L, C) == RowsGiven /\ BallotsLimited(L, C) /\ PendingLimited(L, C)

Limits(L, C) ==
  /\ L \in Nat \ {0} /\ C \in Nat
  /\ MaxVotes \subseteq 1 .. L
  /\ MaxChoices \subseteq 1 .. C

LEMMA RowsStayGiven ==
  ASSUME TypeOK, NEW v \in Vote, RowGiven(v), [Next]_vars
  PROVE  RowGiven(v)'
<1>1. vote \in [Vote -> Row] /\ vote[v] \in Row
  BY DEF TypeOK
<1>2. CASE Administrate
  <2>1. ASSUME NEW e \in Editor, NEW u \in Vote, NEW status, NEW limit \in MaxVotes,
               NEW choices \in MaxChoices, NEW n,
               CreateVote(e, u, status, limit, choices, n) \/ UpdateVote(e, u, status, limit, choices, n)
        PROVE  RowGiven(v)'
    <3>1. CASE CreateVote(e, u, status, limit, choices, n)
      <4> DEFINE row == [exists |-> 1, status |-> status, max_votes |-> limit,
                         choices |-> choices, total |-> 0]
      <4>1. vote' = [vote EXCEPT ![u] = row] /\ row.max_votes = limit /\ row.choices = choices
        BY <3>1 DEF CreateVote
      <4> HIDE DEF row
      <4> QED
        BY <1>1, <4>1 DEF RowGiven
    <3>2. CASE UpdateVote(e, u, status, limit, choices, n)
      <4> DEFINE row == [vote[u] EXCEPT !.status = status, !.max_votes = limit, !.choices = choices]
      <4>1. vote[u] \in Row
        BY DEF TypeOK
      <4>2. vote' = [vote EXCEPT ![u] = row]
        BY <3>2 DEF UpdateVote
      <4>3. row.max_votes = limit /\ row.choices = choices
        BY <4>1 DEF Row
      <4> HIDE DEF row
      <4> QED
        BY <1>1, <4>2, <4>3 DEF RowGiven
    <3> QED
      BY <2>1, <3>1, <3>2
  <2>2. ASSUME NEW u \in Vote, DeleteVote(u)
        PROVE  RowGiven(v)'
    BY <1>1, <2>2 DEF DeleteVote, RowGiven, Row
  <2>3. ASSUME NEW e \in Editor, DeleteOptionsByVoteID(e) \/ CreateOption(e)
        PROVE  RowGiven(v)'
    <3>1. UNCHANGED vote
      BY <2>3 DEF DeleteOptionsByVoteID, CreateOption
    <3> QED
      BY <3>1 DEF RowGiven
  <2> QED
    BY <1>2, <2>1, <2>2, <2>3 DEF Administrate
<1>3. ASSUME NEW w \in Voter, NEW s \in Slot, CountTotal(w, s)
      PROVE  RowGiven(v)'
  <2>1. UNCHANGED vote \/ vote' = [vote EXCEPT ![submit[w][s].vote] = Totalled(@)]
    BY <1>3 DEF CountTotal
  <2> QED
    BY <1>1, <2>1 DEF RowGiven, Row, Totalled
<1>4. ASSUME NEW w \in Voter, NEW s \in Slot,
             \/ \E u \in Vote, ballot \in Ballot : ReadVote(w, s, u, ballot)
             \/ CheckMaxVotes(w, s) \/ InsertRecord(w, s) \/ CountOption(w, s)
      PROVE  RowGiven(v)'
  <2>1. UNCHANGED vote
    BY <1>4 DEF ReadVote, CheckMaxVotes, InsertRecord, CountOption
  <2> QED
    BY <2>1 DEF RowGiven
<1>5. CASE UNCHANGED vars
  BY <1>5 DEF vars, RowGiven
<1> QED
  BY <1>2, <1>3, <1>4, <1>5 DEF Next, SubmitVote

LEMMA PendingFinite ==
  ASSUME NEW C \in Nat, NEW v, NEW w
  PROVE  /\ IsFiniteSet(Pending(v, w, C)) /\ IsFiniteSet(Pending(v, w, C)')
         /\ Cardinality(Pending(v, w, C)) \in Nat /\ Cardinality(Pending(v, w, C)') \in Nat
         /\ Cardinality(Slot) \in Nat /\ C * Cardinality(Slot) \in Nat
         /\ Cardinality(Pending(v, w, C)) <= C * Cardinality(Slot)
         /\ Cardinality(Pending(v, w, C)') <= C * Cardinality(Slot)
<1> DEFINE All == Slot \X (1 .. C)
<1>1. IsFiniteSet(Slot) /\ Cardinality(Slot) \in Nat
  BY IdAssumption, FS_CardinalityType
<1>2. IsFiniteSet(1 .. C) /\ Cardinality(1 .. C) = C
  BY FS_Interval
<1>3. IsFiniteSet(All) /\ Cardinality(All) = Cardinality(Slot) * Cardinality(1 .. C)
  BY <1>1, <1>2, FS_Product
<1>4. Cardinality(All) = C * Cardinality(Slot) /\ C * Cardinality(Slot) \in Nat
  BY <1>1, <1>2, <1>3
<1>5. Pending(v, w, C) \subseteq All /\ Pending(v, w, C)' \subseteq All
  BY DEF Pending
<1> HIDE DEF All
<1>6. \A S : S \subseteq All => /\ IsFiniteSet(S) /\ Cardinality(S) \in Nat
                                /\ Cardinality(S) <= Cardinality(All)
  BY <1>3, FS_Subset, FS_CardinalityType
<1> QED
  BY <1>1, <1>4, <1>5, <1>6

\* A submission has nothing more to write than before, or nothing at all.
LEMMA PendingShrinks ==
  ASSUME TypeOK, NEW w \in Voter, NEW s \in Slot, NEW r \in Submission, Request(w, s, r),
         NEW C \in Nat, NEW v, NEW y \in Voter,
         y = w /\ r.vote = v /\ ToWrite(r) > 0 =>
           submit[w][s].vote = v /\ ToWrite(r) <= ToWrite(submit[w][s])
  PROVE  Cardinality(Pending(v, y, C)') <= Cardinality(Pending(v, y, C))
<1>1. /\ submit'[w][s] = r
      /\ \A x \in Voter, t \in Slot : ~(x = w /\ t = s) => submit'[x][t] = submit[x][t]
  BY RequestEffect
<1>2. \A q \in Submission : ToWrite(q) \in Int
  BY DEF ToWrite, Submission
<1>3. submit[w][s] \in Submission
  BY DEF TypeOK
<1>4. Pending(v, y, C)' \subseteq Pending(v, y, C)
  <2> SUFFICES ASSUME NEW x \in Pending(v, y, C)'
               PROVE  x \in Pending(v, y, C)
    OBVIOUS
  <2>1. /\ x \in Slot \X (1 .. C) /\ x[1] \in Slot /\ x[2] \in 1 .. C
        /\ submit'[y][x[1]].vote = v /\ x[2] <= ToWrite(submit'[y][x[1]])
    BY DEF Pending, ToWrite
  <2>2. CASE y = w /\ x[1] = s
    <3>1. r.vote = v /\ x[2] <= ToWrite(r) /\ ToWrite(r) > 0
      BY <1>1, <1>2, <2>1, <2>2
    <3>2. submit[w][s].vote = v /\ x[2] <= ToWrite(submit[w][s])
      BY <1>2, <1>3, <2>1, <2>2, <3>1
    <3> QED
      BY <2>1, <2>2, <3>2 DEF Pending
  <2>3. CASE ~(y = w /\ x[1] = s)
    <3>1. submit'[y][x[1]] = submit[y][x[1]]
      BY <1>1, <2>1, <2>3
    <3> QED
      BY <2>1, <3>1 DEF Pending
  <2> QED
    BY <2>2, <2>3
<1> QED
  BY <1>4, PendingFinite, FS_Subset

\* An insert turns what was to be written into a record.
LEMMA PendingWritten ==
  ASSUME TypeOK, NEW w \in Voter, NEW s \in Slot, NEW r \in Submission, Request(w, s, r),
         NEW C \in Nat, NEW v, submit[w][s].vote = v, r.vote = v,
         ToWrite(submit[w][s]) \in 1 .. C, ToWrite(r) = ToWrite(submit[w][s]) - 1
  PROVE  Cardinality(Pending(v, w, C)') = Cardinality(Pending(v, w, C)) - 1
<1> DEFINE n == ToWrite(submit[w][s])
           new == <<s, n>>
<1>1. /\ submit'[w][s] = r
      /\ \A t \in Slot : t # s => submit'[w][t] = submit[w][t]
  BY RequestEffect
<1>2. new \in Pending(v, w, C)
  BY DEF Pending
<1>3. \A x \in Slot \X (1 .. C) : x \in Pending(v, w, C)' <=> x \in Pending(v, w, C) /\ x # new
  <2> SUFFICES ASSUME NEW t \in Slot, NEW i \in 1 .. C
               PROVE  <<t, i>> \in Pending(v, w, C)' <=> <<t, i>> \in Pending(v, w, C) /\ <<t, i>> # new
    OBVIOUS
  <2>1. /\ <<t, i>> \in Pending(v, w, C)' <=> submit'[w][t].vote = v /\ i <= ToWrite(submit'[w][t])
        /\ <<t, i>> \in Pending(v, w, C) <=> submit[w][t].vote = v /\ i <= ToWrite(submit[w][t])
    BY DEF Pending, ToWrite
  <2>2. CASE t = s
    <3>1. n \in Int /\ i \in Int /\ (i <= n - 1 <=> i <= n /\ i # n)
      OBVIOUS
    <3> QED
      BY <1>1, <2>1, <2>2, <3>1
  <2>3. CASE t # s
    BY <1>1, <2>1, <2>3
  <2> QED
    BY <2>2, <2>3
<1>4. Pending(v, w, C)' = Pending(v, w, C) \ {new}
  <2>1. Pending(v, w, C)' \subseteq Slot \X (1 .. C) /\ Pending(v, w, C) \subseteq Slot \X (1 .. C)
    BY DEF Pending
  <2> HIDE DEF new
  <2> QED
    BY <1>3, <2>1
<1>5. IsFiniteSet(Pending(v, w, C))
  BY PendingFinite
<1> HIDE DEF new
<1> QED
  BY <1>2, <1>4, <1>5, FS_RemoveElement

LEMMA SameRecords ==
  ASSUME UNCHANGED records, NEW v, NEW w
  PROVE  CountVotesByUser(v, w)' = CountVotesByUser(v, w)
  BY DEF CountVotesByUser, Rows

LEMMA CountType ==
  ASSUME CInv, NEW v \in Vote, NEW w \in Voter
  PROVE  CountVotesByUser(v, w) \in Nat
  BY SomeRows DEF CInv, CountVotesByUser

\* A step that writes no record and lets nobody through.
LEMMA PendingKept ==
  ASSUME VInv, CInv, NEW L \in Nat, NEW C \in Nat, PendingLimited(L, C), UNCHANGED records,
         \A v \in Vote, y \in Voter : Cardinality(Pending(v, y, C)') <= Cardinality(Pending(v, y, C))
  PROVE  PendingLimited(L, C)'
<1> SUFFICES ASSUME NEW v \in Vote, NEW y \in Voter
             PROVE  CountVotesByUser(v, y)' + Cardinality(Pending(v, y, C)')
                      < L + C * Cardinality(Slot)
  BY DEF PendingLimited
<1>1. CountVotesByUser(v, y) + Cardinality(Pending(v, y, C)) < L + C * Cardinality(Slot)
  BY DEF PendingLimited
<1>2. Cardinality(Pending(v, y, C)') <= Cardinality(Pending(v, y, C))
  OBVIOUS
<1>3. /\ C * Cardinality(Slot) \in Nat /\ Cardinality(Pending(v, y, C)') \in Nat
      /\ Cardinality(Pending(v, y, C)) \in Nat
  BY PendingFinite
<1> DEFINE M == C * Cardinality(Slot)
<1> HIDE DEF M
<1> QED
  BY <1>1, <1>2, <1>3, SameRecords, CountType DEF M

\* The ballots, when a submission goes on with r.
LEMMA BallotsKept ==
  ASSUME TypeOK, NEW L, NEW C, BallotsLimited(L, C), NEW w \in Voter, NEW s \in Slot,
         NEW r \in Submission, Request(w, s, r),
         r.at # "idle" => r.max_votes \in 1 .. L /\ Len(r.options) <= C
  PROVE  BallotsLimited(L, C)'
<1> SUFFICES ASSUME NEW x \in Voter, NEW t \in Slot, submit'[x][t].at # "idle"
             PROVE  submit'[x][t].max_votes \in 1 .. L /\ Len(submit'[x][t].options) <= C
  BY DEF BallotsLimited
<1>1. CASE x = w /\ t = s
  BY <1>1, RequestEffect
<1>2. CASE ~(x = w /\ t = s)
  BY <1>2, RequestEffect DEF BallotsLimited
<1> QED
  BY <1>1, <1>2

\* The rows, when a submission goes on with r.
LEMMA GivenKept ==
  ASSUME VInv, RowsGiven, [Next]_vars, NEW w \in Voter, NEW s \in Slot,
         NEW r \in Submission, Request(w, s, r),
         \A v \in Vote : r.at # "idle" /\ r.vote = v => RowGiven(v),
         \A v \in Vote : vote'[v].exists = vote[v].exists,
         \A v \in Vote, o \in Option, x \in Voter :
           records'[v][o][x] > 0 => records[v][o][x] > 0 \/ RowGiven(v)
  PROVE  RowsGiven'
<1>1. \A v \in Vote : RowGiven(v) => RowGiven(v)'
  BY RowsStayGiven DEF VInv
<1>2. \A v \in Vote : vote'[v].exists = 1 => RowGiven(v)'
  BY <1>1 DEF RowsGiven
<1>3. \A v \in Vote, o \in Option, x \in Voter : records'[v][o][x] > 0 => RowGiven(v)'
  BY <1>1 DEF RowsGiven
<1>4. ASSUME NEW x \in Voter, NEW t \in Slot, NEW v \in Vote, submit'[x][t].at # "idle",
             submit'[x][t].vote = v
      PROVE  RowGiven(v)
  <2>1. CASE x = w /\ t = s
    BY <1>4, <2>1, RequestEffect DEF VInv
  <2>2. CASE ~(x = w /\ t = s)
    BY <1>4, <2>2, RequestEffect DEF VInv, RowsGiven
  <2> QED
    BY <2>1, <2>2
<1> QED
  BY <1>1, <1>2, <1>3, <1>4 DEF RowsGiven

\* The edits leave records and submissions alone.
LEMMA EditLimited ==
  ASSUME VInv, CInv, NEW L \in Nat, NEW C \in Nat, LInv(L, C), [Next]_vars,
         UNCHANGED <<records, submit>>,
         \A v \in Vote : vote'[v].exists = 1 => RowGiven(v) \/ RowGiven(v)'
  PROVE  LInv(L, C)'
<1>1. \A v \in Vote : RowGiven(v) => RowGiven(v)'
  BY RowsStayGiven DEF VInv
<1>2. RowsGiven'
  BY <1>1 DEF LInv, RowsGiven
<1>3. BallotsLimited(L, C)'
  BY DEF LInv, BallotsLimited
<1>4. PendingLimited(L, C)'
  <2>1. \A v \in Vote, y \in Voter : Pending(v, y, C)' = Pending(v, y, C)
    BY DEF Pending, ToWrite
  <2>2. \A v \in Vote, y \in Voter : Cardinality(Pending(v, y, C)') <= Cardinality(Pending(v, y, C))
    <3>1. \A v \in Vote, y \in Voter : Cardinality(Pending(v, y, C)) \in Nat
      BY PendingFinite
    <3>2. \A v \in Vote, y \in Voter : Cardinality(Pending(v, y, C)') = Cardinality(Pending(v, y, C))
      BY <2>1
    <3>3. \A n \in Nat : n <= n
      OBVIOUS
    <3> QED
      BY <3>1, <3>2, <3>3
  <2> QED
    BY <2>2, PendingKept DEF LInv
<1> QED
  BY <1>2, <1>3, <1>4 DEF LInv

LEMMA AdministrateLimited ==
  ASSUME VInv, CInv, NEW L \in Nat, NEW C \in Nat, LInv(L, C), Administrate
  PROVE  LInv(L, C)'
<1>1. [Next]_vars /\ vote \in [Vote -> Row]
  BY DEF Next, VInv, TypeOK
<1>2. \A v \in Vote : vote[v].exists = 1 => RowGiven(v)
  BY DEF LInv, RowsGiven
<1>3. ASSUME NEW e \in Editor, NEW v \in Vote, NEW status, NEW limit \in MaxVotes,
             NEW choices \in MaxChoices, NEW n, CreateVote(e, v, status, limit, choices, n)
      PROVE  LInv(L, C)'
  <2> DEFINE row == [exists |-> 1, status |-> status, max_votes |-> limit,
                     choices |-> choices, total |-> 0]
  <2>1. vote' = [vote EXCEPT ![v] = row] /\ row.max_votes = limit /\ row.choices = choices
    BY <1>3 DEF CreateVote
  <2> HIDE DEF row
  <2>2. \A u \in Vote : vote'[u].exists = 1 => RowGiven(u) \/ RowGiven(u)'
    BY <1>1, <1>2, <2>1 DEF RowGiven
  <2> QED
    BY <1>1, <1>3, <2>2, EditLimited DEF CreateVote
<1>4. ASSUME NEW e \in Editor, NEW v \in Vote, NEW status, NEW limit \in MaxVotes,
             NEW choices \in MaxChoices, NEW n, UpdateVote(e, v, status, limit, choices, n)
      PROVE  LInv(L, C)'
  <2>1. \A u \in Vote : vote'[u].exists = vote[u].exists
    BY <1>1, <1>4 DEF UpdateVote, Row
  <2> QED
    BY <1>1, <1>2, <1>4, <2>1, EditLimited DEF UpdateVote
<1>5. ASSUME NEW v \in Vote, DeleteVote(v)
      PROVE  LInv(L, C)'
  <2>1. \A u \in Vote : vote'[u].exists = 1 => vote[u].exists = 1
    BY <1>1, <1>5 DEF DeleteVote, Row
  <2> QED
    BY <1>1, <1>2, <1>5, <2>1, EditLimited DEF DeleteVote
<1>6. ASSUME NEW e \in Editor, DeleteOptionsByVoteID(e) \/ CreateOption(e)
      PROVE  LInv(L, C)'
  <2>1. UNCHANGED <<vote, records, submit>>
    BY <1>6 DEF DeleteOptionsByVoteID, CreateOption
  <2> QED
    BY <1>1, <1>2, <2>1, EditLimited
<1> QED
  BY <1>3, <1>4, <1>5, <1>6 DEF Administrate

\* A submission that only loses what it may write.
LEMMA RequestLimited ==
  ASSUME VInv, CInv, NEW L \in Nat, NEW C \in Nat, LInv(L, C), [Next]_vars,
         NEW w \in Voter, NEW s \in Slot, NEW r \in Submission, Request(w, s, r),
         UNCHANGED records, \A v \in Vote : vote'[v].exists = vote[v].exists,
         r.at # "idle" => /\ submit[w][s].at # "idle" /\ r.vote = submit[w][s].vote
                          /\ r.max_votes = submit[w][s].max_votes
                          /\ Len(r.options) <= Len(submit[w][s].options)
                          /\ ToWrite(r) <= ToWrite(submit[w][s])
  PROVE  LInv(L, C)'
<1>1. RowsGiven'
  <2>1. \A v \in Vote : r.at # "idle" /\ r.vote = v => RowGiven(v)
    BY DEF LInv, RowsGiven
  <2> QED
    BY <2>1, GivenKept DEF LInv
<1>2. BallotsLimited(L, C)'
  <2>1. r.at # "idle" => r.max_votes \in 1 .. L /\ Len(r.options) <= C
    <3>1. Len(r.options) \in Nat /\ Len(submit[w][s].options) \in Nat
      BY DEF Submission, VInv, TypeOK
    <3> QED
      BY <3>1 DEF LInv, BallotsLimited
  <2> QED
    BY <2>1, BallotsKept DEF VInv, LInv
<1>3. PendingLimited(L, C)'
  <2>1. ToWrite(r) > 0 => r.at # "idle"
    BY DEF ToWrite
  <2>2. \A v \in Vote, y \in Voter : Cardinality(Pending(v, y, C)') <= Cardinality(Pending(v, y, C))
    BY <2>1, PendingShrinks DEF VInv
  <2> QED
    BY <2>2, PendingKept DEF LInv
<1> QED
  BY <1>1, <1>2, <1>3 DEF LInv

LEMMA ReadVoteLimited ==
  ASSUME VInv, CInv, NEW L \in Nat, NEW C \in Nat, Limits(L, C), LInv(L, C), [Next]_vars,
         NEW w \in Voter, NEW s \in Slot, NEW v \in Vote, NEW ballot \in Ballot,
         ReadVote(w, s, v, ballot)
  PROVE  LInv(L, C)'
<1> DEFINE r == [at |-> "count", vote |-> v, options |-> ballot, max_votes |-> vote[v].max_votes]
<1>1. r \in Submission
  BY InputAssumption DEF VInv, TypeOK, Row, Submission, Steps
<1>2. /\ Request(w, s, r) /\ UNCHANGED <<records, vote>>
      /\ vote[v].choices > 0 => Len(ballot) <= vote[v].choices
      /\ r.vote = v /\ r.at = "count" /\ r.options = ballot /\ r.max_votes = vote[v].max_votes
  BY DEF ReadVote
<1>3. RowGiven(v)
  BY DEF LInv, RowsGiven, ReadVote
<1> HIDE DEF r
<1>4. RowsGiven'
  BY <1>1, <1>2, <1>3, GivenKept DEF LInv
<1>5. BallotsLimited(L, C)'
  <2>1. vote[v].max_votes \in 1 .. L /\ vote[v].choices \in 1 .. C
    BY <1>3 DEF RowGiven, Limits
  <2>2. Len(ballot) \in Nat /\ vote[v].choices \in Nat
    BY InputAssumption DEF VInv, TypeOK, Row
  <2>3. Len(ballot) <= C
    BY <1>2, <2>1, <2>2
  <2> QED
    BY <1>1, <1>2, <2>1, <2>3, BallotsKept DEF VInv, LInv
<1>6. PendingLimited(L, C)'
  <2>1. ~(ToWrite(r) > 0)
    BY <1>2 DEF ToWrite
  <2>2. \A u \in Vote, y \in Voter : Cardinality(Pending(u, y, C)') <= Cardinality(Pending(u, y, C))
    BY <1>1, <1>2, <2>1, PendingShrinks DEF VInv
  <2> QED
    BY <1>2, <2>2, PendingKept DEF LInv
<1> QED
  BY <1>4, <1>5, <1>6 DEF LInv

LEMMA CheckMaxVotesLimited ==
  ASSUME VInv, CInv, NEW L \in Nat, NEW C \in Nat, LInv(L, C), [Next]_vars,
         NEW w \in Voter, NEW s \in Slot, CheckMaxVotes(w, s)
  PROVE  LInv(L, C)'
<1> DEFINE q == submit[w][s]
           r == [q EXCEPT !.at = "insert"]
<1>1. UNCHANGED <<records, vote>> /\ q.at = "count" /\ q \in Submission /\ q.vote \in Vote
  BY CurrentOption DEF CheckMaxVotes
<1>2. CASE Request(w, s, NoSubmission)
  BY <1>1, <1>2, NoSubmissionType, RequestLimited
<1>3. CASE Request(w, s, r) /\ WithinLimit(q, w)
  <2>1. /\ r \in Submission /\ r.at = "insert" /\ r.vote = q.vote /\ r.options = q.options
        /\ r.max_votes = q.max_votes
    BY <1>1 DEF Submission, Steps
  <2> HIDE DEF r
  <2>2. RowsGiven'
    <3>1. \A v \in Vote : r.at # "idle" /\ r.vote = v => RowGiven(v)
      BY <1>1, <2>1 DEF LInv, RowsGiven
    <3> QED
      BY <1>1, <1>3, <2>1, <3>1, GivenKept DEF LInv
  <2>3. BallotsLimited(L, C)' /\ q.max_votes \in 1 .. L
    <3>1. q.max_votes \in 1 .. L /\ Len(q.options) <= C
      BY <1>1 DEF LInv, BallotsLimited
    <3> QED
      BY <1>3, <2>1, <3>1, BallotsKept DEF VInv, LInv
  <2>4. PendingLimited(L, C)'
    <3> SUFFICES ASSUME NEW v \in Vote, NEW y \in Voter
                 PROVE  CountVotesByUser(v, y)' + Cardinality(Pending(v, y, C)')
                          < L + C * Cardinality(Slot)
      BY DEF PendingLimited
    <3>1. /\ CountVotesByUser(v, y)' = CountVotesByUser(v, y) /\ CountVotesByUser(v, y) \in Nat
          /\ Cardinality(Pending(v, y, C)') \in Nat /\ Cardinality(Pending(v, y, C)) \in Nat
          /\ C * Cardinality(Slot) \in Nat
          /\ Cardinality(Pending(v, y, C)') <= C * Cardinality(Slot)
      BY <1>1, SameRecords, CountType, PendingFinite
    <3> DEFINE M == C * Cardinality(Slot)
    <3>2. CASE y = w /\ v = q.vote
      <4>1. CountVotesByUser(v, y) < q.max_votes
        BY <1>3, <2>3, <3>2 DEF WithinLimit
      <4>2. q.max_votes \in Nat
        BY <1>1 DEF Submission
      <4> HIDE DEF M
      <4> QED
        BY <2>3, <3>1, <4>1, <4>2 DEF M
    <3>3. CASE ~(y = w /\ v = q.vote)
      <4>1. Cardinality(Pending(v, y, C)') <= Cardinality(Pending(v, y, C))
        BY <1>3, <2>1, <3>3, PendingShrinks DEF VInv
      <4>2. CountVotesByUser(v, y) + Cardinality(Pending(v, y, C)) < L + M
        BY <3>1 DEF LInv, PendingLimited
      <4> HIDE DEF M
      <4> QED
        BY <3>1, <4>1, <4>2 DEF M
    <3> QED
      BY <3>2, <3>3
  <2> QED
    BY <2>2, <2>3, <2>4 DEF LInv
<1> QED
  BY <1>2, <1>3 DEF CheckMaxVotes

LEMMA InsertRecordLimited ==
  ASSUME VInv, CInv, NEW L \in Nat, NEW C \in Nat, LInv(L, C), [Next]_vars,
         NEW w \in Voter, NEW s \in Slot, InsertRecord(w, s)
  PROVE  LInv(L, C)'
<1> DEFINE q == submit[w][s]
           o == Head(q.options)
           r == [q EXCEPT !.at = "option"]
<1>1. /\ q \in Submission /\ q.vote \in Vote /\ q.options \in Seq(Option) \ {<<>>} /\ o \in Option
      /\ q.at = "insert" /\ UNCHANGED vote
  BY CurrentOption DEF InsertRecord
<1>2. CASE Request(w, s, NoSubmission) /\ UNCHANGED records
  BY <1>1, <1>2, NoSubmissionType, RequestLimited
<1>3. CASE Request(w, s, r) /\ Recorded(q.vote, o, w)
  <2>1. /\ r \in Submission /\ r.at = "option" /\ r.vote = q.vote /\ r.options = q.options
        /\ r.max_votes = q.max_votes
    BY <1>1 DEF Submission, Steps
  <2>2. Len(q.options) \in Nat \ {0} /\ Len(q.options) <= C /\ q.max_votes \in 1 .. L /\ RowGiven(q.vote)
    <3>1. Len(q.options) \in Nat \ {0}
      BY <1>1, EmptySeq, LenProperties
    <3> QED
      BY <1>1, <3>1 DEF LInv, BallotsLimited, RowsGiven
  <2>3. ToWrite(q) = Len(q.options) /\ ToWrite(r) = Len(q.options) - 1 /\ ToWrite(q) \in 1 .. C
    BY <1>1, <2>1, <2>2 DEF ToWrite
  <2> HIDE DEF r, q, o
  <2>4. /\ records'[q.vote][o][w] = records[q.vote][o][w] + 1
        /\ \A u \in Vote, p \in Option, x \in Voter :
             <<u, p, x>> # <<q.vote, o, w>> => records'[u][p][x] = records[u][p][x]
    BY <1>1, <1>3, RecordedEffect DEF VInv
  <2>5. RowsGiven'
    <3>1. \A v \in Vote : r.at # "idle" /\ r.vote = v => RowGiven(v)
      BY <2>1, <2>2
    <3>2. \A v \in Vote, p \in Option, x \in Voter :
            records'[v][p][x] > 0 => records[v][p][x] > 0 \/ RowGiven(v)
      BY <2>2, <2>4
    <3> QED
      BY <1>1, <1>3, <2>1, <3>1, <3>2, GivenKept DEF LInv
  <2>6. BallotsLimited(L, C)'
    BY <1>3, <2>1, <2>2, BallotsKept DEF VInv, LInv
  <2>7. PendingLimited(L, C)'
    <3> SUFFICES ASSUME NEW v \in Vote, NEW y \in Voter
                 PROVE  CountVotesByUser(v, y)' + Cardinality(Pending(v, y, C)')
                          < L + C * Cardinality(Slot)
      BY DEF PendingLimited
    <3>1. /\ CountVotesByUser(v, y) \in Nat
          /\ Cardinality(Pending(v, y, C)') \in Nat /\ Cardinality(Pending(v, y, C)) \in Nat
          /\ C * Cardinality(Slot) \in Nat
      BY CountType, PendingFinite
    <3>2. CountVotesByUser(v, y)' = CountVotesByUser(v, y) + (IF v = q.vote /\ y = w THEN 1 ELSE 0)
      <4>1. Rows({v}, Option, {y})' = RowsIn(records', {v}, Option, {y})
        BY DEF Rows, RowsIn
      <4>2. Cardinality(RowsIn(records', {v}, Option, {y})) =
              IF q.vote \in {v} /\ o \in Option /\ w \in {y}
              THEN Cardinality(Rows({v}, Option, {y})) + 1 ELSE Cardinality(Rows({v}, Option, {y}))
        BY <1>1, <1>3, RowRecorded DEF VInv, CInv
      <4> QED
        BY <1>1, <3>1, <4>1, <4>2 DEF CountVotesByUser
    <3> DEFINE M == C * Cardinality(Slot)
    <3>3. CountVotesByUser(v, y) + Cardinality(Pending(v, y, C)) < L + M
      BY DEF LInv, PendingLimited
    <3>4. CASE v = q.vote /\ y = w
      <4>1. Cardinality(Pending(v, y, C)') = Cardinality(Pending(v, y, C)) - 1
        BY <1>3, <2>1, <2>3, <3>4, PendingWritten DEF VInv, q
      <4> HIDE DEF M
      <4> QED
        BY <3>1, <3>2, <3>3, <3>4, <4>1 DEF M
    <3>5. CASE ~(v = q.vote /\ y = w)
      <4>1. Cardinality(Pending(v, y, C)') <= Cardinality(Pending(v, y, C))
        BY <1>3, <2>1, <3>5, PendingShrinks DEF VInv
      <4> HIDE DEF M
      <4> QED
        BY <3>1, <3>2, <3>3, <3>5, <4>1 DEF M
    <3> QED
      BY <3>4, <3>5
  <2> QED
    BY <2>5, <2>6, <2>7 DEF LInv
<1> QED
  BY <1>2, <1>3 DEF InsertRecord, Recorded

LEMMA CountsLimited ==
  ASSUME VInv, CInv, NEW L \in Nat, NEW C \in Nat, LInv(L, C), [Next]_vars,
         NEW w \in Voter, NEW s \in Slot, CountOption(w, s) \/ CountTotal(w, s)
  PROVE  LInv(L, C)'
<1> DEFINE q == submit[w][s]
<1>1. /\ q \in Submission /\ q.at \in {"option", "total"} /\ q.options \in Seq(Option) \ {<<>>}
      /\ UNCHANGED records
  BY CurrentOption DEF CountOption, CountTotal
<1>2. Len(q.options) \in Nat \ {0} /\ ToWrite(q) = Len(q.options) - 1
  BY <1>1, EmptySeq, LenProperties DEF ToWrite
<1>3. \A v \in Vote : vote'[v].exists = vote[v].exists
  <2>1. vote \in [Vote -> Row] /\ \A v \in Vote : Totalled(vote[v]).exists = vote[v].exists
    BY DEF VInv, TypeOK, Row, Totalled
  <2>2. UNCHANGED vote \/ vote' = [vote EXCEPT ![q.vote] = Totalled(@)]
    BY DEF CountOption, CountTotal
  <2> QED
    BY <2>1, <2>2
<1>4. CASE CountOption(w, s)
  <2> DEFINE r == [q EXCEPT !.at = "total"]
  <2>1. /\ r \in Submission /\ r.vote = q.vote /\ r.options = q.options /\ r.max_votes = q.max_votes
        /\ r.at = "total"
    BY <1>1 DEF Submission, Steps
  <2>2. Request(w, s, r)
    BY <1>4 DEF CountOption
  <2>3. ToWrite(r) = ToWrite(q)
    BY <1>2, <2>1 DEF ToWrite
  <2> HIDE DEF r
  <2> QED
    BY <1>1, <1>2, <1>3, <2>1, <2>2, <2>3, RequestLimited
<1>5. CASE CountTotal(w, s) /\ Len(q.options) = 1
  <2>1. Request(w, s, NoSubmission)
    BY <1>5 DEF CountTotal
  <2> QED
    BY <1>1, <1>3, <2>1, NoSubmissionType, RequestLimited
<1>6. CASE CountTotal(w, s) /\ Len(q.options) # 1
  <2> DEFINE r == [q EXCEPT !.at = "insert", !.options = Tail(@)]
  <2>1. Tail(q.options) \in Seq(Option) /\ Len(Tail(q.options)) = Len(q.options) - 1
    BY <1>1, HeadTailProperties
  <2>2. /\ r \in Submission /\ r.vote = q.vote /\ r.options = Tail(q.options)
        /\ r.max_votes = q.max_votes /\ r.at = "insert"
    BY <1>1, <2>1 DEF Submission, Steps
  <2>3. Request(w, s, r)
    BY <1>6 DEF CountTotal
  <2>4. ToWrite(r) = ToWrite(q)
    BY <1>2, <2>1, <2>2 DEF ToWrite
  <2> HIDE DEF r, q
  <2>5. Len(r.options) <= Len(q.options) /\ ToWrite(r) <= ToWrite(q)
    BY <1>2, <2>1, <2>2, <2>4
  <2> QED
    BY <1>1, <1>3, <2>2, <2>3, <2>5, RequestLimited DEF q
<1> QED
  BY <1>4, <1>5, <1>6

LEMMA LimitedNext ==
  ASSUME VInv, CInv, NEW L, NEW C, Limits(L, C), LInv(L, C), [Next]_vars
  PROVE  LInv(L, C)'
<1>1. L \in Nat /\ C \in Nat
  BY DEF Limits
<1>2. ASSUME NEW w \in Voter, NEW s \in Slot, SubmitVote(w, s)
      PROVE  LInv(L, C)'
  BY <1>1, <1>2, ReadVoteLimited, CheckMaxVotesLimited, InsertRecordLimited, CountsLimited
     DEF SubmitVote
<1>3. CASE UNCHANGED vars
  <2>1. /\ UNCHANGED <<records, submit>>
        /\ \A v \in Vote : vote'[v].exists = 1 => RowGiven(v)
    BY <1>3 DEF vars, LInv, RowsGiven
  <2> QED
    BY <1>1, <2>1, EditLimited
<1> QED
  BY <1>1, <1>2, <1>3, AdministrateLimited DEF Next

LEMMA InitLimited ==
  ASSUME Init, NEW L, NEW C, Limits(L, C)
  PROVE  LInv(L, C)
<1>1. L \in Nat \ {0} /\ C \in Nat
  BY DEF Limits
<1>2. RowsGiven
  BY DEF Init, RowsGiven, NoRow, NoSubmission
<1>3. BallotsLimited(L, C)
  BY DEF Init, BallotsLimited, NoSubmission
<1>4. ASSUME NEW v \in Vote, NEW w \in Voter
      PROVE  CountVotesByUser(v, w) + Cardinality(Pending(v, w, C)) < L + C * Cardinality(Slot)
  <2>1. Pending(v, w, C) = {}
    BY DEF Init, Pending, ToWrite, NoSubmission
  <2>2. Rows({v}, Option, {w}) = {}
    BY InitRows
  <2>3. C * Cardinality(Slot) \in Nat
    BY <1>1, PendingFinite
  <2>4. Cardinality({}) = 0
    BY FS_EmptySet
  <2>5. CountVotesByUser(v, w) = 0 /\ Cardinality(Pending(v, w, C)) = 0
    BY <2>1, <2>2, <2>4 DEF CountVotesByUser
  <2> DEFINE M == C * Cardinality(Slot)
  <2>6. M \in Nat
    BY <2>3
  <2> HIDE DEF M
  <2>7. CountVotesByUser(v, w) + Cardinality(Pending(v, w, C)) < L + M
    BY <1>1, <2>5, <2>6
  <2> QED
    BY <2>7 DEF M
<1> QED
  BY <1>2, <1>3, <1>4 DEF LInv, PendingLimited

\* What a voter has in a vote stays below the largest limit that was ever given
\* and what the submissions in flight may add to it, though each checks the
\* limit on its own (vote.go, SubmitVote).
THEOREM RecordsStayBelow ==
  ASSUME NEW L, NEW C, Limits(L, C)
  PROVE  Spec => [](\A v \in Vote, w \in Voter :
                      CountVotesByUser(v, w) < L + C * Cardinality(Slot))
<1>1. Init => LInv(L, C)
  BY InitLimited
<1>2. VInv /\ CInv /\ LInv(L, C) /\ [Next]_vars => CInv' /\ LInv(L, C)'
  BY CountersNext, LimitedNext
<1>3. CInv /\ LInv(L, C) => \A v \in Vote, w \in Voter :
                              CountVotesByUser(v, w) < L + C * Cardinality(Slot)
  <2> SUFFICES ASSUME CInv, LInv(L, C), NEW v \in Vote, NEW w \in Voter
               PROVE  CountVotesByUser(v, w) < L + C * Cardinality(Slot)
    OBVIOUS
  <2>1. CountVotesByUser(v, w) + Cardinality(Pending(v, w, C)) < L + C * Cardinality(Slot)
    BY DEF LInv, PendingLimited
  <2>2. /\ L \in Nat /\ C \in Nat /\ C * Cardinality(Slot) \in Nat
        /\ CountVotesByUser(v, w) \in Nat /\ Cardinality(Pending(v, w, C)) \in Nat
    BY CountType, PendingFinite DEF Limits
  <2> DEFINE M == C * Cardinality(Slot)
  <2> HIDE DEF M
  <2> QED
    BY <2>1, <2>2 DEF M
<1> QED
  BY <1>1, <1>2, <1>3, InitCounters, VotesStayBacked, PTL DEF Spec

\* When the limits of the votes are not edited, a voter's records stay below
\* max_votes and the choices of each submission in flight (vote.go, SubmitVote).
THEOREM RecordsStayLimited ==
  ASSUME NEW L, NEW C, MaxVotes = {L}, MaxChoices = {C}, L > 0, C > 0
  PROVE  Spec => []RecordsLimited
<1>1. Limits(L, C)
  BY InputAssumption DEF Limits
<1>2. Init => LInv(L, C)
  BY <1>1, InitLimited
<1>3. VInv /\ CInv /\ LInv(L, C) /\ [Next]_vars => CInv' /\ LInv(L, C)'
  BY <1>1, CountersNext, LimitedNext
<1>4. VInv /\ CInv /\ LInv(L, C) => RecordsLimited
  <2> SUFFICES ASSUME VInv, CInv, LInv(L, C), NEW v \in Vote, NEW w \in Voter,
                      CountVotesByUser(v, w) > 0
               PROVE  CountVotesByUser(v, w)
                        < vote[v].max_votes + vote[v].choices * Cardinality(Slot)
    BY DEF RecordsLimited
  <2>1. vote[v].max_votes = L /\ vote[v].choices = C
    <3>1. Rows({v}, Option, {w}) # {}
      <4>1. Cardinality({}) = 0
        BY FS_EmptySet
      <4> SUFFICES ASSUME Rows({v}, Option, {w}) = {} PROVE FALSE
        OBVIOUS
      <4>2. CountVotesByUser(v, w) = 0
        BY <4>1 DEF CountVotesByUser
      <4> QED
        BY <4>2
    <3>2. PICK y : y \in RowsIn(records, {v}, Option, {w})
      BY <3>1 DEF Rows, RowsIn
    <3>3. PICK o \in Option, i \in Nat : i \in 1 .. records[v][o][w]
      BY <3>2, RowsMember
    <3>4. records[v][o][w] \in Nat
      BY DEF VInv, TypeOK
    <3>5. records[v][o][w] > 0
      BY <3>3, <3>4
    <3> QED
      BY <3>5 DEF LInv, RowsGiven, RowGiven
  <2>2. CountVotesByUser(v, w) + Cardinality(Pending(v, w, C)) < L + C * Cardinality(Slot)
    BY DEF LInv, PendingLimited
  <2>3. /\ L \in Nat /\ C \in Nat /\ C * Cardinality(Slot) \in Nat
        /\ CountVotesByUser(v, w) \in Nat /\ Cardinality(Pending(v, w, C)) \in Nat
    BY <1>1, CountType, PendingFinite DEF Limits
  <2> DEFINE M == C * Cardinality(Slot)
  <2>4. CountVotesByUser(v, w) < L + M
    <3> HIDE DEF M
    <3> QED
      BY <2>2, <2>3 DEF M
  <2> QED
    BY <2>1, <2>4
<1> QED
  BY <1>2, <1>3, <1>4, InitCounters, VotesStayBacked, PTL DEF Spec

=============================================================================
