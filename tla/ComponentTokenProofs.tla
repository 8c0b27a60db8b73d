------------------------ MODULE ComponentTokenProofs ------------------------
(***************************************************************************)
(* Proofs about ComponentToken, for any number of handlers and failures    *)
(* and any times with TokenTTL > Interval + 1 and TicketTTL > 1.           *)
(*                                                                         *)
(* The argument for TokenReady: after each refresh the token outlives the  *)
(* next one by two units (TokenCovered), a refresh that is due finds a       *)
(* ticket if there is a token to lose (TicketKept, MissSound), and who     *)
(* saves the first ticket goes on to set the first token (TokenOnItsWay).  *)
(***************************************************************************)
EXTENDS ComponentToken, TLAPS

Steps == {"idle", "push.cache", "push.save", "read", "db", "set"}

-----------------------------------------------------------------------------
(* Types *)

LEMMA MoveType ==
  ASSUME TypeOK, NEW p \in Process, NEW step \in Steps, Goto(p, step) \/ Finish(p)
  PROVE  pc' \in [Process -> Steps] /\ late' \subseteq Process
BY DEF TypeOK, Goto, Finish, Steps

LEMMA CallType ==
  ASSUME TypeOK, NEW p \in Process, Succeeds(p) \/ Fails(p)
  PROVE  faults' \in 0 .. MaxFaults
BY FaultAssumption DEF TypeOK, Succeeds, Fails

LEMMA StartTickerType ==
  ASSUME TypeOK, NEW p \in Process, StartTicker(p)
  PROVE  mode' \in {"down", "starting", "up", "stopping"}
         /\ next' \in 1 .. Interval /\ ticks' \in 0 .. 1
BY TimeAssumption DEF TypeOK, StartTicker

LEMMA NextType == TypeOK /\ [Next]_vars => TypeOK'
<1>. SUFFICES ASSUME TypeOK, [Next]_vars PROVE TypeOK'
  OBVIOUS
<1>1. ASSUME NEW p \in Process, Call(p) PROVE TypeOK'
  <2>1. CASE ReadTicket(p)
    BY <2>1, MoveType, CallType DEF ReadTicket, TypeOK, Steps
  <2>2. CASE ReadSavedTicket(p)
    BY <2>2, MoveType, CallType, StartTickerType DEF ReadSavedTicket, TypeOK, Steps
  <2>3. CASE SetToken(p)
    BY <2>3, MoveType, CallType, StartTickerType, TimeAssumption
       DEF SetToken, TypeOK, Steps
  <2>4. CASE CacheTicket(p)
    BY <2>4, MoveType, CallType, TimeAssumption DEF CacheTicket, TypeOK, Steps
  <2>5. CASE SaveTicket(p)
    BY <2>5, MoveType, CallType DEF SaveTicket, TypeOK, Steps
  <2>. QED  BY <1>1, <2>1, <2>2, <2>3, <2>4, <2>5 DEF Call
<1>2. ASSUME NEW p \in Process,
             GetComponentAccessToken(p) \/ HandleComponentVerifyTicket(p)
      PROVE  TypeOK'
  BY <1>2, MoveType
     DEF GetComponentAccessToken, HandleComponentVerifyTicket, Arrive, TypeOK, Steps
<1>3. CASE RefresherTurn
  BY <1>3, MoveType DEF RefresherTurn, TypeOK, Steps, Process
<1>4. CASE Server
  <2>1. CASE Start
    BY <2>1, MoveType DEF Start, TypeOK, Steps, Process
  <2>2. CASE StopComponentTokenRefresher
    BY <2>2 DEF StopComponentTokenRefresher, TypeOK
  <2>3. CASE Exit
    BY <2>3 DEF Exit, Down, TypeOK
  <2>4. CASE Crash
    BY <2>4, FaultAssumption DEF Crash, Down, TypeOK
  <2>. QED  BY <1>4, <2>1, <2>2, <2>3, <2>4 DEF Server
<1>5. CASE Tick
  BY <1>5, TimeAssumption DEF Tick, Left, TypeOK
<1>6. CASE UNCHANGED vars
  BY <1>6 DEF vars, TypeOK
<1>. QED  BY <1>1, <1>2, <1>3, <1>4, <1>5, <1>6 DEF Next

LEMMA InitType == Init => TypeOK
BY TimeAssumption, FaultAssumption DEF Init, TypeOK

\* Every variable keeps its type, whatever fails.
THEOREM TypeCorrect == Spec => []TypeOK
<1>. QED  BY InitType, NextType, PTL DEF Spec

\* Once the refresher's context is cancelled, only handlers set the token.
THEOREM RefresherStopsForGood == Spec => RefresherStops
<1>1. TypeOK /\ [Next]_vars =>
        [mode = "stopping" /\ token' > token =>
           \E c \in Caller : At(c, "set") /\ pc'[c] = "idle"]_vars
  <2>. SUFFICES ASSUME TypeOK, Next, mode = "stopping", token' > token
                PROVE  \E c \in Caller : At(c, "set") /\ pc'[c] = "idle"
    BY DEF vars
  <2>1. PICK p \in Process : SetToken(p)
    BY TimeAssumption
       DEF TypeOK, Next, Call, ReadTicket, ReadSavedTicket, CacheTicket, SaveTicket,
           GetComponentAccessToken, HandleComponentVerifyTicket, Arrive, RefresherTurn,
           Server, Start, StopComponentTokenRefresher, Exit, Crash, Down, Tick, Left
  <2>2. ~Cancelled(p)
    BY <2>1 DEF TypeOK, SetToken, Succeeds
  <2>. QED  BY <2>1, <2>2 DEF SetToken, Cancelled, Process, Finish, TypeOK
<1>. QED  BY <1>1, TypeCorrect, PTL DEF Spec, RefresherStops

-----------------------------------------------------------------------------
(* TokenReady, as long as nothing has failed *)

\* Only a cancelled context makes a call fail.
LEMMA NoFailures ==
  ASSUME faults' = 0, TypeOK, NEW p \in Process, Fails(p)
  PROVE  p = Refresher /\ mode = "stopping"
BY DEF TypeOK, Fails, Cancelled

LEMMA ReadTicketSound ==
  ASSUME faults' = 0, TypeOK, TypeOK', Sound, NEW p \in Process, ReadTicket(p)
  PROVE  Sound'
<1>1. TicketKept'
  BY DEF ReadTicket, Goto, At, Sound, TicketKept, Saving, Process, TypeOK
<1>2. RefresherSound'
  BY DEF ReadTicket, Goto, At, Sound, Idle, RefresherSound, Process, TypeOK
<1>3. TokenCovered'
  BY DEF ReadTicket, Goto, Sound, Idle, TokenCovered, Process, TypeOK
<1>4. MissSound'
  BY NoFailures DEF ReadTicket, Goto, At, Sound, MissSound, TicketKept, Process,
     TypeOK
<1>5. TokenOnItsWay'
  BY DEF ReadTicket, Goto, Sound, TokenOnItsWay, Process, TypeOK
<1>. QED  BY <1>1, <1>2, <1>3, <1>4, <1>5 DEF Sound

LEMMA ReadSavedTicketSound ==
  ASSUME faults' = 0, TypeOK, TypeOK', Sound, NEW p \in Process, ReadSavedTicket(p)
  PROVE  Sound'
<1>1. TicketKept'
  BY DEF ReadSavedTicket, Goto, Finish, At, Sound, TicketKept, Saving, Process,
     TypeOK
<1>2. RefresherSound'
  BY DEF ReadSavedTicket, Goto, Finish, At, StartTicker, Sound, Idle,
     RefresherSound, Process, TypeOK
<1>3. TokenCovered'
  BY NoFailures DEF ReadSavedTicket, Goto, Finish, At, StartTicker, Sound, Idle,
     TokenCovered, RefresherSound, TicketKept, MissSound, Saving, Process, TypeOK
<1>4. MissSound'
  BY DEF ReadSavedTicket, Finish, At, StartTicker, Sound, MissSound, TokenCovered,
     Process, TypeOK
<1>5. TokenOnItsWay'
  BY NoFailures DEF ReadSavedTicket, Goto, StartTicker, Sound, TokenOnItsWay,
     Process, TypeOK
<1>. QED  BY <1>1, <1>2, <1>3, <1>4, <1>5 DEF Sound

LEMMA SetTokenSound ==
  ASSUME faults' = 0, TypeOK, TypeOK', Sound, NEW p \in Process, SetToken(p)
  PROVE  Sound'
<1>1. TicketKept'
  BY DEF SetToken, Finish, At, Sound, TicketKept, Saving
<1>2. RefresherSound'
  BY DEF SetToken, Finish, StartTicker, Sound, Idle, RefresherSound, TypeOK
<1>3. TokenCovered'
  BY NoFailures, TimeAssumption DEF SetToken, StartTicker, TokenCovered, TypeOK
<1>4. MissSound'
  BY NoFailures, TimeAssumption DEF SetToken, StartTicker, Sound, MissSound,
     TokenCovered, TypeOK
<1>5. TokenOnItsWay'
  BY NoFailures, TimeAssumption DEF SetToken, StartTicker, TokenOnItsWay
<1>. QED  BY <1>1, <1>2, <1>3, <1>4, <1>5 DEF Sound

LEMMA CacheTicketSound ==
  ASSUME faults' = 0, TypeOK, TypeOK', Sound, NEW p \in Process, CacheTicket(p)
  PROVE  Sound'
<1>1. TicketKept'
  BY NoFailures, TimeAssumption DEF CacheTicket, Goto, At, Sound, TicketKept,
     Saving, RefresherSound, Process, TypeOK
<1>2. RefresherSound'
  BY DEF CacheTicket, Goto, At, Sound, Idle, RefresherSound
<1>3. TokenCovered'
  BY DEF CacheTicket, Goto, Sound, Idle, TokenCovered, TypeOK
<1>4. MissSound'
  BY DEF CacheTicket, Goto, At, Sound, MissSound
<1>5. TokenOnItsWay'
  BY DEF CacheTicket, Goto, At, Sound, TokenOnItsWay
<1>. QED  BY <1>1, <1>2, <1>3, <1>4, <1>5 DEF Sound

LEMMA SaveTicketSound ==
  ASSUME faults' = 0, TypeOK, TypeOK', Sound, NEW p \in Process, SaveTicket(p)
  PROVE  Sound'
<1>1. TicketKept'
  BY NoFailures, ProcessAssumption DEF SaveTicket, Goto, At, Sound, TicketKept,
     Saving
<1>2. RefresherSound'
  BY DEF SaveTicket, Goto, At, Sound, Idle, RefresherSound
<1>3. TokenCovered'
  BY DEF SaveTicket, Goto, Sound, Idle, TokenCovered, TypeOK
<1>4. MissSound'
  BY NoFailures DEF SaveTicket, MissSound
<1>5. TokenOnItsWay'
  BY DEF SaveTicket, Goto, At, Sound, TokenOnItsWay, RefresherSound, Process, TypeOK
<1>. QED  BY <1>1, <1>2, <1>3, <1>4, <1>5 DEF Sound

LEMMA GetComponentAccessTokenSound ==
  ASSUME faults' = 0, TypeOK, TypeOK', Sound, NEW p \in Process, GetComponentAccessToken(p)
  PROVE  Sound'
<1>1. TicketKept'
  BY DEF GetComponentAccessToken, Arrive, Idle, Goto, At, Sound, TicketKept, Saving
<1>2. RefresherSound'
  BY ProcessAssumption DEF GetComponentAccessToken, Arrive, Idle, Goto, Sound,
     RefresherSound
<1>3. TokenCovered'
  BY DEF GetComponentAccessToken, Arrive, TokenCovered
<1>4. MissSound'
  BY DEF GetComponentAccessToken, Arrive, MissSound
<1>5. TokenOnItsWay'
  BY DEF GetComponentAccessToken, Arrive, Goto, TokenOnItsWay, TypeOK
<1>. QED  BY <1>1, <1>2, <1>3, <1>4, <1>5 DEF Sound

LEMMA HandleComponentVerifyTicketSound ==
  ASSUME faults' = 0, TypeOK, TypeOK', Sound, NEW p \in Process, HandleComponentVerifyTicket(p)
  PROVE  Sound'
<1>1. TicketKept'
  BY DEF HandleComponentVerifyTicket, Arrive, Idle, Goto, At, Sound, TicketKept,
     Saving
<1>2. RefresherSound'
  BY ProcessAssumption DEF HandleComponentVerifyTicket, Arrive, Idle, Goto, Sound,
     RefresherSound
<1>3. TokenCovered'
  BY ProcessAssumption DEF HandleComponentVerifyTicket, Arrive, Idle, Goto, Sound,
     TokenCovered
<1>4. MissSound'
  BY DEF HandleComponentVerifyTicket, Arrive, Goto, At, Sound, MissSound
<1>5. TokenOnItsWay'
  BY DEF HandleComponentVerifyTicket, Arrive, Idle, Goto, Sound, TokenOnItsWay
<1>. QED  BY <1>1, <1>2, <1>3, <1>4, <1>5 DEF Sound

LEMMA RefresherTurnSound ==
  ASSUME faults' = 0, TypeOK, TypeOK', Sound, RefresherTurn
  PROVE  Sound'
<1>1. TicketKept'
  BY ProcessAssumption DEF RefresherTurn, Goto, At, Sound, TicketKept, Saving
<1>2. RefresherSound'
  BY DEF RefresherTurn, Idle, Goto, Sound, RefresherSound
<1>3. TokenCovered'
  BY DEF RefresherTurn, Idle, Goto, Sound, TokenCovered, TypeOK
<1>4. MissSound'
  BY DEF RefresherTurn, Goto, At, MissSound, TypeOK
<1>5. TokenOnItsWay'
  BY DEF RefresherTurn, Goto, Sound, TokenOnItsWay
<1>. QED  BY <1>1, <1>2, <1>3, <1>4, <1>5 DEF Sound

LEMMA StartSound ==
  ASSUME faults' = 0, TypeOK, TypeOK', Sound, Start
  PROVE  Sound'
<1>1. TicketKept'
  BY ProcessAssumption DEF Start, Goto, At, Sound, TicketKept, Saving
<1>2. RefresherSound'
  BY ProcessAssumption DEF Start, Idle, Goto, Sound, RefresherSound, TypeOK
<1>3. TokenCovered'
  BY DEF Start, TokenCovered
<1>4. MissSound'
  BY DEF Start, MissSound
<1>5. TokenOnItsWay'
  BY DEF Start, TokenOnItsWay
<1>. QED  BY <1>1, <1>2, <1>3, <1>4, <1>5 DEF Sound

LEMMA StopComponentTokenRefresherSound ==
  ASSUME faults' = 0, TypeOK, TypeOK', Sound, StopComponentTokenRefresher
  PROVE  Sound'
<1>1. TicketKept'
  BY DEF StopComponentTokenRefresher, At, Sound, TicketKept, Saving
<1>2. RefresherSound'
  BY DEF StopComponentTokenRefresher, Idle, Sound, RefresherSound
<1>3. TokenCovered'
  BY DEF StopComponentTokenRefresher, TokenCovered
<1>4. MissSound'
  BY DEF StopComponentTokenRefresher, MissSound
<1>5. TokenOnItsWay'
  BY DEF StopComponentTokenRefresher, TokenOnItsWay
<1>. QED  BY <1>1, <1>2, <1>3, <1>4, <1>5 DEF Sound

LEMMA ExitSound ==
  ASSUME faults' = 0, TypeOK, TypeOK', Sound, Exit
  PROVE  Sound'
<1>1. TicketKept'
  BY DEF Exit, Down, Idle, At, Sound, TicketKept, Saving, Process
<1>2. RefresherSound'
  BY DEF Exit, Down, Idle, RefresherSound, Process
<1>3. TokenCovered'
  BY DEF Exit, Down, TokenCovered
<1>4. MissSound'
  BY DEF Exit, Down, MissSound
<1>5. TokenOnItsWay'
  BY DEF Exit, Down, TokenOnItsWay
<1>. QED  BY <1>1, <1>2, <1>3, <1>4, <1>5 DEF Sound

LEMMA TickSound ==
  ASSUME faults' = 0, TypeOK, TypeOK', Sound, Tick
  PROVE  Sound'
<1>1. TicketKept'
  BY DEF Tick, Left, Idle, At, Sound, TicketKept, Saving, Process, TypeOK
<1>2. RefresherSound'
  BY TimeAssumption DEF Tick, Idle, Sound, RefresherSound, Process
<1>3. TokenCovered'
  BY TimeAssumption DEF Tick, Left, Idle, Sound, TokenCovered, RefresherSound,
     Process, TypeOK
<1>4. MissSound'
  <2>. SUFFICES ASSUME At(Refresher, "db")', saved' = 0, mode' = "up"
                PROVE  token' = 0 \/ token' > next' + 1
    BY DEF MissSound
  <2>1. At(Refresher, "db") /\ saved = 0 /\ mode = "up"
    BY DEF Tick, At
  <2>2. token = 0 \/ token > next + 1
    BY <2>1 DEF Sound, MissSound
  <2>3. next = Interval
    BY <2>1 DEF Tick, Sound, RefresherSound, Idle, At
  <2>4. next' = next - 1 /\ token' = Left(token)
    BY <2>1, <2>3, TimeAssumption DEF Tick
  <2>. QED  BY <2>2, <2>3, <2>4, TimeAssumption DEF Left, TypeOK
<1>5. TokenOnItsWay'
  BY TimeAssumption DEF Tick, Left, Idle, At, Sound, TokenOnItsWay, TokenCovered,
     RefresherSound, TicketKept, Saving, Process, TypeOK
<1>. QED  BY <1>1, <1>2, <1>3, <1>4, <1>5 DEF Sound

LEMMA NextSound ==
  ASSUME faults' = 0, TypeOK, TypeOK', Sound, [Next]_vars
  PROVE  Sound'
<1>1. ASSUME NEW p \in Process, Call(p) PROVE Sound'
  BY <1>1, ReadTicketSound, ReadSavedTicketSound, SetTokenSound, CacheTicketSound,
     SaveTicketSound DEF Call
<1>2. CASE Server
  <2>1. ~Crash
    BY DEF Crash, TypeOK
  <2>. QED  BY <1>2, <2>1, StartSound, StopComponentTokenRefresherSound, ExitSound DEF Server
<1>3. CASE UNCHANGED vars
  BY <1>3 DEF vars, Sound, TicketKept, Saving, RefresherSound, TokenCovered, MissSound,
              TokenOnItsWay, At, Idle
<1>. QED
  BY <1>1, <1>2, <1>3, GetComponentAccessTokenSound, HandleComponentVerifyTicketSound,
     RefresherTurnSound, TickSound DEF Next

\* What has failed stays failed: no step takes the count of failures back.
LEMMA FailuresAdd ==
  ASSUME TypeOK, [Next]_vars, faults' = 0
  PROVE  faults = 0
BY DEF TypeOK, vars, Next, Call, Succeeds, Fails, ReadTicket, ReadSavedTicket, SetToken,
       CacheTicket, SaveTicket, GetComponentAccessToken, HandleComponentVerifyTicket,
       Arrive, RefresherTurn, Server, Start, StopComponentTokenRefresher, Exit, Crash, Tick

LEMMA InitSound == Init => Sound
BY ProcessAssumption, TimeAssumption
   DEF Init, Sound, TicketKept, Saving, RefresherSound, TokenCovered, MissSound,
       TokenOnItsWay, At, Idle, Process

\* The inductive invariant: types in every state, and what covers the token as
\* long as nothing has failed, for any number of handlers and whatever the
\* times, if TokenTTL > Interval + 1.
THEOREM InvariantHolds == Spec => []CInv
<1>1. Init => CInv
  BY InitType, InitSound DEF CInv
<1>2. CInv /\ [Next]_vars => CInv'
  BY NextType, NextSound, FailuresAdd DEF CInv
<1>. QED  BY <1>1, <1>2, PTL DEF Spec

\* wechat.go, StartComponentTokenRefresher: refreshing every 100 minutes a
\* token that lives 110 leaves no gap, though each refresh may be late by a
\* unit of five minutes, and though requests and pushes refresh it as well.
THEOREM TokenNeverMissing == Spec => []TokenReady
<1>1. CInv => TokenReady
  BY DEF CInv, Sound, TokenOnItsWay, TokenReady, Idle, TypeOK
<1>. QED  BY <1>1, InvariantHolds, PTL
=============================================================================
