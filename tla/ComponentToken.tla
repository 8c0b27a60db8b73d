---------------------------- MODULE ComponentToken ----------------------------
(***************************************************************************)
(* The component_access_token of the open platform and the                 *)
(* component_verify_ticket it is made from                                 *)
(* (internal/service/wechat/wechat.go, cmd/server/main.go).                *)
(*                                                                         *)
(* WeChat pushes a ticket; the handler keeps it in Redis for 15 minutes    *)
(* and in PostgreSQL for good, and refreshes the token.  A goroutine       *)
(* refreshes it every 100 minutes, once more when the server starts, and   *)
(* so does any caller that finds no token.  The token lives 110 minutes.   *)
(*                                                                         *)
(* Time passes in units of five minutes.  A handler may be slow, but ends  *)
(* before a second unit is over.  A call to Redis or PostgreSQL fails at   *)
(* most MaxFaults times, crashes included.                                 *)
(***************************************************************************)
EXTENDS Naturals

CONSTANTS
  Caller,     \* HTTP handlers and the self-check that run at the same time
  Refresher,  \* the goroutine of StartComponentTokenRefresher
  TicketTTL,  \* life of the ticket in Redis, in units of time
  TokenTTL,   \* life of the token in Redis
  Interval,   \* refreshInterval
  MaxFaults   \* bound on failed calls and crashes

ASSUME ProcessAssumption == Refresher \notin Caller
ASSUME TimeAssumption ==
  /\ TicketTTL \in Nat /\ TicketTTL > 1
  /\ Interval \in Nat /\ Interval > 1
  /\ TokenTTL \in Nat /\ TokenTTL > Interval + 1
ASSUME FaultAssumption == MaxFaults \in Nat

Process == Caller \cup {Refresher}

VARIABLES
  mode,       \* the server process
  ticket,     \* units the ticket has left in Redis; 0: no key
  saved,      \* rows in component_verify_tickets (one is as good as many)
  token,      \* units the token has left in Redis; 0: no key
  next,       \* units until the ticker fires
  ticks,      \* ticks in the ticker's channel, which holds one
  pc,         \* the next call of each process
  late,       \* the processes that have been in flight for a unit
  faults      \* how many calls have failed

vars == <<mode, ticket, saved, token, next, ticks, pc, late, faults>>

-----------------------------------------------------------------------------
Idle(p) == pc[p] = "idle"
At(p, step) == pc[p] = step
Goto(p, step) ==
  /\ pc' = [pc EXCEPT ![p] = step]
  /\ UNCHANGED late
Finish(p) ==
  /\ pc' = [pc EXCEPT ![p] = "idle"]
  /\ late' = late \ {p}

\* Mutant of Cancelled: the ticks run under the context of main.
CancelledNever(p) == FALSE

\* The refresher's context ends with StopComponentTokenRefresher.
Cancelled(p) == p = Refresher /\ mode = "stopping"

\* A call under an ended context fails; any other call may.
Succeeds(p) == ~Cancelled(p) /\ UNCHANGED faults
Fails(p) == \/ Cancelled(p) /\ UNCHANGED faults
            \/ ~Cancelled(p) /\ faults < MaxFaults /\ faults' = faults + 1

\* The startup refresh is over: the goroutine and its ticker begin.
StartTicker(p) ==
  IF p = Refresher /\ mode = "starting"
  THEN mode' = "up" /\ next' = Interval /\ ticks' = 0
  ELSE UNCHANGED <<mode, next, ticks>>

-----------------------------------------------------------------------------
(* refreshComponentToken, run by any process *)

ReadTicket(p) ==
  /\ At(p, "read")
  /\ \/ Succeeds(p) /\ ticket > 0 /\ Goto(p, "set")
     \/ Succeeds(p) /\ ticket = 0 /\ Goto(p, "db")
     \/ Fails(p) /\ Goto(p, "db")
  /\ UNCHANGED <<mode, ticket, saved, token, next, ticks>>

\* Mutant of ReadSavedTicket: no fallback to the saved ticket.
ReadSavedTicketNever(p) ==
  /\ At(p, "db")
  /\ Finish(p)
  /\ StartTicker(p)
  /\ UNCHANGED <<ticket, saved, token, faults>>

\* GetLatest: with no ticket at all the refresh gives up.
ReadSavedTicket(p) ==
  /\ At(p, "db")
  /\ \/ /\ Succeeds(p) /\ saved = 1
        /\ Goto(p, "set")
        /\ UNCHANGED <<mode, next, ticks>>
     \/ /\ Fails(p) \/ (Succeeds(p) /\ saved = 0)
        /\ Finish(p)
        /\ StartTicker(p)
  /\ UNCHANGED <<ticket, saved, token>>

\* Mutant of SetToken: the token lives no longer than the refresh interval.
SetShortToken(p) ==
  /\ At(p, "set")
  /\ \/ Succeeds(p) /\ token' = Interval
     \/ Fails(p) /\ UNCHANGED token
  /\ Finish(p)
  /\ StartTicker(p)
  /\ UNCHANGED <<ticket, saved>>

SetToken(p) ==
  /\ At(p, "set")
  /\ \/ Succeeds(p) /\ token' = TokenTTL
     \/ Fails(p) /\ UNCHANGED token
  /\ Finish(p)
  /\ StartTicker(p)
  /\ UNCHANGED <<ticket, saved>>

-----------------------------------------------------------------------------
(* Who refreshes *)

Arrive(p, step) ==
  /\ p \in Caller
  /\ mode = "up"
  /\ Idle(p)
  /\ Goto(p, step)
  /\ UNCHANGED <<mode, ticket, saved, token, next, ticks, faults>>

\* GetComponentAccessToken: a hit returns; with no token it refreshes.
GetComponentAccessToken(p) == token = 0 /\ Arrive(p, "read")

HandleComponentVerifyTicket(p) == Arrive(p, "push.cache")

\* A failed write is logged, and the handler goes on.
CacheTicket(p) ==
  /\ At(p, "push.cache")
  /\ \/ Succeeds(p) /\ ticket' = TicketTTL
     \/ Fails(p) /\ UNCHANGED ticket
  /\ Goto(p, "push.save")
  /\ UNCHANGED <<mode, saved, token, next, ticks>>

SaveTicket(p) ==
  /\ At(p, "push.save")
  /\ \/ Succeeds(p) /\ saved' = 1
     \/ Fails(p) /\ UNCHANGED saved
  /\ Goto(p, "read")
  /\ UNCHANGED <<mode, ticket, token, next, ticks>>

\* One turn of the goroutine's select loop.  After Stop both channels may be
\* ready, and select picks either.
RefresherTurn ==
  /\ mode \in {"up", "stopping"}
  /\ Idle(Refresher)
  /\ ticks = 1
  /\ ticks' = 0
  /\ Goto(Refresher, "read")
  /\ UNCHANGED <<mode, ticket, saved, token, next, faults>>

-----------------------------------------------------------------------------
(* The server process *)

\* main, up to StartComponentTokenRefresher, which refreshes at once.
Start ==
  /\ mode = "down"
  /\ mode' = "starting"
  /\ Goto(Refresher, "read")
  /\ UNCHANGED <<ticket, saved, token, next, ticks, faults>>

StopComponentTokenRefresher ==
  /\ mode = "up"
  /\ mode' = "stopping"
  /\ UNCHANGED <<ticket, saved, token, next, ticks, pc, late, faults>>

Down ==
  /\ mode' = "down"
  /\ ticks' = 0
  /\ pc' = [p \in Process |-> "idle"]
  /\ late' = {}
  /\ UNCHANGED <<ticket, saved, token, next>>

\* Shutdown returns when the handlers are done.
Exit ==
  /\ mode = "stopping"
  /\ \A p \in Caller : Idle(p)
  /\ Down
  /\ UNCHANGED faults

\* The process is killed, or Shutdown gives up on its handlers.
Crash ==
  /\ mode # "down"
  /\ faults < MaxFaults
  /\ faults' = faults + 1
  /\ Down

-----------------------------------------------------------------------------
(* Time *)

Left(ttl) == IF ttl = 0 THEN 0 ELSE ttl - 1

Tick ==
  /\ late = {}
  /\ ticks = 1 => mode = "stopping"
  /\ ticket' = Left(ticket)
  /\ token' = Left(token)
  /\ IF mode \in {"up", "stopping"}
     THEN /\ next' = IF next = 1 THEN Interval ELSE next - 1
          /\ ticks' = IF next = 1 THEN 1 ELSE ticks
     ELSE UNCHANGED <<next, ticks>>
  /\ late' = {p \in Process : ~Idle(p)}
  /\ UNCHANGED <<mode, saved, pc, faults>>

-----------------------------------------------------------------------------
Init ==
  /\ mode = "down"
  /\ ticket = 0
  /\ saved = 0
  /\ token = 0
  /\ next = Interval
  /\ ticks = 0
  /\ pc = [p \in Process |-> "idle"]
  /\ late = {}
  /\ faults = 0

Call(p) == \/ ReadTicket(p) \/ ReadSavedTicket(p) \/ SetToken(p)
           \/ CacheTicket(p) \/ SaveTicket(p)

Server == Start \/ StopComponentTokenRefresher \/ Exit \/ Crash

Next == \/ \E p \in Process : \/ Call(p)
                              \/ GetComponentAccessToken(p)
                              \/ HandleComponentVerifyTicket(p)
        \/ RefresherTurn
        \/ Server
        \/ Tick

Spec == Init /\ [][Next]_vars

\* Processes run on and time passes; compose restarts the server whenever it
\* is down (restart: unless-stopped), and a stopping server exits.
Fairness == /\ \A p \in Process : WF_vars(Call(p))
            /\ WF_vars(RefresherTurn)
            /\ WF_vars(Start)
            /\ WF_vars(Exit)
            /\ WF_vars(Tick)

FairSpec == Spec /\ Fairness

-----------------------------------------------------------------------------
(* Properties *)

TypeOK ==
  /\ mode \in {"down", "starting", "up", "stopping"}
  /\ ticket \in 0 .. TicketTTL
  /\ saved \in 0 .. 1
  /\ token \in 0 .. TokenTTL
  /\ next \in 1 .. Interval
  /\ ticks \in 0 .. 1
  /\ pc \in [Process -> {"idle", "push.cache", "push.save", "read", "db", "set"}]
  /\ late \subseteq Process
  /\ faults \in 0 .. MaxFaults

\* As long as nothing has failed: once a ticket has been saved, a server that
\* is up and serves no request has a token, at every moment between two
\* refreshes and however late the refreshes are.
TokenReady ==
  faults = 0 /\ mode = "up" /\ saved = 1 /\ (\A c \in Caller : Idle(c)) => token > 0

\* StopComponentTokenRefresher stops the refresher: whatever select picks
\* afterwards and wherever the refresh was, the token it would set is not
\* written any more; only handlers being drained still set one.
RefresherStops ==
  [][mode = "stopping" /\ token' > token =>
       \E c \in Caller : At(c, "set") /\ pc'[c] = "idle"]_vars

\* Failures and restarts do not last: once a ticket has been saved, whenever
\* the token is gone it comes back.
TokenRecovers == saved = 1 ~> token > 0

-----------------------------------------------------------------------------
(* The inductive invariant behind TokenReady, as long as nothing has failed *)

Saving(c) == At(c, "push.save")

\* A ticket there is, or one a token is made from, has been saved, or is about
\* to be by a handler whose ticket is still in Redis.
TicketKept ==
  /\ ticket > 0 \/ token > 0 \/ (\E p \in Process : At(p, "set")) =>
       saved = 1 \/ \E c \in Caller : Saving(c)
  /\ \A c \in Caller : Saving(c) => ticket > (IF c \in late THEN 0 ELSE 1)

\* Where the refresher and its ticker can be.
RefresherSound ==
  /\ pc[Refresher] \in {"idle", "read", "db", "set"}
  /\ mode \in {"down", "starting"} => ticks = 0 /\ \A c \in Caller : Idle(c)
  /\ mode = "down" => Idle(Refresher)
  /\ mode = "starting" => ~Idle(Refresher)
  /\ late \subseteq {p \in Process : ~Idle(p)}
  /\ mode = "up" =>
       /\ ticks = 1 => Idle(Refresher) /\ next = Interval
       /\ ~Idle(Refresher) => next = IF Refresher \in late THEN Interval - 1 ELSE Interval

\* A token there is outlives the next refresh.
TokenCovered ==
  mode = "up" /\ token > 0 =>
    CASE ticks = 1 -> token > 1
      [] ticks = 0 /\ Idle(Refresher) -> token > next + 1
      [] ticks = 0 /\ ~Idle(Refresher) /\ Refresher \notin late -> token > 1
      [] OTHER -> TRUE

\* A refresh that missed the Redis ticket either finds a saved one, or
\* started when there was no token at all.
MissSound ==
  At(Refresher, "db") /\ saved = 0 /\ mode = "up" => token = 0 \/ token > next + 1

\* Whoever saved a ticket goes on to set the token.
TokenOnItsWay ==
  mode = "up" /\ saved = 1 /\ token = 0 =>
    \E c \in Caller : pc[c] \in {"read", "db", "set"}

\* Why the token never runs out between two refreshes.
Sound == TicketKept /\ RefresherSound /\ TokenCovered /\ MissSound /\ TokenOnItsWay

CInv == TypeOK /\ (faults = 0 => Sound)
=============================================================================
