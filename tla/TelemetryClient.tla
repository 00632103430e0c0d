--------------------------- MODULE TelemetryClient ---------------------------
(***************************************************************************)
(* How gatewayd hands its events to telemetryd                             *)
(* (internal/gateway/telemetry/client.go): request handlers put events in  *)
(* a bounded buffer; the batch loop, and up to MaxFlushes goroutines that  *)
(* Emit starts, each take the whole buffer and send it, dialling again     *)
(* when the connection is lost; Close and Flush come from other            *)
(* goroutines.  telemetryd (cmd/telemetryd/ingest_rpc.go) may stop and     *)
(* start again; its event log is on disk.                                  *)
(*                                                                         *)
(* A call is three steps: it is made on the connection the client had at   *)
(* that moment, the server appends, the answer arrives.  A step under the  *)
(* client's lock is one action.                                            *)
(***************************************************************************)
EXTENDS EventLog, FiniteSets, Functions

CONSTANTS
  Loop,         \* the goroutine of batchLoop
  Flushers,     \* the places of flushSem, two in the code
  Callers,      \* goroutines that call Flush
  BatchSize,    \* ClientConfig
  QueueSize,    \* ClientConfig
  MaxAttempts,  \* ClientConfig.MaxReconnectAttempts
  AskCap,       \* capacity of flushCh, 4 in the code
  MaxEvents,    \* bound: how many events are emitted
  MaxDials,     \* bound: how many connections are made
  MaxOutages,   \* bound: how often telemetryd stops
  None

Senders == {Loop} \cup Flushers

(* What the instances make true. *)
ClientAssumption ==
  /\ Loop \notin Flushers /\ None \notin Callers
  /\ IsFiniteSet(Flushers) /\ IsFiniteSet(Callers)
  /\ BatchSize \in Nat \ {0} /\ QueueSize \in Nat \ {0}
  /\ MaxAttempts \in Nat \ {0} /\ AskCap \in Nat
  /\ MaxEvents \in Nat /\ MaxDials \in Nat \ {0} /\ MaxOutages \in Nat

VARIABLES
  emitted,    \* the events Emit has taken are 1..emitted
  buffer,     \* Client.buffer
  sender,     \* the goroutines that send, see Sender
  asks,       \* flushCh, the callers whose channels are in it
  caller,     \* where each caller of Flush is
  client,     \* the connection in Client.rpcClient
  conns,      \* the connections dialled so far: open, cut by the server, closed
  sent,       \* sentCount
  dropped,    \* droppedCount
  cancelled,  \* Client.ctx
  closed,     \* Close has returned
  log,        \* telemetryd's event log
  up,         \* telemetryd is listening
  outages     \* how often it has stopped

clientVars == <<emitted, buffer, sender, asks, caller, client, conns, sent, dropped,
                cancelled, closed>>
serverVars == <<log, up, outages>>
vars == <<clientVars, serverVars>>

Event == 1..MaxEvents

(* idle: no goroutine, or the loop in its select.  spawned: about to swap the *)
(* buffer.  ready: at the head of sendBatch's loop.  calling, dialling,       *)
(* sleeping: as named.  done: the loop has returned.                          *)
Sender ==
  [at       : {"idle", "spawned", "ready", "calling", "dialling", "sleeping", "done"},
   batch    : Seq(Event),
   attempt  : 0..MaxAttempts,
   on       : 0..MaxDials,                \* the connection of the call
   found    : {"open", "cut", "closed"},  \* what it was when the call was made
   answered : BOOLEAN,                    \* the server has done its part
   fresh    : Nat,                        \* resp.Accepted
   ask      : Callers \cup {None},        \* the Flush the loop is serving
   last     : BOOLEAN]                    \* the flush the loop makes on ctx.Done

Resting == [at |-> "idle", batch |-> <<>>, attempt |-> 0, on |-> 0, found |-> "open",
            answered |-> FALSE, fresh |-> 0, ask |-> None, last |-> FALSE]

TypeOK ==
  /\ emitted \in 0..MaxEvents /\ buffer \in Seq(Event)
  /\ sender \in [Senders -> Sender]
  /\ asks \in Seq(Callers) /\ caller \in [Callers -> {"out", "waiting", "served", "refused"}]
  /\ conns \in Seq({"open", "cut", "closed"}) /\ Len(conns) \in 1..MaxDials
  /\ client \in DOMAIN conns
  /\ sent \in Nat /\ dropped \in Nat
  /\ cancelled \in BOOLEAN /\ closed \in BOOLEAN
  /\ log \in Seq(Event) /\ up \in BOOLEAN /\ outages \in 0..MaxOutages

Init ==
  /\ emitted = 0 /\ buffer = <<>> /\ sender = [s \in Senders |-> Resting]
  /\ asks = <<>> /\ caller = [c \in Callers |-> "out"]
  /\ conns = <<"open">> /\ client = 1
  /\ sent = 0 /\ dropped = 0 /\ cancelled = FALSE /\ closed = FALSE
  /\ log = <<>> /\ up = TRUE /\ outages = 0

------------------------------------------------------------------------------
(* Emit: refused once the context is cancelled; the oldest events make room;  *)
(* a full batch starts a goroutine if flushSem has a place.                   *)
Emit ==
  /\ ~cancelled /\ emitted < MaxEvents
  /\ LET kept == SubSeq(buffer, 1 + (IF Len(buffer) >= QueueSize THEN Len(buffer) + 1 - QueueSize ELSE 0),
                        Len(buffer))
         free == {s \in Flushers : sender[s].at = "idle"}
     IN /\ emitted' = emitted + 1
        /\ buffer' = Append(kept, emitted + 1)
        /\ dropped' = dropped + (Len(buffer) - Len(kept))
        /\ IF Len(buffer') >= BatchSize /\ free # {}
             THEN \E s \in free : sender' = [sender EXCEPT ![s].at = "spawned"]
             ELSE UNCHANGED sender
  /\ UNCHANGED <<asks, caller, client, conns, sent, cancelled, closed, serverVars>>

(* What a goroutine does after its flush: the loop answers the Flush it       *)
(* served and selects again, or returns; another goroutine frees its place.   *)
After(s) == IF sender[s].last THEN [Resting EXCEPT !.at = "done"] ELSE Resting

FlushEnds(s) ==
  /\ sender' = [sender EXCEPT ![s] = After(s)]
  /\ caller' = IF sender[s].ask = None THEN caller
               ELSE [caller EXCEPT ![sender[s].ask] = "served"]

(* Mutant: the buffer is copied, not swapped. *)
BugSwapKeepsBuffer(s, r) ==
  /\ UNCHANGED buffer
  /\ sender' = [sender EXCEPT ![s] = IF buffer = <<>> THEN [r EXCEPT !.at = IF r.last THEN "done" ELSE "idle"]
                                                     ELSE [r EXCEPT !.at = "ready", !.batch = buffer]]
  /\ UNCHANGED caller

(* The part of flush under the lock, with what the loop is to do afterwards.  *)
Swap(s, r) ==
  /\ buffer' = <<>>
  /\ IF buffer = <<>>
       THEN /\ sender' = [sender EXCEPT ![s] = IF r.last THEN [Resting EXCEPT !.at = "done"]
                                                         ELSE Resting]
            /\ caller' = IF r.ask = None THEN caller ELSE [caller EXCEPT ![r.ask] = "served"]
       ELSE /\ sender' = [sender EXCEPT ![s] = [r EXCEPT !.at = "ready", !.batch = buffer]]
            /\ UNCHANGED caller

SpawnedFlush(s) ==
  /\ sender[s].at = "spawned" /\ Swap(s, Resting)
  /\ UNCHANGED <<emitted, asks, client, conns, sent, dropped, cancelled, closed, serverVars>>

(* batchLoop: when several cases of the select are ready, either is taken.    *)
LoopTick ==
  /\ sender[Loop].at = "idle" /\ buffer # <<>> /\ Swap(Loop, Resting)
  /\ UNCHANGED <<emitted, asks, client, conns, sent, dropped, cancelled, closed, serverVars>>

LoopAsked ==
  /\ sender[Loop].at = "idle" /\ asks # <<>>
  /\ Swap(Loop, [Resting EXCEPT !.ask = Head(asks)])
  /\ asks' = Tail(asks)
  /\ UNCHANGED <<emitted, client, conns, sent, dropped, cancelled, closed, serverVars>>

LoopStops ==
  /\ sender[Loop].at = "idle" /\ cancelled
  /\ Swap(Loop, [Resting EXCEPT !.last = TRUE])
  /\ UNCHANGED <<emitted, asks, client, conns, sent, dropped, cancelled, closed, serverVars>>

(* Flush *)
Ask(c) ==
  /\ caller[c] = "out"
  /\ \/ Len(asks) < AskCap /\ asks' = Append(asks, c) /\ caller' = [caller EXCEPT ![c] = "waiting"]
     \/ cancelled /\ caller' = [caller EXCEPT ![c] = "refused"] /\ UNCHANGED asks
  /\ UNCHANGED <<emitted, buffer, sender, client, conns, sent, dropped, cancelled, closed, serverVars>>

(* Close cancels, waits for the loop only, and closes the connection that is  *)
(* current then.                                                              *)
Cancel ==
  /\ ~cancelled /\ cancelled' = TRUE
  /\ UNCHANGED <<emitted, buffer, sender, asks, caller, client, conns, sent, dropped, closed, serverVars>>

CloseReturns ==
  /\ cancelled /\ ~closed /\ sender[Loop].at = "done"
  /\ closed' = TRUE /\ conns' = [conns EXCEPT ![client] = "closed"]
  /\ UNCHANGED <<emitted, buffer, sender, asks, caller, client, sent, dropped, cancelled, serverVars>>

------------------------------------------------------------------------------
(* sendBatch.  Every attempt loads the connection that is current then.       *)
Call(s) ==
  /\ sender[s].at = "ready"
  /\ sender' = [sender EXCEPT ![s].at = "calling", ![s].on = client,
                              ![s].found = conns[client], ![s].answered = FALSE, ![s].fresh = 0]
  /\ UNCHANGED <<emitted, buffer, asks, caller, client, conns, sent, dropped, cancelled, closed, serverVars>>

(* AppendBatch: one transaction; an event whose insert fails, because the log *)
(* has its id or otherwise, is counted as dropped.  When the transaction fails the answer, too, counts them all as   *)
(* dropped, and the call itself succeeds.                                     *)
ServerAppends(s) ==
  /\ sender[s].at = "calling" /\ ~sender[s].answered
  /\ up /\ sender[s].found = "open" /\ conns[sender[s].on] = "open"
  /\ \/ /\ \E failed \in SUBSET DOMAIN sender[s].batch : log' = Appended(log, sender[s].batch, failed)
        /\ sender' = [sender EXCEPT ![s].answered = TRUE, ![s].fresh = Len(log') - Len(log)]
     \/ /\ sender' = [sender EXCEPT ![s].answered = TRUE]
        /\ UNCHANGED log
  /\ UNCHANGED <<emitted, buffer, asks, caller, client, conns, sent, dropped, cancelled, closed, up, outages>>

Answered(s) ==
  /\ sender[s].at = "calling" /\ sender[s].answered
  /\ conns[sender[s].on] = "open"
  /\ sent' = sent + sender[s].fresh
  /\ dropped' = dropped + (Len(sender[s].batch) - sender[s].fresh)
  /\ FlushEnds(s)
  /\ UNCHANGED <<emitted, buffer, asks, client, conns, cancelled, closed, serverVars>>

(* isConnectionError of what net/rpc returns: a call that is pending when     *)
(* this process closes the connection fails with net.ErrClosed; one made      *)
(* after that with rpc.ErrShutdown, which it does not know; on a connection   *)
(* the peer cut it is ECONNRESET or EPIPE, which it knows, or                 *)
(* io.ErrUnexpectedEOF or rpc.ErrShutdown, which it does not.                 *)
Recognised(s) ==
  IF sender[s].found = "closed" THEN {FALSE}
  ELSE IF sender[s].found = "open" /\ conns[sender[s].on] = "closed" THEN {TRUE}
  ELSE BOOLEAN

(* A sender between two calls. *)
Waiting(s, where, attempt) ==
  [sender[s] EXCEPT !.at = where, !.attempt = attempt, !.on = 0, !.found = "open",
                    !.answered = FALSE, !.fresh = 0]

(* The end of the loop's body: the batch is given up on the last attempt or   *)
(* when the client is closing, else the goroutine sleeps.                     *)
GiveUpOrSleep(s) ==
  IF sender[s].attempt + 1 = MaxAttempts \/ cancelled
    THEN /\ dropped' = dropped + Len(sender[s].batch)
         /\ FlushEnds(s)
    ELSE /\ sender' = [sender EXCEPT ![s] = Waiting(s, "sleeping", sender[s].attempt)]
         /\ UNCHANGED <<dropped, caller>>

(* The next attempt, or the drop after the loop. *)
NextAttempt(s) ==
  IF sender[s].attempt + 1 = MaxAttempts
    THEN /\ dropped' = dropped + Len(sender[s].batch)
         /\ FlushEnds(s)
    ELSE /\ sender' = [sender EXCEPT ![s] = Waiting(s, "ready", sender[s].attempt + 1)]
         /\ UNCHANGED <<dropped, caller>>

(* reconnect closes whatever connection is current by now, then dials.        *)
CallFails(s) ==
  /\ sender[s].at = "calling" /\ conns[sender[s].on] # "open"
  /\ \E known \in Recognised(s) :
       IF known
         THEN /\ conns' = [conns EXCEPT ![client] = "closed"]
              /\ sender' = [sender EXCEPT ![s] = Waiting(s, "dialling", sender[s].attempt)]
              /\ UNCHANGED <<dropped, caller>>
         ELSE /\ GiveUpOrSleep(s)
              /\ UNCHANGED conns
  /\ UNCHANGED <<emitted, buffer, asks, client, sent, cancelled, closed, serverVars>>

(* Mutant: what the dialler returned is stored without looking at its error. *)
BugDialStoresNil(s) ==
  /\ sender[s].at = "dialling"
  /\ client' = Len(conns) + 1
  /\ IF up /\ Len(conns) < MaxDials
       THEN conns' = Append(conns, "open") /\ NextAttempt(s)
       ELSE GiveUpOrSleep(s) /\ UNCHANGED conns
  /\ UNCHANGED <<emitted, buffer, asks, sent, cancelled, closed, serverVars>>

Dial(s) ==
  /\ sender[s].at = "dialling"
  /\ IF up /\ Len(conns) < MaxDials
       THEN /\ conns' = Append(conns, "open")
            /\ client' = Len(conns) + 1
            /\ NextAttempt(s)
       ELSE /\ GiveUpOrSleep(s)
            /\ UNCHANGED <<conns, client>>
  /\ UNCHANGED <<emitted, buffer, asks, sent, cancelled, closed, serverVars>>

Wake(s) ==
  /\ sender[s].at = "sleeping" /\ NextAttempt(s)
  /\ UNCHANGED <<emitted, buffer, asks, client, conns, sent, cancelled, closed, serverVars>>

(* telemetryd dies, with every connection, or is replaced.  aigw supervise    *)
(* does not start a daemon again: whoever runs the system does.               *)
ServerStops ==
  /\ up /\ outages < MaxOutages
  /\ up' = FALSE /\ outages' = outages + 1
  /\ conns' = [i \in DOMAIN conns |-> IF conns[i] = "open" THEN "cut" ELSE conns[i]]
  /\ UNCHANGED <<emitted, buffer, sender, asks, caller, client, sent, dropped, cancelled, closed, log>>

ServerStarts ==
  /\ ~up /\ up' = TRUE
  /\ UNCHANGED <<clientVars, log, outages>>

SenderStep(s) ==
  Call(s) \/ ServerAppends(s) \/ Answered(s) \/ CallFails(s) \/ Dial(s) \/ Wake(s)

Next ==
  \/ Emit \/ Cancel \/ CloseReturns
  \/ LoopTick \/ LoopAsked \/ LoopStops
  \/ \E s \in Flushers : SpawnedFlush(s)
  \/ \E s \in Senders : SenderStep(s)
  \/ \E c \in Callers : Ask(c)
  \/ ServerStops \/ ServerStarts

Spec == Init /\ [][Next]_vars

(* Goroutines run, a select takes each of its cases in time, telemetryd       *)
(* answers or goes away, and whoever stopped it starts it again.  Nothing     *)
(* obliges a handler to emit or a caller to flush or close.                   *)
Fairness ==
  /\ WF_vars(LoopTick) /\ SF_vars(LoopAsked) /\ SF_vars(LoopStops) /\ WF_vars(CloseReturns)
  /\ \A s \in Flushers : WF_vars(SpawnedFlush(s))
  /\ \A s \in Senders : WF_vars(SenderStep(s))
  /\ WF_vars(ServerStarts)

FairSpec == Spec /\ Fairness

------------------------------------------------------------------------------
Held(s) == sender[s].batch
Ids(seq) == {seq[i] : i \in DOMAIN seq}

HeldByAny == UNION {Ids(Held(s)) : s \in Senders}

(* Every event Emit took is in the buffer, in the hands of one goroutine, or  *)
(* counted: as sent by the answer to the one call that stored it, or as       *)
(* dropped by the overflow of the buffer, by an attempt given up or by the    *)
(* answer to a repeated call.  Emit, the flushes, lost answers and repeated   *)
(* calls race; no event is ever held twice, so none can be counted twice.     *)
OneHolder ==
  /\ IsInjective(buffer) /\ \A s \in Senders : IsInjective(Held(s))
  /\ \A s, t \in Senders : s # t => Ids(Held(s)) \cap Ids(Held(t)) = {}
  /\ HeldByAny \cap Ids(buffer) = {}

Counted == sent + dropped + Cardinality(HeldByAny \cup Ids(buffer)) = emitted

(* telemetryd keeps no event twice, however often a batch is sent again after *)
(* a lost answer; Stats never claims more than it keeps; and an event that it *)
(* does not keep and nobody holds any more is among those counted as dropped. *)
CountsHonest ==
  /\ IsInjective(log)
  /\ sent <= Len(log)
  /\ Cardinality((1..emitted) \ (Ids(log) \cup Ids(buffer) \cup HeldByAny)) <= dropped

(* Once the loop has made its last flush no event is in the buffer any more:  *)
(* Emit looks at the context under the lock the flush takes.                  *)
NothingLeftBehind == sender[Loop].at = "done" => buffer = <<>>

(* The four together: what becomes of an event that a handler emitted.        *)
EventsAccounted == OneHolder /\ Counted /\ CountsHonest /\ NothingLeftBehind

(* Close comes back, whatever telemetryd does meanwhile, and so does a Flush  *)
(* unless the client is closed.                                               *)
CallersReturn ==
  /\ cancelled ~> closed
  /\ \A c \in Callers : caller[c] = "waiting" ~> (caller[c] = "served" \/ cancelled)

(* "Supports automatic reconnection when the connection is lost"              *)
(* (client.go:21): with a batch to send and telemetryd there, the lost        *)
(* connection is replaced.  The code does so only for the errors              *)
(* isConnectionError knows.                                                   *)
Reconnected == conns[client] = "open" \/ ~up \/ cancelled \/ Len(conns) = MaxDials
RedialsAfterLoss ==
  (conns[client] = "cut" /\ up /\ \E s \in Senders : sender[s].at = "sleeping") ~> Reconnected
==============================================================================
