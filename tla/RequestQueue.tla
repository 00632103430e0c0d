---------------------------- MODULE RequestQueue ----------------------------
(***************************************************************************)
(* The priority queue of gatewayd (gateway/queue/queue.go) under its one   *)
(* caller, EnqueueRequest of api/runtime_state.go: a channel per priority, *)
(* a channel of wake-up tokens, and schedulers that scan the channels one  *)
(* at a time, sleep on the tokens when all were empty, and hand what they  *)
(* find to a goroutine when the semaphore lets them.  ApplySnapshot closes *)
(* the queue when its configuration changes.                               *)
(***************************************************************************)
EXTENDS Naturals, Sequences, FiniteSets, SequencesExt, FiniteSetsExt

CONSTANTS
  Requests,
  Priority,       \* [Requests -> Priorities]
  Schedulers,     \* as many as may run at the same time
  ChannelCap,     \* places in each channel, tokens included
  MaxCancels,     \* bound: how many callers go away
  Regulars,       \* bound: who sends a request after the other
  Faulty          \* bound: whose execution may panic

Priorities == <<"high", "medium", "low">>
Level == 1..Len(Priorities)
MaxConcurrent == Cardinality(Schedulers)

ASSUME QueueAssumption ==
  /\ Priority \in [Requests -> Level] /\ IsFiniteSet(Schedulers) /\ Schedulers # {}
  /\ ChannelCap \in Nat \ {0} /\ MaxCancels \in Nat

VARIABLES
  closed,     \* the flag, and with it the queue's context
  channel,    \* the requests in each channel
  notify,     \* the tokens
  waiting,    \* the counters that Stats shows
  scheduler,
  caller,     \* where EnqueueRequest is
  work,       \* what became of the request's execution
  cancels

queueVars == <<closed, channel, notify, waiting, scheduler, caller, work, cancels>>

(* scan: the level a scheduler looks at; got: the request it has picked.      *)
SchedulerState ==
  [at : {"scan", "sleep", "stopped"}, level : Level] \cup [at : {"picked", "acquire"}, got : Requests]

QueueTypeOK ==
  /\ closed \in BOOLEAN
  /\ channel \in [Level -> Seq(Requests)] /\ \A l \in Level : Len(channel[l]) <= ChannelCap
  /\ notify \in 0..ChannelCap /\ waiting \in [Level -> Nat]
  /\ scheduler \in [Schedulers -> SchedulerState]
  /\ caller \in [Requests -> {"none", "counted", "sent", "waiting", "done", "refused", "left"}]
  /\ work \in [Requests -> {"none", "running", "ended", "panicked"}]
  /\ cancels \in 0..MaxCancels

Scan(l) == [at |-> "scan", level |-> l]
Sleeping == [at |-> "sleep", level |-> 1]
Stopped == [at |-> "stopped", level |-> 1]

QueueInit ==
  /\ closed = FALSE /\ channel = [l \in Level |-> <<>>] /\ notify = 0
  /\ waiting = [l \in Level |-> 0] /\ scheduler = [s \in Schedulers |-> Scan(1)]
  /\ caller = [r \in Requests |-> "none"] /\ work = [r \in Requests |-> "none"] /\ cancels = 0

Count(l, n) == waiting' = [waiting EXCEPT ![l] = @ + n]
Caller(r, where) == caller' = [caller EXCEPT ![r] = where]
Running == {r \in Requests : work[r] = "running"}

------------------------------------------------------------------------------
(* Enqueue reads the closed flag, counts the request, and only then waits for *)
(* a place in the channel, for its own context or for the queue's.            *)
Enqueue(r) ==
  /\ caller[r] = "none"
  /\ IF ~closed THEN Caller(r, "counted") /\ Count(Priority[r], 1)
                        ELSE Caller(r, "refused") /\ UNCHANGED waiting
  /\ UNCHANGED <<closed, channel, notify, scheduler, work, cancels>>

(* Of a place and a closed context the select takes either.                   *)
Send(r) ==
  /\ caller[r] = "counted" /\ Len(channel[Priority[r]]) < ChannelCap
  /\ channel' = [channel EXCEPT ![Priority[r]] = Append(@, r)] /\ Caller(r, "sent")
  /\ UNCHANGED <<closed, notify, waiting, scheduler, work, cancels>>

EnqueueFails(r) ==
  /\ caller[r] = "counted"
  /\ \/ closed /\ Caller(r, "refused") /\ UNCHANGED cancels
     \/ cancels < MaxCancels /\ cancels' = cancels + 1 /\ Caller(r, "left")
  /\ Count(Priority[r], -1)
  /\ UNCHANGED <<closed, channel, notify, scheduler, work>>

(* Mutant: wake a scheduler up only when nothing is running.                  *)
BugNotify(r) ==
  /\ caller[r] = "sent" /\ Caller(r, IF work[r] = "ended" THEN "done" ELSE "waiting")
  /\ notify' = IF Running = {} /\ notify < ChannelCap THEN notify + 1 ELSE notify
  /\ UNCHANGED <<closed, channel, waiting, scheduler, work, cancels>>

(* The token is dropped when there are enough of them.                        *)
Notify(r) ==
  /\ caller[r] = "sent" /\ Caller(r, IF work[r] = "ended" THEN "done" ELSE "waiting")
  /\ notify' = IF notify < ChannelCap THEN notify + 1 ELSE notify
  /\ UNCHANGED <<closed, channel, waiting, scheduler, work, cancels>>

(* EnqueueRequest then waits for the execution or for its own context, not    *)
(* for the queue's, so of an execution that is lost or panics it never hears. *)
Leave(r) ==
  /\ caller[r] = "waiting" /\ cancels < MaxCancels
  /\ cancels' = cancels + 1 /\ Caller(r, "left")
  /\ UNCHANGED <<closed, channel, notify, waiting, scheduler, work>>

------------------------------------------------------------------------------
Becomes(s, state) == scheduler' = [scheduler EXCEPT ![s] = state]

(* One look of pick at one channel.                                           *)
Pick(s) ==
  /\ scheduler[s].at = "scan"
  /\ LET l == scheduler[s].level
     IN IF channel[l] # <<>>
        THEN /\ channel' = [channel EXCEPT ![l] = Tail(@)]
             /\ Becomes(s, [at |-> "picked", got |-> Head(channel[l])])
        ELSE /\ Becomes(s, IF l < Len(Priorities) THEN Scan(l + 1) ELSE Sleeping)
             /\ UNCHANGED channel
  /\ UNCHANGED <<closed, notify, waiting, caller, work, cancels>>

Wake(s) ==
  /\ scheduler[s].at = "sleep" /\ notify > 0
  /\ notify' = notify - 1 /\ Becomes(s, Scan(1))
  /\ UNCHANGED <<closed, channel, waiting, caller, work, cancels>>

Uncount(s) ==
  /\ scheduler[s].at = "picked"
  /\ Count(Priority[scheduler[s].got], -1)
  /\ Becomes(s, [scheduler[s] EXCEPT !.at = "acquire"])
  /\ UNCHANGED <<closed, channel, notify, caller, work, cancels>>

Acquire(s) ==
  /\ scheduler[s].at = "acquire" /\ Cardinality(Running) < MaxConcurrent
  /\ work' = [work EXCEPT ![scheduler[s].got] = "running"]
  /\ Becomes(s, IF closed THEN Stopped ELSE Scan(1))
  /\ UNCHANGED <<closed, channel, notify, waiting, caller, cancels>>

(* A scheduler stops at the head of its loop, asleep, or with a request in    *)
(* its hands, which is lost.                                                  *)
Stop(s) ==
  /\ closed /\ scheduler[s] \in {Scan(1), Sleeping} \cup [at : {"acquire"}, got : Requests]
  /\ Becomes(s, Stopped)
  /\ UNCHANGED <<closed, channel, notify, waiting, caller, work, cancels>>

(* The execution tells its caller, if it is still there, and ends.            *)
Ends(r) ==
  /\ r \in Running /\ work' = [work EXCEPT ![r] = "ended"]
  /\ caller' = IF caller[r] = "waiting" THEN [caller EXCEPT ![r] = "done"] ELSE caller
  /\ UNCHANGED <<closed, channel, notify, waiting, scheduler, cancels>>

(* A panic is recovered and gives the slot back, but the line that tells the  *)
(* caller is not reached.                                                     *)
Panics(r) ==
  /\ r \in Running \cap Faulty /\ work' = [work EXCEPT ![r] = "panicked"]
  /\ UNCHANGED <<closed, channel, notify, waiting, scheduler, caller, cancels>>

(* Who has been answered sends the next request of its priority.              *)
Again(r) ==
  /\ r \in Regulars /\ caller[r] = "done" /\ Caller(r, "none") /\ work' = [work EXCEPT ![r] = "none"]
  /\ UNCHANGED <<closed, channel, notify, waiting, scheduler, cancels>>

(* Close waits for the schedulers, and nobody else.                           *)
Close ==
  /\ ~closed /\ closed' = TRUE
  /\ UNCHANGED <<channel, notify, waiting, scheduler, caller, work, cancels>>

Schedule(s) == Pick(s) \/ Wake(s) \/ Uncount(s) \/ Acquire(s) \/ Stop(s)
Serve(r) == Send(r) \/ Notify(r) \/ Ends(r) \/ Panics(r)

QueueNext ==
  \/ \E r \in Requests : Enqueue(r) \/ EnqueueFails(r) \/ Leave(r) \/ Again(r) \/ Serve(r)
  \/ \E s \in Schedulers : Schedule(s)
  \/ Close

(* Goroutines run and requests end; no caller has to come or to go.  Who      *)
(* waits for a slot of the semaphore gets one before those who come later:    *)
(* a channel serves its senders in their order.                               *)
QueueFairness ==
  /\ \A r \in Requests : WF_queueVars(Serve(r))
  /\ \A s \in Schedulers : WF_queueVars(Schedule(s)) /\ SF_queueVars(Acquire(s))

------------------------------------------------------------------------------
Held(r) == \E s \in Schedulers : scheduler[s].at \in {"picked", "acquire"} /\ scheduler[s].got = r
InChannel(r) == \E i \in DOMAIN channel[Priority[r]] : channel[Priority[r]][i] = r

(* No request is executed beside more than MaxConcurrent - 1 others, none is  *)
(* in two places, the counters tell how many wait, and no wake-up is lost:    *)
(* while a request lies in a channel somebody is awake, or a token is there   *)
(* or about to come.                                                          *)
QueueSound ==
  /\ Cardinality(Running) <= MaxConcurrent
  /\ \A r \in Requests : InChannel(r) => ~Held(r) /\ work[r] = "none"
  /\ \A l \in Level : waiting[l] = Len(channel[l]) + Cardinality(
       {r \in Requests : Priority[r] = l /\ (caller[r] = "counted"
          \/ \E s \in Schedulers : scheduler[s] = [at |-> "picked", got |-> r])})
  /\ ((\E r \in Requests : InChannel(r)) /\ \A s \in Schedulers : scheduler[s].at = "sleep")
       => notify > 0 \/ \E r \in Requests : caller[r] = "sent"

(* A request that was accepted is executed, unless the queue is closed first  *)
(* or requests of a higher priority keep coming for ever: pick looks at the   *)
(* levels in strict order, and a share of the lower ones, which the comment   *)
(* of NewQueue promises through highPriorityPct, is not given to them.        *)
Overtaken(r) == \E q \in Requests : Priority[q] < Priority[r] /\ InChannel(q)

AcceptedRuns ==
  \A r \in Requests :
    (caller[r] = "waiting" ~> work[r] # "none" \/ closed) \/ []<>Overtaken(r)
=============================================================================
