--------------------------- MODULE RequestExecution ---------------------------
(***************************************************************************)
(* How gatewayd executes a model request (internal/gateway/api):           *)
(* handleChatOrMessages with its retry loop over the providers, the        *)
(* fallback models, the keep-alive session of a stream that is retried,    *)
(* and the response cache that requests share.                             *)
(*                                                                         *)
(* Each request is a process that net/http runs in a goroutine.  What it   *)
(* reads once and keeps, the snapshot in force when it came in and its own *)
(* attributes, is its profile.  Which of the providers the runtime state   *)
(* lets through, and in which order, is left open here (module             *)
(* ProviderState decides it).  Bodies are known by who wrote them.         *)
(***************************************************************************)
EXTENDS Naturals, Sequences, FiniteSets

CONSTANTS
  Requests,
  Profiles,             \* for every request, what it may be, see Profile
  Providers,
  Models,
  Serving,              \* Models -> the enabled providers that list the model
  Keys,                 \* keys of the response cache
  HardRetryCap,         \* 20 in routing.go
  MaxFallbackAttempts,  \* 10 in fallback.go
  SSEAfterRetry,        \* a retried stream that succeeds is answered with SSE
  None

Profile ==
  [model     : Models,           \* after resolveBridgeModel
   key       : Keys,             \* hash of body, model and sticky key
   stream    : BOOLEAN,
   caching   : BOOLEAN,          \* routing_policy.cache.enabled
   infinite  : BOOLEAN,          \* retry.infinite_on_error
   retries   : Nat,              \* max_retries
   same      : [Providers -> Nat],  \* execution_policy.same_retries
   budget    : BOOLEAN,          \* retry.max_elapsed_ms > 0
   fallbacks : Seq(Models),      \* ResolveFallbackModels
   refusing  : SUBSET Providers, \* whose protocol the body cannot be converted to
   pinned    : Providers \cup {None}]  \* a diagnostic request, for one provider

ASSUME ExecutionAssumption ==
  /\ Profiles \in [Requests -> SUBSET Profile]
  /\ Serving \in [Models -> SUBSET Providers]
  /\ IsFiniteSet(Providers)
  /\ HardRetryCap \in Nat \ {0}
  /\ MaxFallbackAttempts \in Nat
  /\ SSEAfterRetry \in BOOLEAN
  /\ None \notin Providers

VARIABLES
  req,     \* the state of every request, see Request
  wire,    \* what its client was sent: "nothing", "header" or the "answer"
  events,  \* how many telemetry events it emitted
  cache    \* the response cache: for a key, who wrote the body

vars == <<req, wire, events, cache>>

Success == {"success", "garbled", "sse"}  \* garbled: adaptResponseBodyForClient fails
Failure == {"retryable", "final", "lost"} \* lost: no status, or a body that breaks off
Results == Success \cup Failure \cup {"none", "unsupported", "spent"}

Steps == {"new", "lookup", "hit", "collect", "plan", "loop", "call", "judge", "session",
          "backoff", "settle", "deliver", "store", "models", "fallback", "fallback call",
          "fallback deliver", "give up", "fail", "refuse", "report", "return", "ended"}

Request ==
  [pc       : Steps,
   profile  : Profile \cup {None},
   todo     : Seq(Providers),        \* orderedCandidates from the current one on
   tries    : Nat,                   \* providerAttempt
   attempts : Nat,
   last     : Results,               \* finalStatusCode and finalForwardErr
   provider : Providers \cup {None}, \* finalProvider
   models   : Seq(Models),           \* the fallback models that are left
   extra    : Nat,                   \* fallbackAttempts
   gone     : BOOLEAN,               \* the context is cancelled: no client
   heart    : {"none", "beating", "stopped"}]  \* streamRetry

New == [pc |-> "new", profile |-> None, todo |-> <<>>, tries |-> 0, attempts |-> 0,
        last |-> "none", provider |-> None, models |-> <<>>, extra |-> 0,
        gone |-> FALSE, heart |-> "none"]

(* The step r is at, its profile, and a step of it to the next one. *)
At(r, step) == req[r].pc = step
Prof(r) == req[r].profile
Goto(r, step) == req' = [req EXCEPT ![r].pc = step]

Diagnostic(p) == p.pinned # None
UsesCache(p) == p.caching /\ ~Diagnostic(p)

(* maxTotalAttempts; 0 stands for no configured limit. *)
MaxAttempts(p) ==
  IF Diagnostic(p) THEN 1
  ELSE IF p.infinite THEN 0
  ELSE IF 1 + p.retries > HardRetryCap THEN HardRetryCap ELSE 1 + p.retries

(* How often one provider is tried, 0 for without limit. *)
SameProviderAttempts(p, provider) ==
  IF Diagnostic(p) THEN 1
  ELSE IF p.infinite THEN 0 ELSE 1 + p.same[provider]

(* collectProviderCandidatesForRequest and the pinned provider. *)
Candidates(p) ==
  IF Diagnostic(p) THEN Serving[p.model] \cap {p.pinned} ELSE Serving[p.model]

(* What orderCandidates may return: some of the candidates, each once. *)
Orders(S) ==
  UNION {{o \in [1..n -> S] : \A i, j \in 1..n : o[i] = o[j] => i = j}
           : n \in 0..Cardinality(S)}

(* shouldRetryAttempt *)
Retries(r) == ~req[r].gone /\ req[r].last \in {"lost", "retryable"}

(* forwardToUpstream: what it may return.  Only a stream stays open as SSE. *)
Outcomes(r) ==
  Failure \cup
  (IF Prof(r).stream THEN {"sse"} ELSE {}) \cup
  (IF SSEAfterRetry /\ req[r].heart = "beating" THEN {} ELSE {"success", "garbled"})

-----------------------------------------------------------------------------

Init ==
  /\ req = [r \in Requests |-> New]
  /\ wire = [r \in Requests |-> "nothing"]
  /\ events = [r \in Requests |-> 0]
  /\ cache = [k \in Keys |-> None]

(* The body is read and parsed; a request that is malformed is refused. *)
Arrive(r) ==
  /\ At(r, "new")
  /\ \E p \in Profiles[r], step \in {"lookup", "refuse"} :
       req' = [req EXCEPT ![r] = [New EXCEPT !.pc = step, !.profile = p]]
  /\ UNCHANGED <<wire, events, cache>>

(* Streams are not looked up. *)
Lookup(r) ==
  /\ At(r, "lookup")
  /\ IF UsesCache(Prof(r)) /\ ~Prof(r).stream /\ cache[Prof(r).key] # None
     THEN Goto(r, "hit") ELSE Goto(r, "collect")
  /\ UNCHANGED <<wire, events, cache>>

Hit(r) ==
  /\ At(r, "hit")
  /\ wire' = [wire EXCEPT ![r] = "answer"]
  /\ Goto(r, "report")
  /\ UNCHANGED <<events, cache>>

(* The candidates are put in order; a pinned one passes the gate. *)
Collect(r) ==
  /\ At(r, "collect")
  /\ IF Candidates(Prof(r)) = {} THEN Goto(r, "refuse")
     ELSE \E order \in Orders(Candidates(Prof(r))) :
            /\ Diagnostic(Prof(r)) => Len(order) = 1
            /\ req' = [req EXCEPT ![r].pc = "plan", ![r].todo = order]
  /\ UNCHANGED <<wire, events, cache>>

(* The head of the loop over the candidates: buildCompatPlan for the next. *)
Plan(r) ==
  /\ At(r, "plan")
  /\ IF req[r].todo = <<>> THEN Goto(r, "settle")
     ELSE LET provider == Head(req[r].todo) IN
          IF provider \in Prof(r).refusing
          THEN req' = [req EXCEPT ![r].pc = "settle", ![r].last = "unsupported",
                                  ![r].provider = provider]
          ELSE req' = [req EXCEPT ![r].pc = "loop", ![r].tries = 0]
  /\ UNCHANGED <<wire, events, cache>>

(* The condition of the inner loop, for the candidate at the head of todo. *)
MayTry(r) ==
  LET p == Prof(r)
      same == SameProviderAttempts(p, Head(req[r].todo)) IN
  /\ same = 0 \/ req[r].tries < same
  /\ MaxAttempts(p) = 0 \/ req[r].attempts < MaxAttempts(p)

NextCandidate(r) ==
  /\ At(r, "loop") /\ ~MayTry(r)
  /\ req' = [req EXCEPT ![r].pc = "plan", ![r].todo = Tail(@)]
  /\ UNCHANGED <<wire, events, cache>>

(* "retry time budget exhausted": any amount of time may have passed. *)
BudgetSpent(r) ==
  /\ At(r, "loop") /\ MayTry(r) /\ Prof(r).budget
  /\ req' = [req EXCEPT ![r].pc = "settle", ![r].last = "spent"]
  /\ UNCHANGED <<wire, events, cache>>

BugAtHardCap(r) == FALSE

AtHardCap(r) == MaxAttempts(Prof(r)) = 0 /\ req[r].attempts >= HardRetryCap

CapReached(r) ==
  /\ At(r, "loop") /\ MayTry(r) /\ AtHardCap(r)
  /\ Goto(r, "settle")
  /\ UNCHANGED <<wire, events, cache>>

Attempt(r) ==
  /\ At(r, "loop") /\ MayTry(r) /\ ~AtHardCap(r)
  /\ req' = [req EXCEPT ![r].pc = "call", ![r].attempts = @ + 1]
  /\ UNCHANGED <<wire, events, cache>>

(* The upstream answers, or a timeout or the client's end cuts it off. *)
Call(r) ==
  /\ At(r, "call")
  /\ \E result \in Outcomes(r) :
       req' = [req EXCEPT ![r].pc = "judge", ![r].last = result,
                          ![r].provider = Head(req[r].todo)]
  /\ UNCHANGED <<wire, events, cache>>

(* What to do with the result of an attempt. *)
Judge(r) ==
  /\ At(r, "judge")
  /\ LET max == MaxAttempts(Prof(r)) IN
     IF req[r].last \in Success \/ ~Retries(r) \/ (max # 0 /\ req[r].attempts >= max)
     THEN Goto(r, "settle")
     ELSE IF Prof(r).stream /\ max = 0 /\ req[r].heart = "none"
          THEN Goto(r, "session") ELSE Goto(r, "backoff")
  /\ UNCHANGED <<wire, events, cache>>

(* startStreamRetrySession: header and a comment; without a client the       *)
(* write may fail, and there is no session.                                  *)
Session(r) ==
  /\ At(r, "session")
  /\ wire' = [wire EXCEPT ![r] = "header"]
  /\ \E heart \in {"beating"} \cup (IF req[r].gone THEN {"none"} ELSE {}) :
       req' = [req EXCEPT ![r].pc = "backoff", ![r].heart = heart]
  /\ UNCHANGED <<events, cache>>

(* waitRetryBackoff *)
Backoff(r) ==
  /\ At(r, "backoff")
  /\ req' = [req EXCEPT ![r].pc = "loop", ![r].tries = @ + 1]
  /\ UNCHANGED <<wire, events, cache>>

(* After the loop: deliver, or fall back unless the response has begun. *)
Settle(r) ==
  /\ At(r, "settle")
  /\ IF req[r].provider # None /\ req[r].last \in Success THEN Goto(r, "deliver")
     ELSE IF req[r].heart = "none" /\ ~Diagnostic(Prof(r))
          THEN req' = [req EXCEPT ![r].pc = "models", ![r].models = Prof(r).fallbacks]
          ELSE Goto(r, "give up")
  /\ UNCHANGED <<wire, events, cache>>

(* tryFallbackModels looks at the context and the budget before each step. *)
StopsFallback(r) == req[r].gone \/ Prof(r).budget

BugNextModel(r) ==
  /\ At(r, "models")
  /\ \/ /\ req[r].models = <<>> \/ StopsFallback(r)
        /\ Goto(r, "give up")
     \/ /\ req[r].models # <<>> /\ ~req[r].gone
        /\ \E order \in Orders(Serving[Head(req[r].models)]) :
             req' = [req EXCEPT ![r].pc = "fallback", ![r].todo = order]
  /\ UNCHANGED <<wire, events, cache>>

NextModel(r) ==
  /\ At(r, "models")
  /\ \/ /\ req[r].models = <<>> \/ StopsFallback(r)
        /\ Goto(r, "give up")
     \/ /\ req[r].models # <<>> /\ ~req[r].gone
        /\ \E order \in Orders(Serving[Head(req[r].models)]) :
             req' = [req EXCEPT ![r].pc = "fallback", ![r].todo = order,
                                ![r].models = Tail(@)]
  /\ UNCHANGED <<wire, events, cache>>

(* The next candidate of a fallback model; one with the wrong protocol counts. *)
NextFallback(r) ==
  /\ At(r, "fallback")
  /\ \/ /\ req[r].todo = <<>>
        /\ Goto(r, "models")
     \/ /\ req[r].todo # <<>>
        /\ StopsFallback(r) \/ req[r].extra >= MaxFallbackAttempts
        /\ Goto(r, "give up")
     \/ /\ req[r].todo # <<>> /\ ~req[r].gone /\ req[r].extra < MaxFallbackAttempts
        /\ IF Head(req[r].todo) \in Prof(r).refusing
           THEN req' = [req EXCEPT ![r].extra = @ + 1, ![r].todo = Tail(@)]
           ELSE req' = [req EXCEPT ![r].extra = @ + 1, ![r].pc = "fallback call"]
  /\ UNCHANGED <<wire, events, cache>>

(* A result that cannot be delivered leads to the next candidate. *)
FallbackCall(r) ==
  /\ At(r, "fallback call")
  /\ \E result \in Outcomes(r) :
       IF result \in {"success", "sse"} THEN Goto(r, "fallback deliver")
       ELSE req' = [req EXCEPT ![r].pc = "fallback", ![r].todo = Tail(@)]
  /\ UNCHANGED <<wire, events, cache>>

FallbackDeliver(r) ==
  /\ At(r, "fallback deliver")
  /\ wire' = [wire EXCEPT ![r] = "answer"]
  /\ Goto(r, "report")
  /\ UNCHANGED <<events, cache>>

(* Only an SSE answer stops the keep-alive session. *)
Deliver(r) ==
  /\ At(r, "deliver")
  /\ wire' = [wire EXCEPT ![r] = "answer"]
  /\ LET stops == req[r].last = "sse" /\ req[r].heart = "beating"
         stores == req[r].last = "success" /\ UsesCache(Prof(r)) IN
     req' = [req EXCEPT ![r].pc    = IF stores THEN "store" ELSE "report",
                        ![r].heart = IF stops THEN "stopped" ELSE @]
  /\ UNCHANGED <<events, cache>>

BugStore(r) ==
  /\ At(r, "store")
  /\ cache' = [cache EXCEPT ![Prof(r).key] = Prof(r).model]
  /\ Goto(r, "report")
  /\ UNCHANGED <<wire, events>>

Store(r) ==
  /\ At(r, "store")
  /\ cache' = [cache EXCEPT ![Prof(r).key] = req[r].provider]
  /\ Goto(r, "report")
  /\ UNCHANGED <<wire, events>>

(* emitTelemetry after an answer. *)
Report(r) ==
  /\ At(r, "report")
  /\ events' = [events EXCEPT ![r] = @ + 1]
  /\ Goto(r, "return")
  /\ UNCHANGED <<wire, cache>>

BugGiveUp(r) ==
  /\ At(r, "give up")
  /\ Goto(r, IF req[r].provider = None THEN "refuse" ELSE "fail")
  /\ UNCHANGED <<wire, events, cache>>

(* Without a provider nothing is emitted; an error is, before it is written. *)
GiveUp(r) ==
  /\ At(r, "give up")
  /\ IF req[r].provider = None
     THEN Goto(r, "refuse") /\ UNCHANGED events
     ELSE Goto(r, "fail") /\ events' = [events EXCEPT ![r] = @ + 1]
  /\ UNCHANGED <<wire, cache>>

(* The error, as an event when a keep-alive session runs, which ends first. *)
Fail(r) ==
  /\ At(r, "fail")
  /\ wire' = [wire EXCEPT ![r] = "answer"]
  /\ req' = [req EXCEPT ![r].pc = "return",
                        ![r].heart = IF @ = "beating" THEN "stopped" ELSE @]
  /\ UNCHANGED <<events, cache>>

(* writeError without telemetry: malformed, no such model, no provider. *)
Refuse(r) ==
  /\ At(r, "refuse")
  /\ wire' = [wire EXCEPT ![r] = "answer"]
  /\ Goto(r, "return")
  /\ UNCHANGED <<events, cache>>

Return(r) ==
  /\ At(r, "return")
  /\ Goto(r, "ended")
  /\ UNCHANGED <<wire, events, cache>>

(* The client leaves, or the timeout of a diagnostic request passes. *)
Disconnect(r) ==
  /\ req[r].pc \notin {"new", "ended"} /\ ~req[r].gone
  /\ req' = [req EXCEPT ![r].gone = TRUE]
  /\ UNCHANGED <<wire, events, cache>>

(* An entry expires, is displaced, or its cache is replaced. *)
Evict(k) ==
  /\ cache[k] # None
  /\ cache' = [cache EXCEPT ![k] = None]
  /\ UNCHANGED <<req, wire, events>>

Step(r) ==
  \/ Lookup(r) \/ Hit(r) \/ Collect(r) \/ Plan(r)
  \/ NextCandidate(r) \/ BudgetSpent(r) \/ CapReached(r) \/ Attempt(r)
  \/ Call(r) \/ Judge(r) \/ Session(r) \/ Backoff(r) \/ Settle(r)
  \/ NextModel(r) \/ NextFallback(r) \/ FallbackCall(r) \/ FallbackDeliver(r)
  \/ Deliver(r) \/ Store(r) \/ Report(r) \/ GiveUp(r) \/ Fail(r) \/ Refuse(r)
  \/ Return(r)

Next ==
  \/ \E r \in Requests : Arrive(r) \/ Step(r) \/ Disconnect(r)
  \/ \E k \in Keys : Evict(k)

Spec == Init /\ [][Next]_vars

(* Handlers run on; a call ends at the latest with the timeouts of the client *)
(* (ResponseHeaderTimeout, timeout_ms, the idle timeout of a stream).         *)
FairSpec == Spec /\ \A r \in Requests : WF_vars(Step(r))
-----------------------------------------------------------------------------
(* Properties. *)

(* Every variable has its type. *)
TypeOK ==
  /\ req \in [Requests -> Request]
  /\ \A r \in Requests : ~At(r, "new") => Prof(r) \in Profiles[r]
  /\ wire \in [Requests -> {"nothing", "header", "answer"}]
  /\ events \in [Requests -> Nat]
  /\ cache \in [Keys -> Providers \cup {None}]

Stage(r) == CASE At(r, "new") -> "new" [] At(r, "ended") -> "ended" [] OTHER -> "open"

Promise == INSTANCE RequestPromise WITH
  MaxCalls <- HardRetryCap + MaxFallbackAttempts,
  stage <- [r \in Requests |-> Stage(r)],
  calls <- [r \in Requests |-> req[r].attempts + req[r].extra]

(* handleChatOrMessages answers a request once, with at most one event, tries *)
(* upstream no more than the two caps allow and never once the answer is out, *)
(* and does not end without an answer.                                        *)
ImplementsPromise == Promise!Spec

(* emitTelemetry: a request that was tried upstream does not end without an   *)
(* event, on any of the paths out of the retry loop; only a request that      *)
(* found no provider of its own leaves none.                                  *)
CallsAreReported ==
  \A r \in Requests : At(r, "ended") /\ req[r].attempts > 0 => events[r] = 1

(* "Diagnostic probes disable cache, fallback, and retries for that synthetic *)
(* request" (docs/provider-fallback-health.md): one attempt, at the provider  *)
(* it names, whatever the policy in force and the other requests do.          *)
DiagnosticIsolated ==
  \A r \in Requests : ~At(r, "new") /\ Diagnostic(Prof(r)) =>
    /\ req[r].attempts <= 1 /\ req[r].extra = 0
    /\ req[r].provider \in {None, Prof(r).pinned}
    /\ ~At(r, "hit") /\ ~At(r, "store")

(* streamRetrySession: its goroutine writes to the response only while the    *)
(* handler does not, and no longer when the handler has returned.             *)
HeartbeatOwned ==
  \A r \in Requests : req[r].heart = "beating" =>
    /\ wire[r] = "header"
    /\ req[r].pc \in {"plan", "loop", "call", "judge", "backoff", "settle", "deliver",
                      "give up", "fail"}

(* What the paths out of the retry loop may not forget: the event, the limits *)
(* of a diagnostic request, the writer of the heartbeat.                      *)
PathsSound == CallsAreReported /\ DiagnosticIsolated /\ (SSEAfterRetry => HeartbeatOwned)

(* A request that has come in is answered and ends, whatever upstream does.   *)
EveryRequestEnds == \A r \in Requests : ~At(r, "new") ~> At(r, "ended")
=============================================================================
