----------------------------- MODULE MCAdmission -----------------------------
(***************************************************************************)
(* What decides in gatewayd when, and whether, a request is worked on: the *)
(* priority queue, the response cache and two rate limiters, which share   *)
(* no state.  The initial state chooses which of them runs; the others     *)
(* stay at rest.                                                           *)
(***************************************************************************)
EXTENDS RequestQueue, TLC

CONSTANTS
  q1, q2, q3,
  Keys, Sizes, MaxItems, MaxBytes, TTL, MaxClock, MaxPuts,
  Clients, Cost, Burst, MaxBuckets, StaleTTL, CleanupEvery, MaxTicks, MaxGrants

VARIABLES
  part,
  lru, bytes, clock, puts, latest, answer, evicted,
  ticks, buckets, allowCalls, allowed, upstream, starts

Cached == INSTANCE ResponseCache
Limits == INSTANCE RateLimits

ASSUME CachedAssumption == Cached!CacheAssumption
ASSUME LimitsAssumption == Limits!LimitAssumption

MCPriority == q1 :> 1 @@ q2 :> 3 @@ q3 :> 3

atCache == <<lru, bytes, clock, puts, latest, answer, evicted>>
atLimits == <<ticks, buckets, allowCalls, allowed, upstream, starts>>

MCInit ==
  /\ QueueInit /\ Cached!CacheInit /\ Limits!LimitInit
  /\ part \in {"queue", "cache", "clients", "upstream"}

(* Without a request in it the queue's schedulers only fall asleep.           *)
MCNext ==
  \/ part = "queue" /\ QueueNext /\ UNCHANGED <<part, atCache, atLimits>>
  \/ part = "cache" /\ Cached!CacheNext /\ UNCHANGED <<part, queueVars, atLimits>>
  \/ part = "clients" /\ Limits!ClientsNext /\ UNCHANGED <<part, queueVars, atCache>>
  \/ part = "upstream" /\ Limits!UpstreamNext /\ UNCHANGED <<part, queueVars, atCache>>

MCSpec == MCInit /\ [][MCNext]_<<part, queueVars, atCache, atLimits>> /\ QueueFairness

(* One type invariant for all. *)
TypesOK == QueueTypeOK /\ Cached!CacheTypeOK /\ Limits!LimitTypeOK

(* Each keeps its account: the queue of who waits, the cache of its bytes, a *)
(* limiter of what it has let through.                                     *)
AdmissionSound == QueueSound /\ Cached!CacheAccounts /\ Limits!RatesHold

CacheServes == Cached!CacheServes
=============================================================================
