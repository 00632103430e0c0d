----------------------------- MODULE RateLimits -----------------------------
(***************************************************************************)
(* The two token buckets of gatewayd: the limiter of clients, which        *)
(* refuses (gateway/ratelimit), and the limiter of calls to one upstream,  *)
(* which makes the caller wait (upstreamRateLimiter of                     *)
(* api/runtime_state.go).  A token is Cost ticks of the clock, so that     *)
(* credit is a whole number of ticks.                                      *)
(***************************************************************************)
EXTENDS Integers, Sequences, FiniteSets, SequencesExt

CONSTANTS
  Clients,     \* keys of the buckets
  Cost,        \* ticks in which one token grows: 1 / rps
  Burst,
  MaxBuckets,
  StaleTTL,    \* ticks after which an unused bucket is dropped
  CleanupEvery,\* calls between two sweeps
  MaxTicks,    \* bound of the clock
  MaxGrants    \* bound: requests let through

LimitAssumption ==
  /\ Cost \in Nat \ {0} /\ Burst \in Nat \ {0} /\ MaxBuckets \in Nat \ {0}
  /\ StaleTTL \in Nat /\ CleanupEvery \in Nat \ {0} /\ MaxTicks \in Nat

VARIABLES
  ticks,
  buckets,    \* of clients: credit and lastCheck; those that exist
  allowCalls, \* modulo CleanupEvery
  allowed,    \* by client, when it was let through
  upstream,   \* the bucket of the upstream
  starts      \* when the calls that were let wait may start, in order

limitVars == <<ticks, buckets, allowCalls, allowed, upstream, starts>>

Full == Burst * Cost
Least(a, b) == IF a < b THEN a ELSE b

LimitTypeOK ==
  /\ ticks \in 0..MaxTicks
  /\ DOMAIN buckets \subseteq Clients
  /\ \A c \in DOMAIN buckets : buckets[c] \in [credit : 0..Full, last : 0..MaxTicks]
  /\ allowCalls \in 0..CleanupEvery - 1
  /\ allowed \in [Clients -> Seq(0..MaxTicks)]
  /\ upstream \in [credit : 0..Full, last : Nat]
  /\ starts \in Seq(Nat)

LimitInit ==
  /\ ticks = 0 /\ buckets = <<>> /\ allowCalls = 0 /\ allowed = [c \in Clients |-> <<>>]
  /\ upstream = [credit |-> Full, last |-> 0] /\ starts = <<>>

Fresh == {c \in DOMAIN buckets : ticks - buckets[c].last <= StaleTTL}
Swept == [c \in Fresh |-> buckets[c]]

(* The buckets Allow looks at: swept every so many calls, and when a new      *)
(* client finds no place.                                                     *)
Kept(c) ==
  LET kept == IF allowCalls + 1 = CleanupEvery THEN Swept ELSE buckets
  IN IF c \in DOMAIN kept \/ Cardinality(DOMAIN kept) < MaxBuckets THEN kept ELSE Swept

(* Allow: a new bucket is full; a client without a place is refused.          *)
Allow(c) ==
  LET kept == Kept(c)
      refused == c \notin DOMAIN kept /\ Cardinality(DOMAIN kept) >= MaxBuckets
      credit == IF c \in DOMAIN kept THEN Least(Full, kept[c].credit + ticks - kept[c].last) ELSE Full
      passes == ~refused /\ credit >= Cost
  IN /\ Len(allowed[c]) < MaxGrants
     /\ allowCalls' = (allowCalls + 1) % CleanupEvery
     /\ buckets' = IF refused THEN kept
                   ELSE [d \in DOMAIN kept \cup {c} |->
                           IF d = c THEN [credit |-> IF passes THEN credit - Cost ELSE credit, last |-> ticks]
                           ELSE kept[d]]
     /\ allowed' = IF passes THEN [allowed EXCEPT ![c] = Append(@, ticks)] ELSE allowed
     /\ UNCHANGED <<ticks, upstream, starts>>

(* Mutant: an idle bucket grows past the burst.                               *)
BugReserve ==
  LET credit == upstream.credit + (IF ticks > upstream.last THEN ticks - upstream.last ELSE 0)
  IN /\ Len(starts) < MaxGrants /\ credit >= Cost
     /\ upstream' = [credit |-> credit - Cost, last |-> ticks] /\ starts' = Append(starts, ticks)
     /\ UNCHANGED <<ticks, buckets, allowCalls, allowed>>

(* reserveDelay: the bucket's time runs ahead of the clock by what is already *)
(* reserved.  A caller that goes away keeps its place.                        *)
reserveDelay ==
  LET grown == ticks > upstream.last
      credit == IF grown THEN Least(Full, upstream.credit + ticks - upstream.last) ELSE upstream.credit
      base == IF grown THEN ticks ELSE upstream.last
  IN /\ Len(starts) < MaxGrants
     /\ IF credit >= Cost
        THEN upstream' = [credit |-> credit - Cost, last |-> base] /\ starts' = Append(starts, ticks)
        ELSE /\ upstream' = [credit |-> 0, last |-> base + Cost - credit]
             /\ starts' = Append(starts, base + Cost - credit)
     /\ UNCHANGED <<ticks, buckets, allowCalls, allowed>>

LimitTick ==
  /\ ticks < MaxTicks /\ ticks' = ticks + 1
  /\ UNCHANGED <<buckets, allowCalls, allowed, upstream, starts>>

ClientsNext == (\E c \in Clients : Allow(c)) \/ LimitTick
UpstreamNext == reserveDelay \/ LimitTick

------------------------------------------------------------------------------
(* In any stretch of time no more pass than the burst and what has grown in   *)
(* it: of a client, even when its bucket was dropped in between, as long as a *)
(* bucket fills up in less time than it takes to become stale; and of the     *)
(* calls to an upstream, counted when they start.                             *)
WithinRate(times) ==
  \A i, j \in DOMAIN times : i <= j => (j - i + 1 - Burst) * Cost <= times[j] - times[i]

RatesHold ==
  /\ Full <= StaleTTL => \A c \in Clients : WithinRate(allowed[c])
  /\ WithinRate(starts)
=============================================================================
