---------------------------- MODULE ResponseCache ----------------------------
(***************************************************************************)
(* The response cache of gatewayd (gateway/cache/cache.go): least recently *)
(* used first out, bounded in entries and in bytes, entries that expire,   *)
(* a sweep in the background, and counters.  Every operation holds the     *)
(* cache's mutex.                                                          *)
(***************************************************************************)
EXTENDS Naturals, Sequences, FiniteSets, SequencesExt, FiniteSetsExt

CONSTANTS
  Keys,
  Sizes,       \* of the values that are put, in bytes
  MaxItems,
  MaxBytes,    \* 0: no limit
  TTL,
  MaxClock,    \* bound of the clock
  MaxPuts      \* bound: how many values are put

CacheAssumption ==
  /\ Sizes \subseteq Nat /\ MaxItems \in Nat \ {0} /\ MaxBytes \in Nat /\ TTL \in Nat
  /\ MaxClock \in Nat /\ MaxPuts \in Nat

VARIABLES
  lru,       \* the entries, the one used last first
  bytes,     \* currentBytes
  clock,
  puts,      \* the values put so far: they are numbered
  latest,    \* by key, the last value put and not deleted
  answer,    \* of the last Get
  evicted    \* what the last Put pushed out, the last used first

cacheVars == <<lru, bytes, clock, puts, latest, answer, evicted>>

Entry == [key : Keys, value : 1..MaxPuts, bytes : Sizes, cachedAt : 0..MaxClock]
Miss == 0

CacheTypeOK ==
  /\ lru \in Seq(Entry) /\ bytes \in Nat
  /\ clock \in 0..MaxClock /\ puts \in 0..MaxPuts
  /\ latest \in [Keys -> 0..MaxPuts] /\ answer \in 0..MaxPuts
  /\ evicted \in Seq(Entry)

CacheInit ==
  /\ lru = <<>> /\ bytes = 0 /\ clock = 0 /\ puts = 0
  /\ latest = [k \in Keys |-> 0] /\ answer = Miss /\ evicted = <<>>

(* The bytes of some entries, and those of them that are good, in their       *)
(* order: recursive functions, over the entries from the first on.            *)
Total(entries) ==
  LET sum[n \in 0..Len(entries)] == IF n = 0 THEN 0 ELSE sum[n - 1] + entries[n].bytes
  IN sum[Len(entries)]
Only(entries, good) ==
  LET some[n \in 0..Len(entries)] ==
        IF n = 0 THEN <<>>
        ELSE IF entries[n] \in good THEN Append(some[n - 1], entries[n]) ELSE some[n - 1]
  IN some[Len(entries)]

Has(k) == \E i \in DOMAIN lru : lru[i].key = k
At(k) == lru[CHOOSE i \in DOMAIN lru : lru[i].key = k]
Without(entries, k) == Only(entries, {e \in ToSet(entries) : e.key # k})

Expired(e) == clock - e.cachedAt > TTL

(* Remove what is not in entries; nothing was pushed out.                     *)
Keep(entries) == lru' = entries /\ bytes' = bytes - (Total(lru) - Total(entries)) /\ evicted' = <<>>

------------------------------------------------------------------------------
(* Mutant: expiry is left to the sweep.                                       *)
BugGet(k) ==
  /\ IF ~Has(k) THEN answer' = Miss /\ Keep(lru)
     ELSE answer' = At(k).value /\ Keep(<<At(k)>> \o Without(lru, k))
  /\ UNCHANGED <<clock, puts, latest>>

(* A hit moves to the front and keeps its age; an expired entry is removed.   *)
Get(k) ==
  /\ IF ~Has(k) THEN answer' = Miss /\ Keep(lru)
     ELSE IF Expired(At(k)) THEN answer' = Miss /\ Keep(Without(lru, k))
     ELSE answer' = At(k).value /\ Keep(<<At(k)>> \o Without(lru, k))
  /\ UNCHANGED <<clock, puts, latest>>

(* What fits beside a new entry: at most one less than MaxItems, then as many *)
(* as leave it the bytes; none, if it is too large by itself.                 *)
Fits(entries, size) ==
  LET count == {n \in 0..Len(entries) : n < MaxItems}
      room == {n \in count : MaxBytes = 0 \/ Total(SubSeq(entries, 1, n)) + size <= MaxBytes}
  IN IF room = {} THEN 0 ELSE Max(room)

(* Mutant: the bytes of a replaced entry stay on the account.                 *)
BugPut(k, size) ==
  /\ puts < MaxPuts /\ puts' = puts + 1
  /\ LET others == Without(lru, k)
         n == Fits(others, size)
         new == [key |-> k, value |-> puts + 1, bytes |-> size, cachedAt |-> clock]
     IN /\ lru' = <<new>> \o SubSeq(others, 1, n)
        /\ evicted' = SubSeq(others, n + 1, Len(others))
        /\ bytes' = bytes - Total(evicted') + size
  /\ latest' = [latest EXCEPT ![k] = puts + 1]
  /\ UNCHANGED <<clock, answer>>

(* An empty value is not cached; an old entry of the key is removed first.    *)
Put(k, size) ==
  /\ puts < MaxPuts /\ puts' = puts + 1
  /\ IF size = 0 THEN UNCHANGED <<lru, bytes, latest>> /\ evicted' = <<>>
     ELSE LET others == Without(lru, k)
              n == Fits(others, size)
              new == [key |-> k, value |-> puts + 1, bytes |-> size, cachedAt |-> clock]
          IN /\ lru' = <<new>> \o SubSeq(others, 1, n)
             /\ evicted' = SubSeq(others, n + 1, Len(others))
             /\ bytes' = bytes - (Total(lru) - Total(others)) - Total(evicted') + size
             /\ latest' = [latest EXCEPT ![k] = puts + 1]
  /\ UNCHANGED <<clock, answer>>

Delete(k) ==
  /\ Keep(Without(lru, k))
  /\ latest' = [latest EXCEPT ![k] = 0]
  /\ UNCHANGED <<clock, puts, answer>>

sweepExpired ==
  /\ Keep(Only(lru, {e \in ToSet(lru) : ~Expired(e)}))
  /\ UNCHANGED <<clock, puts, latest, answer>>

CacheTick ==
  /\ clock < MaxClock /\ clock' = clock + 1 /\ evicted' = <<>>
  /\ UNCHANGED <<lru, bytes, puts, latest, answer>>

CacheNext ==
  \/ \E k \in Keys : Get(k) \/ Delete(k) \/ \E size \in Sizes : Put(k, size)
  \/ sweepExpired \/ CacheTick

------------------------------------------------------------------------------
(* The account is the sum of what is kept, one entry a key; there are never   *)
(* more than MaxItems, nor more than MaxBytes unless one entry alone is; and  *)
(* what is kept of a key is the last value put.                               *)
CacheAccounts ==
  /\ bytes = Total(lru) /\ Len(lru) <= MaxItems
  /\ MaxBytes > 0 /\ bytes > MaxBytes => Len(lru) = 1
  /\ \A i, j \in DOMAIN lru : lru[i].key = lru[j].key => i = j
  /\ \A i \in DOMAIN lru : lru[i].value = latest[lru[i].key]

(* A Get answers with the last value put of some key, no older than the TTL,  *)
(* or not at all; and a Put pushes out no more than it has to: one entry less *)
(* would have left a place and the bytes for it.                              *)
CacheServes ==
  [][/\ \A k \in Keys : Get(k) /\ answer' # Miss =>
          answer' = latest[k] /\ \E i \in DOMAIN lru : lru[i].value = answer' /\ ~Expired(lru[i])
     /\ evicted' # <<>> =>
          \/ Len(lru') + 1 > MaxItems
          \/ MaxBytes > 0 /\ Total(lru') + evicted'[1].bytes > MaxBytes]_cacheVars
=============================================================================
